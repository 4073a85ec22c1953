------------------------ MODULE LauncherUpdater_proofs ------------------------
(***************************************************************************)
(* An update never loses a file and is all or nothing, for every release,  *)
(* every set of files and every failure or crash.  The inductive invariant *)
(* has four parts: the types, which thread may do what when, what the      *)
(* updater knows of the release, and where each file's old and new content *)
(* are at each point of the install.                                       *)
(***************************************************************************)
EXTENDS LauncherUpdater, SequenceTheorems, TLAPS

(* The main thread's steps at which no worker exists. *)
Alone == Replacing \cup {"down", "cleanup", "listLeft", "create", "spawnCheck",
                         "spawnDownload", "wipeWork", "restart"}

(* The stage tells what the worker does, and an install that has not       *)
(* returned is either at work or was cut off.                              *)
ThreadsInv ==
    /\ pc \in Alone => worker = "none"
    /\ pc \in Replacing => installing
    /\ installing => pc \in Replacing \cup {"down"}
    /\ installing /\ pc = "down" => faulted
    /\ pc \in {"cleanup", "listLeft", "create", "spawnCheck"} => stage = "Idle"
    /\ worker = "check" => stage = "Checking"
    /\ worker \in {"wipe", "fetch"} => stage = "Downloading"
    /\ worker \in {"verify", "extract"} => stage = "Verifying"
    /\ pc \in {"join", "spawnDownload"} => stage = "Downloading" /\ worker \notin Working

(* What is on offer is newer than what runs, and what is staged before an  *)
(* install is all of it.                                                   *)
ReleaseInv ==
    /\ latest # 0 => latest > build
    /\ stage \in {"Available", "Downloading", "Verifying", "Staged"} => latest # 0
    /\ worker = "extract" => archive = latest
    /\ stage = "Staged" /\ pc \in {"ui", "game", "install", "closing"} =>
          staged = [f \in Files |-> latest]

StepFiles == {steps[i].file : i \in DOMAIN steps}

Forward == {"clear", "move", "place", "commit"}

(* The files the install has not come to yet are untouched, the one in     *)
(* hand is under its own name, then aside, and each that is on the list    *)
(* has its old content aside, if it had one.                               *)
OldKept ==
    pc \in Replacing =>
        /\ \A f \in todo : target[f] = before[f]
        /\ pc = "move" => target[cur.file] = before[cur.file] /\ ~cur.moved
        /\ pc = "place" =>
              /\ target[cur.file] = 0
              /\ IF cur.moved THEN aside[cur.file] = before[cur.file] ELSE before[cur.file] = 0
        /\ pc \in {"move", "place"} => cur.file \notin todo \cup StepFiles
        /\ \A i \in DOMAIN steps :
              /\ steps[i].file \notin todo
              /\ IF steps[i].moved THEN aside[steps[i].file] = before[steps[i].file]
                                   ELSE before[steps[i].file] = 0
        /\ \A i, j \in DOMAIN steps : steps[i].file = steps[j].file => i = j
        /\ pc = "backOutOld" => steps # <<>>

(* On the way forward what is not placed yet is staged, and what is on the *)
(* list is placed.                                                         *)
NewPlaced ==
    pc \in Forward =>
        /\ stage = "Staged"
        /\ \A f \in Files \ StepFiles : staged[f] = latest
        /\ \A i \in DOMAIN steps : steps[i].placed /\ target[steps[i].file] = latest
        /\ pc = "commit" => StepFiles = Files
        /\ Files = StepFiles \cup todo \cup (IF pc \in {"move", "place"} THEN {cur.file} ELSE {})

(* On the way back what is off the list is as it was, unless a rename      *)
(* failed, and so is what was not placed.                                  *)
BackedOut ==
    pc \in {"backOutNew", "backOutOld"} /\ ~faulted =>
        /\ \A f \in Files \ StepFiles : target[f] = before[f]
        /\ \A i \in DOMAIN steps : ~steps[i].placed => target[steps[i].file] = 0
        /\ pc = "backOutOld" => target[Last(steps).file] = 0

(* The inductive invariant. *)
UpdaterInv ==
    /\ TypeOK /\ ThreadsInv /\ ReleaseInv
    /\ OldKept /\ NewPlaced /\ BackedOut /\ OldFilesKept

-----------------------------------------------------------------------------
(* The types. *)

StepRecord == [file : Files, moved : BOOLEAN, placed : BOOLEAN]

(* The last of a list and the list without it. *)
LEMMA FrontLast ==
    ASSUME NEW S, NEW s \in Seq(S), s # <<>>
    PROVE  /\ Len(s) \in Nat \ {0} /\ DOMAIN s = 1..Len(s)
           /\ Last(s) = s[Len(s)] /\ Last(s) \in S
           /\ Front(s) \in Seq(S) /\ DOMAIN Front(s) = 1..(Len(s) - 1)
           /\ \A i \in 1..(Len(s) - 1) : Front(s)[i] = s[i]
<1>1. Len(s) \in Nat \ {0} /\ DOMAIN s = 1..Len(s)
  BY EmptySeq, LenProperties
<1>2. \A i \in 1..Len(s) : s[i] \in S
  BY ElementOfSeq
<1>3. Last(s) = s[Len(s)] /\ Last(s) \in S
  BY <1>1, <1>2 DEF Last
<1>4. /\ SubSeq(s, 1, Len(s) - 1) \in Seq(S)
      /\ Len(SubSeq(s, 1, Len(s) - 1)) = Len(s) - 1
      /\ \A i \in 1..(Len(s) - 1) : SubSeq(s, 1, Len(s) - 1)[i] = s[i]
  <2>1. /\ 1 \in Int /\ Len(s) - 1 \in Int
        /\ \A i \in 1..(Len(s) - 1) : s[i] \in S
    BY <1>1, <1>2
  <2>2. /\ SubSeq(s, 1, Len(s) - 1) \in Seq(S)
        /\ Len(SubSeq(s, 1, Len(s) - 1))
             = IF 1 <= Len(s) - 1 THEN Len(s) - 1 - 1 + 1 ELSE 0
        /\ \A i \in 1..(Len(s) - 1 - 1 + 1) : SubSeq(s, 1, Len(s) - 1)[i] = s[1 + i - 1]
    BY <2>1, SubSeqProperties
  <2> QED
    BY <1>1, <2>2
<1>5. Front(s) \in Seq(S) /\ DOMAIN Front(s) = 1..(Len(s) - 1)
  BY <1>1, <1>4, LenProperties DEF Front
<1> QED
  BY <1>1, <1>3, <1>4, <1>5 DEF Front

(* The list with one more step. *)
LEMMA AppendStep ==
    ASSUME NEW S, NEW s \in Seq(S), NEW e \in S
    PROVE  /\ Len(s) \in Nat /\ DOMAIN s = 1..Len(s)
           /\ Append(s, e) \in Seq(S) /\ DOMAIN Append(s, e) = 1..(Len(s) + 1)
           /\ \A i \in 1..Len(s) : Append(s, e)[i] = s[i]
           /\ Append(s, e)[Len(s) + 1] = e
BY LenProperties, AppendProperties

(* The state of a fresh install is of the types. *)
LEMMA TypeInit == Init => TypeOK
<1> SUFFICES ASSUME Init
             PROVE  TypeOK
  OBVIOUS
<1>1. MaxVersion \in Nat \ {0}
  BY UpdaterAssumption
<1>2. NoFiles \in [Files -> Contents] /\ target \in [Files -> Contents]
  BY <1>1 DEF Init, NoFiles, Contents, Corrupt, Versions
<1>3. steps \in Seq(StepRecord)
  BY EmptySeq DEF Init
<1>4. cur \in [file : Files, moved : BOOLEAN]
  BY DEF Init, NoFile, Files
<1>5. /\ aside = NoFiles /\ staged = NoFiles /\ before = NoFiles
      /\ archive = 0 /\ leftovers = {} /\ build = 0 /\ latest = 0 /\ todo = {}
      /\ staging = FALSE /\ installable = FALSE /\ installing = FALSE /\ faulted = FALSE
      /\ stage = "Idle" /\ worker = "none" /\ pc = "down"
  BY DEF Init
<1>6. 0 \in Contents /\ 0 \in 0..MaxVersion
  BY <1>1 DEF Contents, Corrupt
<1> QED
  BY <1>2, <1>3, <1>4, <1>5, <1>6 DEF TypeOK, StepRecord, Stages, MainSteps

(* The steps of the worker keep the types. *)
LEMMA TypeWorker == TypeOK /\ Worker => TypeOK'
<1> SUFFICES ASSUME TypeOK, Worker
             PROVE  TypeOK'
  OBVIOUS
<1>0. /\ MaxVersion \in Nat \ {0} /\ NoFiles \in [Files -> Contents]
      /\ 0 \in Contents /\ Corrupt \in Contents
      /\ \A n \in 0..MaxVersion : n \in Contents
  BY UpdaterAssumption DEF NoFiles, Contents, Corrupt
<1> USE <1>0 DEF diskVars, snapVars, localVars, histVars
<1>1. ASSUME NEW s \in Working \ {"extract"}, WorkerFails(s)
      PROVE  TypeOK'
  BY <1>1 DEF WorkerFails, Fail, TypeOK, Stages
<1>2. ASSUME NEW release \in Versions, NEW ok \in BOOLEAN, RunCheck(release, ok)
      PROVE  TypeOK'
  <2>1. CanInstallInto(ok) \in BOOLEAN
    BY <1>2 DEF CanInstallInto
  <2>2. installable' \in BOOLEAN
    BY <1>2, <2>1 DEF RunCheck, TypeOK
  <2>3. latest' \in 0..MaxVersion /\ stage' \in Stages /\ worker' = "ended"
    BY <1>2 DEF RunCheck, TypeOK, Stages, Busy, Versions
  <2> QED
    BY <1>2, <2>2, <2>3 DEF RunCheck, TypeOK
<1>3. ASSUME NEW ok \in BOOLEAN, ClearWorkFolder(ok)
      PROVE  TypeOK'
  BY <1>3 DEF ClearWorkFolder, TypeOK, Working
<1>4. ASSUME NEW content \in {latest, Corrupt}, FetchArchive(content)
      PROVE  TypeOK'
  BY <1>4 DEF FetchArchive, TypeOK, Working, Stages, Busy
<1>5. CASE VerifyArchive
  BY <1>5 DEF VerifyArchive, TypeOK, Working
<1>6. CASE ExtractArchive
  BY <1>6 DEF ExtractArchive, TypeOK, Working, Stages, Busy
<1>7. ASSUME NEW written \in SUBSET Files, ExtractFails(written)
      PROVE  TypeOK'
  <2>1. staged' \in [Files -> Contents] /\ staging' \in BOOLEAN
    <3>1. archive \in Contents
      BY DEF TypeOK
    <3> QED
      BY <1>7, <3>1 DEF ExtractFails, TypeOK
  <2> QED
    BY <1>7, <2>1 DEF ExtractFails, Fail, TypeOK, Working, Stages
<1> QED
  BY <1>1, <1>2, <1>3, <1>4, <1>5, <1>6, <1>7 DEF Worker

(* A new process has a state of its own. *)
LEMMA TypeNewProcess == TypeOK /\ NewProcess => TypeOK'
<1> SUFFICES ASSUME TypeOK, NewProcess
             PROVE  TypeOK'
  OBVIOUS
<1>1. NoFiles \in [Files -> Contents] /\ 0 \in 0..MaxVersion /\ "repiu" \in Files
  BY UpdaterAssumption DEF NoFiles, Contents, Corrupt, Files
<1>2. target["repiu"] \in Contents
  BY <1>1 DEF TypeOK
<1> QED
  BY <1>1, <1>2 DEF TypeOK, NewProcess, diskVars, Stages, MainSteps

(* The main thread outside an install keeps the types. *)
LEMMA TypeSession == TypeOK /\ (Session \/ User \/ Crash) => TypeOK'
<1> SUFFICES ASSUME TypeOK, Session \/ User \/ Crash
             PROVE  TypeOK'
  OBVIOUS
<1>0. 0 \in Contents /\ 0 \in 0..MaxVersion
  BY UpdaterAssumption DEF Contents, Corrupt
<1> USE <1>0 DEF diskVars, snapVars, localVars, histVars
<1>1. ASSUME NEW f \in Files, NEW ok \in BOOLEAN, RemoveLeftover(f, ok)
      PROVE  TypeOK'
  BY <1>1 DEF RemoveLeftover, TypeOK
<1>2. CASE LeftoversVisited
  BY <1>2 DEF LeftoversVisited, TypeOK, MainSteps
<1>3. CASE ListRemaining
  BY <1>3 DEF ListRemaining, WriteLeftovers, TypeOK, MainSteps
<1>4. ASSUME NEW on \in BOOLEAN, CreateUpdater(on)
      PROVE  TypeOK'
  BY <1>4 DEF CreateUpdater, TypeOK, MainSteps
<1>5. CASE StartCheck
  BY <1>5 DEF StartCheck, TypeOK, MainSteps, Stages, Busy, Working
<1>6. CASE JoinBeforeDownload
  BY <1>6 DEF JoinBeforeDownload, JoinWorker, TypeOK, MainSteps
<1>7. CASE SpawnDownload
  BY <1>7 DEF SpawnDownload, TypeOK, MainSteps, Working
<1>8. CASE NoticeStaged
  BY <1>8 DEF NoticeStaged, TypeOK, MainSteps
<1>9. CASE DestroyUpdater
  BY <1>9 DEF DestroyUpdater, JoinWorker, TypeOK, MainSteps
<1>10. CASE Start
  BY <1>10, TypeNewProcess DEF Start
<1>11. CASE StartDownload
  BY <1>11 DEF StartDownload, TypeOK, MainSteps, Stages, Busy
<1>12. CASE LaunchGame \/ GameEnds \/ CloseLauncher
  BY <1>12 DEF LaunchGame, GameEnds, CloseLauncher, TypeOK, MainSteps
<1>13. CASE Crash
  <2>1. <<>> \in Seq(StepRecord)
    BY EmptySeq
  <2>2. steps' \in Seq(StepRecord) /\ cur' \in [file : Files, moved : BOOLEAN]
    BY <1>13, <2>1 DEF Crash, Returns, NoFile, Files
  <2> QED
    BY <1>13, <2>2 DEF Crash, Returns, TypeOK, StepRecord, MainSteps, Stages
<1> QED
  BY <1>1, <1>2, <1>3, <1>4, <1>5, <1>6, <1>7, <1>8, <1>9, <1>10, <1>11, <1>12, <1>13
     DEF Session, User

(* The install keeps the types. *)
LEMMA TypeInstaller == TypeOK /\ OldKept /\ Installer => TypeOK'
<1> SUFFICES ASSUME TypeOK, OldKept, Installer
             PROVE  TypeOK'
  OBVIOUS
<1>0. /\ 0 \in Contents /\ NoFiles \in [Files -> Contents]
      /\ NoFile \in [file : Files, moved : BOOLEAN] /\ <<>> \in Seq(StepRecord)
  BY UpdaterAssumption, EmptySeq DEF NoFiles, NoFile, Files, Contents, Corrupt
<1>00. /\ steps \in Seq(StepRecord) /\ cur.file \in Files /\ cur.moved \in BOOLEAN
       /\ \A f \in Files : target[f] \in Contents /\ staged[f] \in Contents
                           /\ aside[f] \in Contents
  BY DEF TypeOK, StepRecord
<1> USE <1>0 DEF diskVars, snapVars, localVars, histVars
<1>1. CASE BeginInstall
  BY <1>1 DEF BeginInstall, JoinWorker, TypeOK, StepRecord, MainSteps, Replacing
<1>2. ASSUME NEW f \in Files, NEW ok \in BOOLEAN, ClearAside(f, ok)
      PROVE  TypeOK'
  BY <1>2 DEF ClearAside, TypeOK, MainSteps, Replacing
<1>3. CASE MoveAside
  BY <1>00, <1>3 DEF MoveAside, TypeOK, MainSteps, Replacing
<1>4. CASE NothingToMove \/ MoveAsideFails
  BY <1>4 DEF NothingToMove, MoveAsideFails, TypeOK, MainSteps, Replacing
<1>5. ASSUME NEW placed \in BOOLEAN
      PROVE  Append(steps, Step(placed)) \in Seq(StepRecord)
  <2>1. Step(placed) \in StepRecord
    BY <1>00 DEF Step, StepRecord
  <2> QED
    BY <1>00, <2>1, AppendStep
<1>6. CASE PlaceFile
  <2>1. steps' \in Seq(StepRecord)
    BY <1>5, <1>6 DEF PlaceFile
  <2>2. target' \in [Files -> Contents] /\ staged' \in [Files -> Contents]
    BY <1>00, <1>6 DEF PlaceFile, TypeOK
  <2> QED
    BY <1>6, <2>1, <2>2 DEF PlaceFile, TypeOK, StepRecord, MainSteps, Replacing
<1>7. CASE PlaceFails
  <2>1. steps' \in Seq(StepRecord)
    BY <1>5, <1>7 DEF PlaceFails
  <2> QED
    BY <1>7, <2>1 DEF PlaceFails, TypeOK, StepRecord, MainSteps, Replacing
<1>8. ASSUME NEW ok \in BOOLEAN, BackOutNew(ok)
      PROVE  TypeOK'
  <2>1. Last(steps) \in StepRecord
    BY <1>00, <1>8, FrontLast DEF BackOutNew
  <2>2. Last(steps).file \in Files /\ Last(steps).placed \in BOOLEAN
    BY <2>1 DEF StepRecord
  <2>3. /\ target' \in [Files -> Contents] /\ staged' \in [Files -> Contents]
        /\ faulted' \in BOOLEAN
    BY <1>00, <1>8, <2>2, SMTT(30) DEF BackOutNew, TypeOK
  <2>4. /\ pc' = "backOutOld"
        /\ UNCHANGED <<aside, staging, archive, leftovers, build, snapVars, worker,
                       localVars, installing, before>>
    BY <1>8 DEF BackOutNew
  <2> QED
    BY <2>3, <2>4 DEF TypeOK, MainSteps, Replacing
<1>9. ASSUME NEW ok \in BOOLEAN, BackOutOld(ok)
      PROVE  TypeOK'
  <2>0. steps # <<>>
    BY <1>9 DEF OldKept, BackOutOld, Replacing
  <2>1. Last(steps) \in StepRecord /\ Front(steps) \in Seq(StepRecord)
    BY <1>00, <2>0, FrontLast
  <2>2. Last(steps).file \in Files /\ Last(steps).moved \in BOOLEAN
    BY <2>1 DEF StepRecord
  <2>3. /\ target' \in [Files -> Contents] /\ aside' \in [Files -> Contents]
        /\ faulted' \in BOOLEAN
    BY <1>00, <1>9, <2>2 DEF BackOutOld, TypeOK
  <2>4. /\ pc' = "backOutNew" /\ steps' = Front(steps)
        /\ UNCHANGED <<staged, staging, archive, leftovers, build, snapVars, worker,
                       todo, cur, installing, before>>
    BY <1>9 DEF BackOutOld
  <2> QED
    BY <2>1, <2>3, <2>4 DEF TypeOK, StepRecord, MainSteps, Replacing
<1>10. CASE InstallFails
  BY <1>10 DEF InstallFails, InstallReturns, Returns, Fail, TypeOK, StepRecord, MainSteps,
               Stages
<1>11. CASE ListAsides
  <2>1. MovedFiles \subseteq Files
    <3>1. \A i \in DOMAIN steps : steps[i] \in StepRecord
      BY <1>00, LenProperties, ElementOfSeq
    <3> QED
      BY <3>1 DEF MovedFiles, StepRecord
  <2>2. leftovers' \subseteq Files /\ staging' \in BOOLEAN
    BY <1>11, <2>1 DEF ListAsides, WriteLeftovers, TypeOK
  <2> QED
    BY <1>11, <2>2 DEF ListAsides, InstallReturns, Returns, TypeOK, StepRecord, MainSteps
<1>12. ASSUME NEW ok \in BOOLEAN, RemoveWorkFolder(ok)
       PROVE  TypeOK'
  BY <1>12 DEF RemoveWorkFolder, TypeOK, MainSteps
<1>13. CASE Restart
  BY <1>13, TypeNewProcess DEF Restart
<1>14. CASE RestartFails
  BY <1>14 DEF RestartFails, TypeOK, MainSteps
<1> QED
  BY <1>1, <1>2, <1>3, <1>4, <1>6, <1>7, <1>8, <1>9, <1>10, <1>11, <1>12, <1>13, <1>14
     DEF Installer

-----------------------------------------------------------------------------
(* The threads and the release. *)

(* The steps of the worker, of the session, of the user and of the install *)
(* keep the order of the threads.                                          *)
LEMMA ThreadsNext == TypeOK /\ ThreadsInv /\ [Next]_vars => ThreadsInv'
<1> SUFFICES ASSUME TypeOK, ThreadsInv, [Next]_vars
             PROVE  ThreadsInv'
  OBVIOUS
<1> USE DEF diskVars, snapVars, localVars, histVars, ThreadsInv, Alone, Replacing, Working
<1>1. CASE Worker
  <2>1. ASSUME NEW s \in Working \ {"extract"}, WorkerFails(s)
        PROVE  ThreadsInv'
    BY <2>1 DEF WorkerFails, Fail
  <2>2. ASSUME NEW release \in Versions, NEW ok \in BOOLEAN, RunCheck(release, ok)
        PROVE  ThreadsInv'
    BY <2>2 DEF RunCheck
  <2>3. ASSUME NEW ok \in BOOLEAN, ClearWorkFolder(ok)
        PROVE  ThreadsInv'
    BY <2>3 DEF ClearWorkFolder
  <2>4. ASSUME NEW content \in {latest, Corrupt}, FetchArchive(content)
        PROVE  ThreadsInv'
    BY <2>4 DEF FetchArchive
  <2>5. CASE VerifyArchive
    BY <2>5 DEF VerifyArchive
  <2>6. CASE ExtractArchive
    BY <2>6 DEF ExtractArchive
  <2>7. ASSUME NEW written \in SUBSET Files, ExtractFails(written)
        PROVE  ThreadsInv'
    BY <2>7 DEF ExtractFails, Fail
  <2> QED
    BY <1>1, <2>1, <2>2, <2>3, <2>4, <2>5, <2>6, <2>7 DEF Worker
<1>2. CASE Session
  <2>1. ASSUME NEW f \in Files, NEW ok \in BOOLEAN, RemoveLeftover(f, ok)
        PROVE  ThreadsInv'
    BY <2>1 DEF RemoveLeftover
  <2>2. CASE LeftoversVisited \/ ListRemaining
    BY <2>2 DEF LeftoversVisited, ListRemaining
  <2>3. ASSUME NEW on \in BOOLEAN, CreateUpdater(on)
        PROVE  ThreadsInv'
    BY <2>3 DEF CreateUpdater
  <2>4. CASE StartCheck \/ JoinBeforeDownload \/ SpawnDownload
    BY <2>4 DEF StartCheck, JoinBeforeDownload, SpawnDownload, JoinWorker
  <2>5. CASE NoticeStaged \/ DestroyUpdater
    BY <2>5 DEF NoticeStaged, DestroyUpdater, JoinWorker
  <2> QED
    BY <1>2, <2>1, <2>2, <2>3, <2>4, <2>5 DEF Session
<1>3. CASE User
  BY <1>3 DEF User, Start, NewProcess, StartDownload, LaunchGame, GameEnds, CloseLauncher
<1>4. CASE Installer
  <2>1. CASE BeginInstall
    BY <2>1 DEF BeginInstall, JoinWorker
  <2>2. ASSUME NEW f \in Files, NEW ok \in BOOLEAN, ClearAside(f, ok)
        PROVE  ThreadsInv'
    BY <2>2 DEF ClearAside
  <2>3. CASE MoveAside \/ NothingToMove \/ MoveAsideFails
    BY <2>3 DEF MoveAside, NothingToMove, MoveAsideFails
  <2>4. CASE PlaceFile \/ PlaceFails
    BY <2>4 DEF PlaceFile, PlaceFails
  <2>5. ASSUME NEW ok \in BOOLEAN, BackOutNew(ok) \/ BackOutOld(ok)
        PROVE  ThreadsInv'
    BY <2>5 DEF BackOutNew, BackOutOld
  <2>6. CASE InstallFails \/ ListAsides
    BY <2>6 DEF InstallFails, ListAsides, InstallReturns, Returns, Fail
  <2>7. ASSUME NEW ok \in BOOLEAN, RemoveWorkFolder(ok)
        PROVE  ThreadsInv'
    BY <2>7 DEF RemoveWorkFolder
  <2>8. CASE Restart \/ RestartFails
    BY <2>8 DEF Restart, RestartFails, NewProcess
  <2> QED
    BY <1>4, <2>1, <2>2, <2>3, <2>4, <2>5, <2>6, <2>7, <2>8 DEF Installer
<1>5. CASE Crash
  BY <1>5 DEF Crash, TypeOK
<1>6. CASE UNCHANGED vars
  BY <1>6 DEF vars
<1> QED
  BY <1>1, <1>2, <1>3, <1>4, <1>5, <1>6 DEF Next

(* They keep what is known of the release. *)
LEMMA ReleaseNext ==
    TypeOK /\ ThreadsInv /\ ReleaseInv /\ [Next]_vars => ReleaseInv'
<1> SUFFICES ASSUME TypeOK, ThreadsInv, ReleaseInv, [Next]_vars
             PROVE  ReleaseInv'
  OBVIOUS
<1>0. /\ latest \in Int /\ build \in Int /\ pc \in MainSteps
      /\ worker \in Working => pc \notin Alone /\ stage \in {"Checking", "Downloading", "Verifying"}
  BY UpdaterAssumption DEF TypeOK, Contents, Corrupt, ThreadsInv, Working
<1> USE DEF diskVars, snapVars, localVars, histVars, ReleaseInv, Alone, Replacing, Working
<1>1. CASE Worker
  <2>1. ASSUME NEW s \in Working \ {"extract"}, WorkerFails(s)
        PROVE  ReleaseInv'
    BY <2>1 DEF WorkerFails, Fail
  <2>2. ASSUME NEW release \in Versions, NEW ok \in BOOLEAN, RunCheck(release, ok)
        PROVE  ReleaseInv'
    BY <1>0, <2>2, UpdaterAssumption DEF RunCheck, Versions
  <2>3. ASSUME NEW ok \in BOOLEAN, ClearWorkFolder(ok)
        PROVE  ReleaseInv'
    BY <1>0, <2>3 DEF ClearWorkFolder
  <2>4. ASSUME NEW content \in {latest, Corrupt}, FetchArchive(content)
        PROVE  ReleaseInv'
    BY <1>0, <2>4 DEF FetchArchive, ThreadsInv
  <2>5. CASE VerifyArchive
    BY <1>0, <2>5 DEF VerifyArchive
  <2>6. CASE ExtractArchive
    BY <1>0, <2>6 DEF ExtractArchive, ThreadsInv
  <2>7. ASSUME NEW written \in SUBSET Files, ExtractFails(written)
        PROVE  ReleaseInv'
    BY <2>7 DEF ExtractFails, Fail
  <2> QED
    BY <1>1, <2>1, <2>2, <2>3, <2>4, <2>5, <2>6, <2>7 DEF Worker
<1>2. CASE Session
  <2>1. ASSUME NEW f \in Files, NEW ok \in BOOLEAN, RemoveLeftover(f, ok)
        PROVE  ReleaseInv'
    BY <2>1 DEF RemoveLeftover
  <2>2. CASE LeftoversVisited \/ ListRemaining
    BY <2>2 DEF LeftoversVisited, ListRemaining
  <2>3. ASSUME NEW on \in BOOLEAN, CreateUpdater(on)
        PROVE  ReleaseInv'
    BY <2>3 DEF CreateUpdater, ThreadsInv
  <2>4. CASE StartCheck \/ JoinBeforeDownload \/ SpawnDownload
    BY <2>4 DEF StartCheck, JoinBeforeDownload, SpawnDownload, JoinWorker, ThreadsInv
  <2>5. CASE NoticeStaged \/ DestroyUpdater
    BY <1>0, <2>5 DEF NoticeStaged, DestroyUpdater, JoinWorker, TypeOK
  <2> QED
    BY <1>2, <2>1, <2>2, <2>3, <2>4, <2>5 DEF Session
<1>3. CASE User
  <2>1. CASE Start
    BY <2>1 DEF Start, NewProcess
  <2>2. CASE StartDownload
    BY <1>0, <2>2 DEF StartDownload
  <2>3. CASE LaunchGame \/ GameEnds \/ CloseLauncher
    BY <2>3 DEF LaunchGame, GameEnds, CloseLauncher
  <2> QED
    BY <1>3, <2>1, <2>2, <2>3 DEF User
<1>4. CASE Installer
  <2>1. CASE BeginInstall
    BY <2>1 DEF BeginInstall, JoinWorker
  <2>2. ASSUME NEW f \in Files, NEW ok \in BOOLEAN, ClearAside(f, ok)
        PROVE  ReleaseInv'
    BY <2>2 DEF ClearAside
  <2>3. CASE MoveAside \/ NothingToMove \/ MoveAsideFails
    BY <2>3 DEF MoveAside, NothingToMove, MoveAsideFails
  <2>4. CASE PlaceFile \/ PlaceFails
    BY <2>4 DEF PlaceFile, PlaceFails
  <2>5. ASSUME NEW ok \in BOOLEAN, BackOutNew(ok) \/ BackOutOld(ok)
        PROVE  ReleaseInv'
    BY <2>5 DEF BackOutNew, BackOutOld
  <2>6. CASE InstallFails \/ ListAsides
    BY <2>6 DEF InstallFails, ListAsides, InstallReturns, Returns, Fail
  <2>7. ASSUME NEW ok \in BOOLEAN, RemoveWorkFolder(ok)
        PROVE  ReleaseInv'
    BY <1>0, <2>7 DEF RemoveWorkFolder
  <2>8. CASE Restart
    BY <2>8 DEF Restart, NewProcess
  <2>9. CASE RestartFails
    BY <1>0, <2>9 DEF RestartFails, TypeOK
  <2> QED
    BY <1>4, <2>1, <2>2, <2>3, <2>4, <2>5, <2>6, <2>7, <2>8, <2>9 DEF Installer
<1>5. CASE Crash
  BY <1>5 DEF Crash
<1>6. CASE UNCHANGED vars
  BY <1>6 DEF vars
<1> QED
  BY <1>1, <1>2, <1>3, <1>4, <1>5, <1>6 DEF Next

-----------------------------------------------------------------------------
(* The files. *)

FilesInv == OldKept /\ NewPlaced /\ BackedOut /\ OldFilesKept

(* Nothing is claimed outside an install. *)
LEMMA FilesOutside ==
    ASSUME ~installing', pc' \notin Replacing
    PROVE  FilesInv'
BY DEF FilesInv, OldKept, NewPlaced, BackedOut, OldFilesKept, Forward, Replacing

(* Facts about the list of steps. *)
LEMMA StepsTyped ==
    ASSUME TypeOK
    PROVE  /\ steps \in Seq(StepRecord) /\ Len(steps) \in Nat
           /\ DOMAIN steps = 1..Len(steps)
           /\ \A i \in DOMAIN steps : /\ steps[i] \in StepRecord /\ steps[i].file \in Files
                                      /\ steps[i].moved \in BOOLEAN /\ steps[i].placed \in BOOLEAN
           /\ StepFiles \subseteq Files
<1>1. steps \in Seq(StepRecord)
  BY DEF TypeOK, StepRecord
<1>2. Len(steps) \in Nat /\ DOMAIN steps = 1..Len(steps)
  BY <1>1, LenProperties
<1>3. \A i \in DOMAIN steps : steps[i] \in StepRecord
  BY <1>1, <1>2, ElementOfSeq
<1> QED
  BY <1>1, <1>2, <1>3 DEF StepRecord, StepFiles

(* The list grows by the file in hand. *)
LEMMA StepAdded ==
    ASSUME TypeOK, NEW placed \in BOOLEAN, steps' = Append(steps, Step(placed))
    PROVE  /\ DOMAIN steps' = 1..(Len(steps) + 1)
           /\ \A i \in DOMAIN steps : steps'[i] = steps[i]
           /\ steps'[Len(steps) + 1].file = cur.file
           /\ steps'[Len(steps) + 1].moved = cur.moved
           /\ steps'[Len(steps) + 1].placed = placed
           /\ StepFiles' = StepFiles \cup {cur.file}
<1>1. Step(placed) \in StepRecord
  BY DEF TypeOK, Step, StepRecord
<1>2. /\ DOMAIN steps' = 1..(Len(steps) + 1)
      /\ \A i \in 1..Len(steps) : steps'[i] = steps[i]
      /\ steps'[Len(steps) + 1] = Step(placed)
  BY <1>1, StepsTyped, AppendStep
<1>3. StepFiles' = StepFiles \cup {cur.file}
  <2>1. Len(steps) \in Nat /\ DOMAIN steps = 1..Len(steps)
    BY StepsTyped
  <2>2. \A i \in 1..(Len(steps) + 1) : i \in 1..Len(steps) \/ i = Len(steps) + 1
    BY <2>1
  <2>3. ASSUME NEW f \in StepFiles'
        PROVE  f \in StepFiles \cup {cur.file}
    <3>1. PICK i \in DOMAIN steps' : f = steps'[i].file
      BY DEF StepFiles
    <3> QED
      BY <1>2, <2>1, <2>2, <3>1 DEF StepFiles, Step
  <2>4. ASSUME NEW f \in StepFiles
        PROVE  f \in StepFiles'
    <3>1. PICK i \in DOMAIN steps : f = steps[i].file
      BY DEF StepFiles
    <3>2. i \in DOMAIN steps' /\ f = steps'[i].file
      BY <1>2, <2>1, <3>1
    <3> QED
      BY <3>2 DEF StepFiles
  <2>5. cur.file \in StepFiles'
    <3>1. Len(steps) + 1 \in DOMAIN steps' /\ cur.file = steps'[Len(steps) + 1].file
      BY <1>2, <2>1 DEF Step
    <3> QED
      BY <3>1 DEF StepFiles
  <2> QED
    BY <2>3, <2>4, <2>5
<1> QED
  BY <1>2, <1>3, StepsTyped DEF Step

(* The last step is taken off the list. *)
LEMMA StepRemoved ==
    ASSUME TypeOK, OldKept, pc \in Replacing, steps # <<>>, steps' = Front(steps)
    PROVE  /\ DOMAIN steps' = 1..(Len(steps) - 1)
           /\ \A i \in DOMAIN steps' : i \in DOMAIN steps /\ steps'[i] = steps[i]
                                        /\ steps[i].file # Last(steps).file
           /\ StepFiles' = StepFiles \ {Last(steps).file}
<1>1. /\ Len(steps) \in Nat \ {0} /\ DOMAIN steps = 1..Len(steps)
      /\ Last(steps) = steps[Len(steps)]
      /\ DOMAIN steps' = 1..(Len(steps) - 1)
      /\ \A i \in 1..(Len(steps) - 1) : steps'[i] = steps[i]
  BY StepsTyped, FrontLast
<1>2. \A i, j \in DOMAIN steps : steps[i].file = steps[j].file => i = j
  BY DEF OldKept
<1>3. \A i \in DOMAIN steps' : /\ i \in DOMAIN steps /\ steps'[i] = steps[i]
                               /\ steps[i].file # Last(steps).file
  BY <1>1, <1>2
<1>4. \A i \in DOMAIN steps : i \in DOMAIN steps' \/ i = Len(steps)
  BY <1>1
<1>5. StepFiles' = StepFiles \ {Last(steps).file}
  <2>1. ASSUME NEW f \in StepFiles'
        PROVE  f \in StepFiles \ {Last(steps).file}
    <3>1. PICK i \in DOMAIN steps' : f = steps'[i].file
      BY DEF StepFiles
    <3> QED
      BY <1>3, <3>1 DEF StepFiles
  <2>2. ASSUME NEW f \in StepFiles, f # Last(steps).file
        PROVE  f \in StepFiles'
    <3>1. PICK i \in DOMAIN steps : f = steps[i].file
      BY DEF StepFiles
    <3>2. i \in DOMAIN steps' /\ f = steps'[i].file
      BY <1>1, <1>3, <1>4, <2>2, <3>1
    <3> QED
      BY <3>2 DEF StepFiles
  <2> QED
    BY <2>1, <2>2
<1> QED
  BY <1>1, <1>3, <1>5

(* The install begins with every file in its place and every new one       *)
(* staged.                                                                 *)
LEMMA FilesBegin == TypeOK /\ ReleaseInv /\ BeginInstall => FilesInv'
<1> SUFFICES ASSUME TypeOK, ReleaseInv, BeginInstall
             PROVE  FilesInv'
  OBVIOUS
<1>1. /\ pc' = "clear" /\ todo' = Files /\ steps' = <<>> /\ before' = target
      /\ target' = target /\ staged' = staged /\ stage' = "Staged" /\ latest' = latest
      /\ staged = [f \in Files |-> latest]
  BY DEF BeginInstall, ReleaseInv, diskVars, snapVars
<1>2. DOMAIN steps' = {} /\ StepFiles' = {}
  BY <1>1 DEF StepFiles
<1>3. OldKept'
  BY <1>1, <1>2 DEF OldKept
<1>4. NewPlaced'
  BY <1>1, <1>2 DEF NewPlaced
<1>5. BackedOut' /\ OldFilesKept'
  BY <1>1 DEF BackedOut, OldFilesKept
<1> QED
  BY <1>3, <1>4, <1>5 DEF FilesInv

(* A leftover in the way is removed only from a file not yet touched. *)
LEMMA FilesClear ==
    ASSUME TypeOK, FilesInv, NEW f \in Files, NEW ok \in BOOLEAN, ClearAside(f, ok)
    PROVE  FilesInv'
<1>1. /\ pc = "clear" /\ pc' = "move" /\ f \in todo /\ todo' = todo \ {f}
      /\ cur'.file = f /\ cur'.moved = FALSE
      /\ UNCHANGED <<target, staged, steps, before, stage, latest>>
      /\ \A g \in Files : g # f => aside'[g] = aside[g]
  BY DEF ClearAside, histVars, snapVars, TypeOK
<1>2. StepFiles' = StepFiles /\ f \notin StepFiles
  BY <1>1 DEF StepFiles, FilesInv, OldKept, Replacing
<1>3. OldKept'
  BY <1>1, <1>2, StepsTyped DEF FilesInv, OldKept, Replacing
<1>4. NewPlaced'
  BY <1>1, <1>2 DEF FilesInv, NewPlaced, Forward
<1>5. BackedOut'
  BY <1>1 DEF BackedOut
<1>6. OldFilesKept'
  <2> SUFFICES ASSUME NEW g \in Files, installing'
               PROVE  before'[g] \in {0, target'[g], aside'[g]}
    BY DEF OldFilesKept
  <2>1. installing
    BY DEF ClearAside, histVars
  <2> QED
    BY <1>1, <2>1 DEF FilesInv, OldFilesKept, OldKept, Replacing
<1> QED
  BY <1>3, <1>4, <1>5, <1>6 DEF FilesInv

(* The old file goes aside, or there is none. *)
LEMMA FilesMove ==
    ASSUME TypeOK, ThreadsInv, FilesInv, MoveAside \/ NothingToMove \/ MoveAsideFails
    PROVE  FilesInv'
<1>1. /\ pc = "move" /\ cur.file \in Files /\ installing
      /\ UNCHANGED <<staged, steps, before, stage, latest, todo, faulted>>
      /\ cur'.file = cur.file /\ StepFiles' = StepFiles
  BY DEF MoveAside, NothingToMove, MoveAsideFails, diskVars, histVars, snapVars,
         localVars, TypeOK, StepFiles, ThreadsInv, Replacing
<1>2. /\ target[cur.file] = before[cur.file] /\ cur.file \notin todo \cup StepFiles
      /\ ~cur.moved
  BY <1>1 DEF FilesInv, OldKept, Replacing
<1>3. \A i \in DOMAIN steps : steps[i].file \in StepFiles
  BY DEF StepFiles
<1>4. CASE MoveAside
  <2>1. /\ pc' = "place" /\ cur'.moved = TRUE
        /\ target'[cur.file] = 0 /\ aside'[cur.file] = target[cur.file]
        /\ \A g \in Files : g # cur.file => target'[g] = target[g] /\ aside'[g] = aside[g]
    BY <1>1, <1>4 DEF MoveAside, TypeOK
  <2>2. OldKept'
    BY <1>1, <1>2, <1>3, <2>1, StepsTyped DEF FilesInv, OldKept, Replacing, TypeOK
  <2>3. NewPlaced'
    BY <1>1, <1>2, <1>3, <2>1, StepsTyped DEF FilesInv, NewPlaced, Forward
  <2>4. BackedOut'
    BY <2>1 DEF BackedOut
  <2>5. OldFilesKept'
    BY <1>1, <1>2, <2>1 DEF FilesInv, OldFilesKept
  <2> QED
    BY <2>2, <2>3, <2>4, <2>5 DEF FilesInv
<1>5. CASE NothingToMove
  <2>1. pc' = "place" /\ target[cur.file] = 0 /\ UNCHANGED <<target, aside, cur, installing>>
    BY <1>5 DEF NothingToMove, diskVars, localVars, histVars
  <2>2. OldKept'
    BY <1>1, <1>2, <2>1 DEF FilesInv, OldKept, Replacing
  <2>3. NewPlaced'
    BY <1>1, <2>1 DEF FilesInv, NewPlaced, Forward
  <2>4. BackedOut' /\ OldFilesKept'
    BY <1>1, <2>1 DEF BackedOut, FilesInv, OldFilesKept
  <2> QED
    BY <2>2, <2>3, <2>4 DEF FilesInv
<1>6. CASE MoveAsideFails
  <2>1. pc' = "backOutNew" /\ UNCHANGED <<target, aside, cur, installing>>
    BY <1>6 DEF MoveAsideFails, diskVars, localVars, histVars
  <2>2. OldKept'
    BY <1>1, <2>1 DEF FilesInv, OldKept, Replacing
  <2>3. NewPlaced' /\ OldFilesKept'
    BY <1>1, <2>1 DEF FilesInv, NewPlaced, OldFilesKept, Forward
  <2>4. BackedOut'
    <3>1. \A f \in Files \ StepFiles : f \in todo \/ f = cur.file
      BY <1>1 DEF FilesInv, NewPlaced, Forward
    <3>2. \A f \in todo : target[f] = before[f]
      BY <1>1 DEF FilesInv, OldKept, Replacing
    <3>3. \A i \in DOMAIN steps : steps[i].placed
      BY <1>1 DEF FilesInv, NewPlaced, Forward
    <3> QED
      BY <1>1, <1>2, <2>1, <3>1, <3>2, <3>3 DEF BackedOut
  <2> QED
    BY <2>2, <2>3, <2>4 DEF FilesInv
<1> QED
  BY <1>4, <1>5, <1>6

(* The new file takes the name, or cannot. *)
LEMMA FilesPlace ==
    ASSUME TypeOK, ThreadsInv, FilesInv, PlaceFile \/ PlaceFails
    PROVE  FilesInv'
<1>1. /\ pc = "place" /\ cur.file \in Files /\ cur.moved \in BOOLEAN /\ installing
      /\ UNCHANGED <<aside, before, stage, latest, todo, faulted, cur, installing>>
  BY DEF PlaceFile, PlaceFails, diskVars, histVars, snapVars, TypeOK, ThreadsInv, Replacing
<1>2. /\ target[cur.file] = 0 /\ cur.file \notin todo \cup StepFiles
      /\ IF cur.moved THEN aside[cur.file] = before[cur.file] ELSE before[cur.file] = 0
      /\ \A f \in todo : target[f] = before[f]
      /\ \A i \in DOMAIN steps :
            /\ steps[i].file \notin todo
            /\ IF steps[i].moved THEN aside[steps[i].file] = before[steps[i].file]
                                 ELSE before[steps[i].file] = 0
      /\ \A i, j \in DOMAIN steps : steps[i].file = steps[j].file => i = j
  BY <1>1 DEF FilesInv, OldKept, Replacing
<1>3. /\ \A i \in DOMAIN steps : steps[i].file \in StepFiles /\ steps[i].file # cur.file
      /\ Len(steps) \in Nat /\ DOMAIN steps = 1..Len(steps)
  BY <1>2, StepsTyped DEF StepFiles
<1>4. /\ stage = "Staged" /\ \A f \in Files \ StepFiles : staged[f] = latest
      /\ \A i \in DOMAIN steps : steps[i].placed /\ target[steps[i].file] = latest
      /\ Files = StepFiles \cup todo \cup {cur.file}
  BY <1>1 DEF FilesInv, NewPlaced, Forward
<1> DEFINE n == Len(steps) + 1
<1>5. ASSUME NEW placed \in BOOLEAN, steps' = Append(steps, Step(placed)),
             \A f \in Files : f # cur.file => target'[f] = target[f],
             pc' \in {"clear", "commit", "backOutNew"}
      PROVE  /\ OldKept' /\ StepFiles' = StepFiles \cup {cur.file}
             /\ DOMAIN steps' = 1..n /\ n \in DOMAIN steps'
             /\ \A i \in DOMAIN steps' : i # n => i \in DOMAIN steps /\ steps'[i] = steps[i]
             /\ steps'[n].file = cur.file /\ steps'[n].placed = placed
  <2>1. /\ DOMAIN steps' = 1..n
        /\ \A i \in DOMAIN steps : steps'[i] = steps[i]
        /\ steps'[n].file = cur.file /\ steps'[n].moved = cur.moved
        /\ steps'[n].placed = placed /\ StepFiles' = StepFiles \cup {cur.file}
    BY <1>5, StepAdded
  <2>2. n \in DOMAIN steps' /\ \A i \in DOMAIN steps' : i # n => i \in DOMAIN steps
    BY <1>3, <2>1
  <2> HIDE DEF n
  <2>3. \A f \in todo' : target'[f] = before'[f]
    BY <1>1, <1>2, <1>5 DEF TypeOK
  <2>4. ASSUME NEW i \in DOMAIN steps'
        PROVE  /\ steps'[i].file \notin todo'
               /\ IF steps'[i].moved THEN aside'[steps'[i].file] = before'[steps'[i].file]
                                     ELSE before'[steps'[i].file] = 0
    BY <1>1, <1>2, <2>1, <2>2
  <2>5. ASSUME NEW i \in DOMAIN steps', NEW j \in DOMAIN steps', steps'[i].file = steps'[j].file
        PROVE  i = j
    BY <1>2, <1>3, <2>1, <2>2, <2>5
  <2>6. OldKept'
    BY <1>5, <2>3, <2>4, <2>5 DEF OldKept
  <2> QED
    BY <2>1, <2>2, <2>6
<1>6. CASE PlaceFile
  <2>1. /\ steps' = Append(steps, Step(TRUE)) /\ target'[cur.file] = staged[cur.file]
        /\ pc' = IF todo = {} THEN "commit" ELSE "clear"
        /\ \A f \in Files : f # cur.file => target'[f] = target[f] /\ staged'[f] = staged[f]
    BY <1>1, <1>6 DEF PlaceFile, TypeOK
  <2>2. /\ OldKept' /\ StepFiles' = StepFiles \cup {cur.file}
        /\ n \in DOMAIN steps'
        /\ \A i \in DOMAIN steps' : i # n => i \in DOMAIN steps /\ steps'[i] = steps[i]
        /\ steps'[n].file = cur.file /\ steps'[n].placed = TRUE
    BY <1>5, <2>1
  <2> HIDE DEF n
  <2>3. \A i \in DOMAIN steps' : steps'[i].placed /\ target'[steps'[i].file] = latest
    <3> SUFFICES ASSUME NEW i \in DOMAIN steps'
                 PROVE  steps'[i].placed /\ target'[steps'[i].file] = latest
      BY <1>1
    <3>1. CASE i = n
      <4>1. steps'[i].placed /\ steps'[i].file = cur.file
        BY <2>2, <3>1
      <4>2. staged[cur.file] = latest
        BY <1>1, <1>2, <1>4
      <4> QED
        BY <2>1, <4>1, <4>2
    <3>2. CASE i # n
      <4>1. i \in DOMAIN steps /\ steps'[i] = steps[i]
        BY <2>2, <3>2
      <4>2. steps[i].file \in Files /\ steps[i].file # cur.file
        BY <1>3, <4>1, StepsTyped
      <4> QED
        BY <1>4, <2>1, <4>1, <4>2
    <3> QED
      BY <3>1, <3>2
  <2>4. NewPlaced'
    <3>1. \A f \in Files \ StepFiles' : staged'[f] = latest
      BY <1>4, <2>1, <2>2
    <3> QED
      BY <1>1, <1>4, <2>1, <2>2, <2>3, <3>1 DEF NewPlaced
  <2>5. BackedOut'
    BY <2>1 DEF BackedOut
  <2>6. OldFilesKept'
    <3> SUFFICES ASSUME NEW f \in Files
                 PROVE  before[f] \in {0, target'[f], aside[f]}
      BY <1>1 DEF OldFilesKept
    <3> QED
      BY <1>1, <1>2, <2>1 DEF FilesInv, OldFilesKept
  <2> QED
    BY <2>2, <2>4, <2>5, <2>6 DEF FilesInv
<1>7. CASE PlaceFails
  <2>1. /\ steps' = Append(steps, Step(FALSE)) /\ target' = target /\ pc' = "backOutNew"
    BY <1>7 DEF PlaceFails, diskVars
  <2>2. /\ OldKept' /\ StepFiles' = StepFiles \cup {cur.file}
        /\ \A i \in DOMAIN steps' : i # n => i \in DOMAIN steps /\ steps'[i] = steps[i]
        /\ steps'[n].file = cur.file /\ steps'[n].placed = FALSE
    BY <1>5, <2>1
  <2> HIDE DEF n
  <2>3. BackedOut'
    <3>1. \A f \in Files \ StepFiles' : target'[f] = before'[f]
      BY <1>1, <1>2, <1>4, <2>1, <2>2
    <3>2. \A i \in DOMAIN steps' : ~steps'[i].placed => target'[steps'[i].file] = 0
      BY <1>2, <1>4, <2>1, <2>2
    <3> QED
      BY <2>1, <3>1, <3>2 DEF BackedOut
  <2>4. NewPlaced' /\ OldFilesKept'
    BY <1>1, <2>1 DEF FilesInv, NewPlaced, OldFilesKept, Forward
  <2> QED
    BY <2>2, <2>3, <2>4 DEF FilesInv
<1> QED
  BY <1>6, <1>7

(* The new file of the last step goes back. *)
LEMMA FilesBackOutNew ==
    ASSUME TypeOK, ThreadsInv, FilesInv, NEW ok \in BOOLEAN, BackOutNew(ok)
    PROVE  FilesInv'
<1> DEFINE f == Last(steps).file
<1>1. /\ pc = "backOutNew" /\ pc' = "backOutOld" /\ steps # <<>> /\ installing
      /\ UNCHANGED <<aside, before, todo, cur, steps, installing>>
  BY DEF BackOutNew, localVars, ThreadsInv, Replacing
<1>2. /\ Len(steps) \in DOMAIN steps /\ Last(steps) = steps[Len(steps)]
      /\ f \in Files /\ Last(steps).placed \in BOOLEAN /\ f \in StepFiles
  <2>1. /\ steps \in Seq(StepRecord)
        /\ \A i \in DOMAIN steps : steps[i].file \in Files /\ steps[i].placed \in BOOLEAN
    BY StepsTyped
  <2>2. Len(steps) \in DOMAIN steps /\ Last(steps) = steps[Len(steps)]
    <3>1. steps # <<>>
      BY <1>1
    <3>2. /\ Len(steps) \in Nat \ {0} /\ DOMAIN steps = 1..Len(steps)
          /\ Last(steps) = steps[Len(steps)]
      BY <2>1, <3>1, FrontLast, Zenon
    <3> QED
      BY <3>2
  <2> QED
    BY <2>1, <2>2 DEF StepFiles
<1>3. StepFiles' = StepFiles
  BY <1>1 DEF StepFiles
<1>4. /\ \A g \in Files : target'[g] = IF g = f /\ Last(steps).placed /\ ok THEN 0 ELSE target[g]
      /\ faulted' = (faulted \/ (Last(steps).placed /\ ~ok))
  <2>1. /\ Last(steps).placed /\ ok => target' = [target EXCEPT ![f] = 0]
        /\ ~(Last(steps).placed /\ ok) => target' = target
    BY Zenon DEF BackOutNew
  <2>2. target \in [Files -> Contents]
    BY DEF TypeOK
  <2>3. faulted' = (faulted \/ (Last(steps).placed /\ ~ok))
    BY Zenon DEF BackOutNew
  <2> HIDE DEF f
  <2>4. \A g \in Files : target'[g] = IF g = f /\ Last(steps).placed /\ ok THEN 0 ELSE target[g]
    BY <1>2, <2>1, <2>2
  <2> QED
    BY <2>3, <2>4
<1> HIDE DEF f
<1>5. /\ \A g \in todo : target[g] = before[g] /\ g # f
      /\ IF Last(steps).moved THEN aside[f] = before[f] ELSE before[f] = 0
      /\ \A i \in DOMAIN steps : steps[i].file = f => i = Len(steps)
  BY <1>1, <1>2 DEF FilesInv, OldKept, Replacing, f
<1>6. OldKept'
  BY <1>1, <1>3, <1>4, <1>5, StepsTyped DEF FilesInv, OldKept, Replacing, TypeOK
<1>7. NewPlaced'
  BY <1>1 DEF NewPlaced, Forward
<1>8. OldFilesKept'
  BY <1>1, <1>4, <1>5 DEF FilesInv, OldFilesKept
<1>9. BackedOut'
  <2> SUFFICES ASSUME ~faulted'
               PROVE  /\ \A g \in Files \ StepFiles' : target'[g] = before'[g]
                      /\ \A i \in DOMAIN steps' : ~steps'[i].placed => target'[steps'[i].file] = 0
                      /\ target'[Last(steps').file] = 0
    BY DEF BackedOut
  <2>1. ~faulted /\ (Last(steps).placed => ok)
    BY <1>4 DEF TypeOK
  <2>2. /\ \A g \in Files \ StepFiles : target[g] = before[g]
        /\ \A i \in DOMAIN steps : ~steps[i].placed => target[steps[i].file] = 0
    BY <1>1, <2>1 DEF FilesInv, BackedOut
  <2>3. target'[f] = 0
    BY <1>2, <1>4, <2>1, <2>2 DEF f
  <2> QED
    BY <1>1, <1>2, <1>3, <1>4, <2>2, <2>3, StepsTyped DEF f
<1> QED
  BY <1>6, <1>7, <1>8, <1>9 DEF FilesInv

(* And the old one to its name. *)
LEMMA FilesBackOutOld ==
    ASSUME TypeOK, ThreadsInv, FilesInv, NEW ok \in BOOLEAN, BackOutOld(ok)
    PROVE  FilesInv'
<1> DEFINE f == Last(steps).file
<1>1. /\ pc = "backOutOld" /\ pc' = "backOutNew" /\ steps # <<>> /\ installing
      /\ steps' = Front(steps) /\ UNCHANGED <<before, todo, cur, installing>>
  BY DEF BackOutOld, ThreadsInv, Replacing, FilesInv, OldKept
<1>2. /\ Len(steps) \in DOMAIN steps /\ Last(steps) = steps[Len(steps)]
      /\ f \in Files /\ Last(steps).moved \in BOOLEAN /\ f \in StepFiles
  <2>1. /\ steps \in Seq(StepRecord)
        /\ \A i \in DOMAIN steps : steps[i].file \in Files /\ steps[i].moved \in BOOLEAN
    BY StepsTyped
  <2>2. Len(steps) \in DOMAIN steps /\ Last(steps) = steps[Len(steps)]
    <3>1. steps # <<>>
      BY <1>1
    <3>2. /\ Len(steps) \in Nat \ {0} /\ DOMAIN steps = 1..Len(steps)
          /\ Last(steps) = steps[Len(steps)]
      BY <2>1, <3>1, FrontLast, Zenon
    <3> QED
      BY <3>2
  <2> QED
    BY <2>1, <2>2 DEF StepFiles
<1>3. /\ \A i \in DOMAIN steps' : i \in DOMAIN steps /\ steps'[i] = steps[i]
                                   /\ steps[i].file # f
      /\ StepFiles' = StepFiles \ {f}
  BY <1>1, StepRemoved DEF FilesInv, Replacing
<1>4. /\ \A g \in Files :
            /\ target'[g] = IF g = f /\ Last(steps).moved /\ ok THEN aside[f] ELSE target[g]
            /\ aside'[g] = IF g = f /\ Last(steps).moved /\ ok THEN 0 ELSE aside[g]
      /\ faulted' = (faulted \/ (Last(steps).moved /\ ~ok))
  BY <1>2 DEF BackOutOld, TypeOK
<1>5. /\ \A g \in todo : target[g] = before[g] /\ g # f
      /\ IF Last(steps).moved THEN aside[f] = before[f] ELSE before[f] = 0
      /\ \A i, j \in DOMAIN steps : steps[i].file = steps[j].file => i = j
      /\ \A i \in DOMAIN steps :
            /\ steps[i].file \notin todo
            /\ IF steps[i].moved THEN aside[steps[i].file] = before[steps[i].file]
                                 ELSE before[steps[i].file] = 0
  BY <1>1, <1>2 DEF FilesInv, OldKept, Replacing
<1> HIDE DEF f
<1>6. OldKept'
  <2>1. \A g \in todo' : target'[g] = before'[g]
    BY <1>1, <1>4, <1>5 DEF TypeOK
  <2>2. ASSUME NEW i \in DOMAIN steps'
        PROVE  /\ steps'[i].file \notin todo'
               /\ IF steps'[i].moved THEN aside'[steps'[i].file] = before'[steps'[i].file]
                                     ELSE before'[steps'[i].file] = 0
    BY <1>1, <1>3, <1>4, <1>5, StepsTyped
  <2>3. \A i, j \in DOMAIN steps' : steps'[i].file = steps'[j].file => i = j
    BY <1>3, <1>5
  <2> QED
    BY <1>1, <2>1, <2>2, <2>3 DEF OldKept
<1>7. NewPlaced'
  BY <1>1 DEF NewPlaced, Forward
<1>8. OldFilesKept'
  BY <1>1, <1>4, <1>5 DEF FilesInv, OldFilesKept
<1>9. BackedOut'
  <2> SUFFICES ASSUME ~faulted'
               PROVE  /\ \A g \in Files \ StepFiles' : target'[g] = before'[g]
                      /\ \A i \in DOMAIN steps' : ~steps'[i].placed => target'[steps'[i].file] = 0
    BY <1>1 DEF BackedOut
  <2>1. ~faulted /\ (Last(steps).moved => ok)
    BY <1>4 DEF TypeOK
  <2>2. /\ \A g \in Files \ StepFiles : target[g] = before[g]
        /\ \A i \in DOMAIN steps : ~steps[i].placed => target[steps[i].file] = 0
        /\ target[f] = 0
    BY <1>1, <2>1 DEF FilesInv, BackedOut, f
  <2>3. target'[f] = before[f]
    BY <1>2, <1>4, <1>5, <2>1, <2>2
  <2> QED
    BY <1>1, <1>3, <1>4, <2>2, <2>3, StepsTyped
<1> QED
  BY <1>6, <1>7, <1>8, <1>9 DEF FilesInv

(* Every step keeps track of the files. *)
LEMMA FilesNext ==
    ASSUME TypeOK, ThreadsInv, ReleaseInv, FilesInv, [Next]_vars
    PROVE  FilesInv'
<1> USE DEF diskVars, snapVars, localVars, histVars
<1>1. CASE Worker
  <2>1. worker \in Working /\ pc' = pc /\ installing' = installing
    BY <1>1 DEF Worker, WorkerFails, RunCheck, ClearWorkFolder, FetchArchive, VerifyArchive,
                ExtractArchive, ExtractFails, Working
  <2>2. pc \notin Alone
    BY <2>1 DEF ThreadsInv, Working
  <2> QED
    BY <2>1, <2>2, FilesOutside DEF ThreadsInv, Alone
<1>2. CASE Session
  <2>1. /\ pc \in {"cleanup", "listLeft", "create", "spawnCheck", "join", "spawnDownload",
                   "ui", "closing"}
        /\ pc' \notin Replacing /\ installing' = installing
    BY <1>2 DEF Session, RemoveLeftover, LeftoversVisited, ListRemaining, CreateUpdater,
                StartCheck, JoinBeforeDownload, SpawnDownload, NoticeStaged, DestroyUpdater,
                Replacing
  <2> QED
    BY <2>1, FilesOutside DEF ThreadsInv, Replacing
<1>3. CASE User
  <2>1. CASE Start
    BY <2>1, FilesOutside DEF Start, NewProcess, Replacing
  <2>2. CASE StartDownload \/ LaunchGame \/ GameEnds \/ CloseLauncher
    <3>1. pc \in {"ui", "game"} /\ pc' \notin Replacing /\ installing' = installing
      BY <2>2 DEF StartDownload, LaunchGame, GameEnds, CloseLauncher, Replacing
    <3> QED
      BY <3>1, FilesOutside DEF ThreadsInv, Replacing
  <2> QED
    BY <1>3, <2>1, <2>2 DEF User
<1>4. CASE Installer
  <2>1. CASE BeginInstall
    BY <2>1, FilesBegin
  <2>2. ASSUME NEW f \in Files, NEW ok \in BOOLEAN, ClearAside(f, ok)
        PROVE  FilesInv'
    BY <2>2, FilesClear
  <2>3. CASE MoveAside \/ NothingToMove \/ MoveAsideFails
    BY <2>3, FilesMove
  <2>4. CASE PlaceFile \/ PlaceFails
    BY <2>4, FilesPlace
  <2>5. ASSUME NEW ok \in BOOLEAN, BackOutNew(ok) \/ BackOutOld(ok)
        PROVE  FilesInv'
    BY <2>5, FilesBackOutNew, FilesBackOutOld
  <2>6. CASE InstallFails \/ ListAsides
    BY <2>6, FilesOutside DEF InstallFails, ListAsides, InstallReturns, Replacing
  <2>7. ASSUME NEW ok \in BOOLEAN, RemoveWorkFolder(ok)
        PROVE  FilesInv'
    BY <2>7, FilesOutside DEF RemoveWorkFolder, ThreadsInv, Replacing
  <2>8. CASE Restart
    BY <2>8, FilesOutside DEF Restart, NewProcess, Replacing
  <2>9. CASE RestartFails
    BY <2>9, FilesOutside DEF RestartFails, ThreadsInv, Replacing
  <2> QED
    BY <1>4, <2>1, <2>2, <2>3, <2>4, <2>5, <2>6, <2>7, <2>8, <2>9 DEF Installer
<1>5. CASE Crash
  <2>1. pc' = "down" /\ UNCHANGED <<target, aside, before, installing>>
    BY <1>5 DEF Crash
  <2>2. OldKept' /\ NewPlaced' /\ BackedOut'
    BY <2>1 DEF OldKept, NewPlaced, BackedOut, Replacing, Forward
  <2>3. OldFilesKept'
    BY <2>1 DEF FilesInv, OldFilesKept
  <2> QED
    BY <2>2, <2>3 DEF FilesInv
<1>6. CASE UNCHANGED vars
  <2>1. UNCHANGED <<target, aside, staged, before, installing, faulted, pc, todo, cur,
                    steps, stage, latest>>
    BY <1>6 DEF vars
  <2>2. StepFiles' = StepFiles
    BY <2>1 DEF StepFiles
  <2>3. OldKept' /\ NewPlaced'
    BY <2>1, <2>2 DEF FilesInv, OldKept, NewPlaced
  <2>4. BackedOut' /\ OldFilesKept'
    BY <2>1, <2>2 DEF FilesInv, BackedOut, OldFilesKept
  <2> QED
    BY <2>3, <2>4 DEF FilesInv
<1> QED
  BY <1>1, <1>2, <1>3, <1>4, <1>5, <1>6 DEF Next

-----------------------------------------------------------------------------
(* The theorems. *)

(* What every step finds: the types, the threads, the release and the      *)
(* files are as the four parts say, at every point of a session, an        *)
(* install and a crash.                                                    *)
THEOREM UpdaterInvariant == Spec => []UpdaterInv
<1>1. Init => UpdaterInv
  <2> SUFFICES ASSUME Init
               PROVE  UpdaterInv
    OBVIOUS
  <2>1. TypeOK
    BY TypeInit
  <2>2. ThreadsInv /\ ReleaseInv
    BY DEF Init, ThreadsInv, ReleaseInv, Alone, Replacing, Working
  <2>3. OldKept /\ NewPlaced /\ BackedOut /\ OldFilesKept
    BY DEF Init, OldKept, NewPlaced, BackedOut, OldFilesKept, Replacing, Forward
  <2> QED
    BY <2>1, <2>2, <2>3 DEF UpdaterInv
<1>2. UpdaterInv /\ [Next]_vars => UpdaterInv'
  <2> SUFFICES ASSUME UpdaterInv, [Next]_vars
               PROVE  UpdaterInv'
    OBVIOUS
  <2>1. TypeOK /\ ThreadsInv /\ ReleaseInv /\ OldKept /\ FilesInv
    BY DEF UpdaterInv, FilesInv
  <2>2. TypeOK'
    <3>1. CASE UNCHANGED vars
      BY <2>1, <3>1 DEF TypeOK, vars, diskVars, snapVars, localVars, histVars
    <3> QED
      BY <2>1, <3>1, TypeWorker, TypeSession, TypeInstaller DEF Next
  <2>3. ThreadsInv' /\ ReleaseInv'
    BY <2>1, ThreadsNext, ReleaseNext
  <2>4. FilesInv'
    BY <2>1, FilesNext
  <2> QED
    BY <2>2, <2>3, <2>4 DEF UpdaterInv, FilesInv
<1> QED
  BY <1>1, <1>2, PTL DEF Spec

(* No step of an install, whatever fails in it, and no crash inside it     *)
(* leaves a file whose old content is neither under its name nor under the *)
(* aside name (InstallStagedFiles).                                        *)
THEOREM OldFilesAreKept == Spec => []OldFilesKept
<1>1. UpdaterInv => OldFilesKept
  BY DEF UpdaterInv
<1> QED
  BY <1>1, UpdaterInvariant, PTL

(* A thread is started only after the last one was joined, and no worker   *)
(* is about while the files are replaced (StartCheck, StartDownload,       *)
(* Install).                                                               *)
THEOREM WorkersAreJoined == Spec => []WorkerJoined
<1>1. UpdaterInv => WorkerJoined
  BY DEF UpdaterInv, ThreadsInv, WorkerJoined, Alone, Replacing
<1> QED
  BY <1>1, UpdaterInvariant, PTL

(* The install changes only as a whole, to the newer release whose digest  *)
(* was right; one that fails leaves it as it was (InstallStagedFiles,      *)
(* RunDownload).                                                           *)
THEOREM UpdateIsAllOrNothing == Spec => AllOrNothing
<1>1. ASSUME UpdaterInv, [Next]_vars, Found' # Found, ~faulted'
      PROVE  latest > build /\ Found' = [f \in Files |-> latest]
  <2> USE DEF diskVars, snapVars, localVars, histVars
  <2>0. TypeOK /\ ThreadsInv /\ ReleaseInv /\ OldKept /\ NewPlaced /\ BackedOut
    BY <1>1 DEF UpdaterInv
  <2>1. ~(installing /\ installing' /\ before' = before)
    BY <1>1 DEF Found
  <2>2. ~(~installing /\ ~installing' /\ target' = target)
    BY <1>1 DEF Found
  <2>3. ~Worker
    BY <2>1, <2>2 DEF Worker, WorkerFails, RunCheck, ClearWorkFolder, FetchArchive,
                      VerifyArchive, ExtractArchive, ExtractFails
  <2>4. ~Session
    BY <2>1, <2>2 DEF Session, RemoveLeftover, LeftoversVisited, ListRemaining, CreateUpdater,
                      StartCheck, JoinBeforeDownload, SpawnDownload, NoticeStaged, DestroyUpdater
  <2>5. ~NewProcess \/ pc \notin {"down", "restart"}
    BY <1>1, <2>0, <2>2 DEF NewProcess, ThreadsInv, Replacing
  <2>6. ~User
    BY <2>1, <2>2, <2>5 DEF User, Start, StartDownload, LaunchGame, GameEnds, CloseLauncher
  <2>7. ~Crash /\ ~UNCHANGED vars
    BY <2>1, <2>2 DEF Crash, vars
  <2>8. Installer
    BY <1>1, <2>3, <2>4, <2>6, <2>7 DEF Next
  <2>9. ~BeginInstall
    BY <1>1, <2>0 DEF BeginInstall, ThreadsInv, Replacing, Found
  <2>10. ~(pc \in Replacing /\ installing' = installing /\ before' = before)
    BY <2>0, <2>1 DEF ThreadsInv
  <2>11. InstallFails \/ ListAsides
    <3>1. \A f \in Files, ok \in BOOLEAN : ~ClearAside(f, ok)
      BY <2>10 DEF ClearAside, Replacing
    <3>2. ~MoveAside /\ ~NothingToMove /\ ~MoveAsideFails /\ ~PlaceFile /\ ~PlaceFails
      BY <2>10 DEF MoveAside, NothingToMove, MoveAsideFails, PlaceFile, PlaceFails, Replacing
    <3>3. \A ok \in BOOLEAN : ~BackOutNew(ok) /\ ~BackOutOld(ok)
      BY <2>10 DEF BackOutNew, BackOutOld, Replacing
    <3>4. \A ok \in BOOLEAN : ~RemoveWorkFolder(ok)
      BY <2>1, <2>2 DEF RemoveWorkFolder
    <3>5. ~Restart /\ ~RestartFails
      BY <2>1, <2>2, <2>5 DEF Restart, RestartFails
    <3> QED
      BY <2>8, <2>9, <3>1, <3>2, <3>3, <3>4, <3>5 DEF Installer
  <2>12. /\ installing /\ ~installing' /\ target' = target /\ faulted' = faulted
         /\ Found = before /\ Found' = target
    BY <2>0, <2>11 DEF InstallFails, ListAsides, InstallReturns, ThreadsInv, Replacing, Found
  <2>13. CASE InstallFails
    <3>1. pc = "backOutNew" /\ steps = <<>> /\ StepFiles = {}
      BY <2>13 DEF InstallFails, StepFiles
    <3>2. \A f \in Files : target[f] = before[f]
      BY <1>1, <2>0, <2>12, <3>1 DEF BackedOut
    <3>3. target = before
      BY <2>0, <3>2 DEF TypeOK
    <3> QED
      BY <1>1, <2>12, <3>3
  <2>14. CASE ListAsides
    <3>1. pc = "commit"
      BY <2>14 DEF ListAsides
    <3>2. /\ stage = "Staged" /\ StepFiles = Files
          /\ \A i \in DOMAIN steps : target[steps[i].file] = latest
      BY <2>0, <3>1 DEF NewPlaced, Forward
    <3>3. \A f \in Files : target[f] = latest
      BY <3>2 DEF StepFiles
    <3>4. target = [f \in Files |-> latest]
      BY <2>0, <3>3 DEF TypeOK
    <3>5. latest > build
      BY <2>0, <3>2 DEF ReleaseInv
    <3> QED
      BY <2>12, <3>4, <3>5
  <2> QED
    BY <2>11, <2>13, <2>14
<1>2. UpdaterInv /\ [Next]_vars =>
        [Found' # Found /\ ~faulted' =>
           latest > build /\ Found' = [f \in Files |-> latest]]_vars
  BY <1>1
<1> QED
  BY <1>2, UpdaterInvariant, PTL DEF Spec, AllOrNothing

=============================================================================
