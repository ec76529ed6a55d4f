------------------------- MODULE NativeDependencies -------------------------
(***************************************************************************)
(* nativeDependencies.ts of the Electron main process: where ffmpeg and    *)
(* ffprobe are looked for, the one install task per dependency and its     *)
(* pipeline of downloads and child processes, the package managers, and    *)
(* the same for whisper.cpp.  The code keeps the state of the two apart:   *)
(* a behaviour of this module is about one of them (dep).                  *)
(*                                                                         *)
(* Progress in percent, messages and log lines are left out.               *)
(***************************************************************************)
EXTENDS Naturals, FiniteSets

CONSTANTS Requests,      \* calls that may be under way together
          NoRequest,     \* null
          InstallFaults  \* what may go wrong: see InstallFaultsAssumption

ASSUME NoRequestAssumption == NoRequest \notin Requests
ASSUME InstallFaultsAssumption ==
  InstallFaults \subseteq {"fails",      \* any stage of an install
                           "hangs",      \* a child process that has a watchdog
                           "corrupts"}   \* the bytes are not the published ones

VARIABLES
  platform,     \* process.platform
  dep,          \* the dependency this behaviour is about
  custom,       \* ffmpegBinDir in desktop-runtime-config.json
  onPath,       \* a directory of PATH, or a known one of macOS, holds both
  bin,          \* the app-private bin directory
  installState, \* [installing, installedNow]
  installTask,  \* the request whose task runs, or NoRequest
  task,         \* [Requests -> Task]: the pipeline a request has started
  asks,         \* [Requests -> ...]: the call
  looks         \* [Requests -> ...]: what it awaits

hostVars == <<platform, dep>>
diskVars == <<custom, onPath, bin>>
installVars == <<installState, installTask, task>>
askVars == <<asks, looks>>
nativeVars == <<hostVars, diskVars, installVars, askVars>>

Stage == {"none", "prepare", "fetch", "powershell", "sum", "gunzip", "tar", "dotnet",
          "trial", "clear", "copy", "test", "record"}
(* What has been downloaded: the published bytes, others that can be run with *)
(* -version, or some that cannot.                                             *)
Bytes == {"sound", "works", "broken"}
Hung == {"no", "watched", "unwatched"}
Task == [stage : Stage, way : {"aria2", "https"}, left : 0..1, bytes : Bytes, hung : Hung]
NoTask == [stage |-> "none", way |-> "https", left |-> 0, bytes |-> "sound", hung |-> "no"]

NativeTypeOK ==
  /\ platform \in {"win32", "darwin", "linux"} /\ dep \in {"ffmpeg", "whisper"}
  /\ custom \in {"unset", "pair", "gone"}
  /\ onPath \in BOOLEAN
  /\ bin \in {"none", "partial", "broken", "works", "whole"}
  /\ installState \in [installing : BOOLEAN, installedNow : BOOLEAN]
  /\ installTask \in Requests \cup {NoRequest}
  /\ task \in [Requests -> Task]
  /\ asks \in [Requests -> {"none", "install", "packages"}]
  /\ looks \in [Requests -> {"none", "config", "private", "path", "manager"}]

NativeInit ==
  /\ platform \in {"win32", "darwin", "linux"} /\ dep \in {"ffmpeg", "whisper"}
  /\ custom \in (IF dep = "ffmpeg" THEN {"unset", "gone"} ELSE {"unset"})
  /\ onPath = FALSE
  /\ bin \in {"none", "whole"}
  /\ installState = [installing |-> FALSE, installedNow |-> FALSE]
  /\ installTask = NoRequest
  /\ task = [r \in Requests |-> NoTask]
  /\ asks = [r \in Requests |-> "none"] /\ looks = [r \in Requests |-> "none"]

-------------------------------------------------------------------------------
(* What a call leaves in the state when its look is over *)

Await(r, what) == looks' = [looks EXCEPT ![r] = what]

(* startInstallTask and startWhisperCPPInstallTask: no await before the       *)
(* variable is set.                                                           *)
StartInstallTask(r) ==
  /\ installState' = [installing |-> TRUE, installedNow |-> FALSE]
  /\ installTask' = r
  /\ task' = [task EXCEPT ![r] = [NoTask EXCEPT
                !.stage = IF dep = "ffmpeg" THEN "prepare" ELSE "fetch",
                !.left = IF platform = "darwin" THEN 1 ELSE 0]]

(* installedNow is answered and reset.                                        *)
Tell ==
  /\ installState' = [installing |-> FALSE, installedNow |-> FALSE]
  /\ UNCHANGED <<installTask, task>>

(* Faulty: the answer of the look decides, not the task that runs by now.     *)
InstallByAnswer(r, source) ==
  IF source = "installing" THEN UNCHANGED installVars
  ELSE IF source = "app-private" THEN Tell
  ELSE IF platform \in {"win32", "darwin"} THEN StartInstallTask(r)
  ELSE UNCHANGED installVars

(* installFFmpeg, after its look: a task that runs by now prevails.           *)
InstallDecides(r, source) ==
  IF installTask # NoRequest THEN UNCHANGED installVars
  ELSE IF source = "app-private" THEN Tell
  ELSE IF platform \in {"win32", "darwin"} THEN StartInstallTask(r)
  ELSE UNCHANGED installVars

(* ensureWhisperCPPInstalled: what can be run prevails, task or no task.      *)
WhisperDecides(r, available) ==
  IF available THEN Tell
  ELSE IF installTask = NoRequest /\ platform = "win32" THEN StartInstallTask(r)
  ELSE UNCHANGED installVars

(* installFFmpegWithPackageManager clears the flag in its finally, whoever    *)
(* has set it.                                                                *)
ManagerOver ==
  /\ installState' = [installState EXCEPT !.installing = FALSE]
  /\ UNCHANGED <<installTask, task>>

(* The look of a call is over.                                                *)
Answer(r, what, source) ==
  /\ asks' = [asks EXCEPT ![r] = "none"]
  /\ looks' = [looks EXCEPT ![r] = "none"]
  /\ CASE what = "install" /\ dep = "ffmpeg" -> InstallDecides(r, source)
       [] what = "install" /\ dep = "whisper" -> WhisperDecides(r, source # "missing")
       [] what = "packages" -> ManagerOver

-------------------------------------------------------------------------------
(* resolveFFmpegPair: the test for an install comes before the first await,   *)
(* and is not repeated after it.                                              *)
Look(r, what) ==
  IF dep = "ffmpeg" /\ (installTask # NoRequest \/ installState.installing)
  THEN Answer(r, what, "installing")
  ELSE /\ asks' = [asks EXCEPT ![r] = what]
       /\ Await(r, IF dep = "ffmpeg" THEN "config" ELSE "private")
       /\ UNCHANGED installVars

(* A directory that is configured is the only one that is looked at; a broken *)
(* file is put aside and counts as none.                                      *)
LookAtConfig(r) ==
  /\ looks[r] = "config"
  /\ CASE custom = "pair" -> Answer(r, asks[r], "custom")
       [] custom = "gone" -> Answer(r, asks[r], "failed")
       [] OTHER -> Await(r, "private") /\ UNCHANGED <<asks, installVars>>
  /\ UNCHANGED <<hostVars, diskVars>>

(* verifyFFmpegPairDirectory runs ffmpeg and ffprobe: both must work.         *)
PairRuns == {bin \in {"whole", "works"}}

(* checkWhisperCPPAvailable runs the one binary, which may work, or not, when *)
(* it is half copied.                                                         *)
WhisperRuns == IF bin = "partial" THEN BOOLEAN ELSE PairRuns

LookAtPrivate(r) ==
  /\ looks[r] = "private"
  /\ \E runs \in IF dep = "ffmpeg" THEN PairRuns ELSE WhisperRuns :
       IF runs THEN Answer(r, asks[r], "app-private")
       ELSE Await(r, "path") /\ UNCHANGED <<asks, installVars>>
  /\ UNCHANGED <<hostVars, diskVars>>

(* resolveSystemPathFFmpegPair: both in one directory, or nothing.            *)
LookAtPath(r) ==
  /\ looks[r] = "path"
  /\ Answer(r, asks[r], IF onPath THEN "system-path" ELSE "missing")
  /\ UNCHANGED <<hostVars, diskVars>>

-------------------------------------------------------------------------------
(* The calls *)

(* installFFmpeg and ensureWhisperCPPInstalled.  (checkFFmpegAvailable and     *)
(* getNativeDependencyViews are the same look, and change nothing.)           *)
Install(r) ==
  /\ asks[r] = "none"
  /\ Look(r, "install")
  /\ UNCHANGED <<hostVars, diskVars>>

(* setFFmpegDirectory: a directory is written only when both can be run.      *)
SetFFmpegDirectory(r) ==
  /\ asks[r] = "none" /\ dep = "ffmpeg"
  /\ custom' = "pair"
  /\ UNCHANGED <<hostVars, onPath, bin, installVars, askVars>>

ClearFFmpegDirectory(r) ==
  /\ asks[r] = "none" /\ dep = "ffmpeg"
  /\ custom' = "unset"
  /\ UNCHANGED <<hostVars, onPath, bin, installVars, askVars>>

(* installFFmpegWithPackageManager, of a platform that has one: the state is  *)
(* replaced although an install may be under way.                             *)
InstallWithManager(r) ==
  /\ asks[r] = "none" /\ dep = "ffmpeg" /\ platform # "linux"
  /\ installState' = [installing |-> TRUE, installedNow |-> FALSE]
  /\ asks' = [asks EXCEPT ![r] = "packages"]
  /\ Await(r, "manager")
  /\ UNCHANGED <<hostVars, diskVars, installTask, task>>

(* runPackageManager ends within its ten minutes, one way or the other.       *)
ManagerEnds(r) ==
  /\ looks[r] = "manager"
  /\ \/ onPath' = TRUE /\ Look(r, "packages")
     \/ /\ asks' = [asks EXCEPT ![r] = "none"] /\ Await(r, "none")
        /\ ManagerOver
        /\ UNCHANGED onPath
  /\ UNCHANGED <<hostVars, custom, bin>>

-------------------------------------------------------------------------------
(* The pipeline of a task: installWindowsFFmpeg, installMacOSFFmpeg and       *)
(* installWindowsWhisperCPP are rows of stages.                               *)

WinFFmpeg == dep = "ffmpeg" /\ platform = "win32"
Runs(r, stage) == task[r].stage = stage /\ task[r].hung = "no"
To(r, stage) == task' = [task EXCEPT ![r].stage = stage]
Stay == UNCHANGED <<installState, installTask>>

(* The stage that follows when one has worked.                                *)
Successor(t) ==
  CASE t.stage = "fetch" -> IF WinFFmpeg THEN "sum"
                            ELSE IF dep = "ffmpeg" THEN "gunzip" ELSE "tar"
    [] t.stage = "gunzip" -> IF t.left > 0 THEN "fetch" ELSE "trial"
    [] t.stage \in {"powershell", "sum"} -> "tar"
    [] t.stage \in {"tar", "dotnet", "trial"} -> "clear"
    [] t.stage = "copy" -> IF WinFFmpeg THEN "test" ELSE "record"
    [] t.stage = "test" -> "record"

(* The stage that makes up for one that has failed: aria2 falls back to HTTPS *)
(* on Windows only, tar to PowerShell, the download of whisper.cpp too.       *)
Fallback(t) ==
  CASE t.stage = "fetch" /\ WinFFmpeg /\ t.way = "aria2" -> "fetch"
    [] t.stage = "fetch" /\ dep = "whisper" -> "powershell"
    [] t.stage = "tar" -> "dotnet"
    [] OTHER -> "none"

(* The finally and the catch of the task.                                     *)
TaskOver(r, succeeded) ==
  /\ installState' = [installing |-> FALSE, installedNow |-> succeeded]
  /\ installTask' = NoRequest
  /\ task' = [task EXCEPT ![r] = NoTask]

StageFails(r) ==
  LET next == Fallback(task[r]) IN
    IF next = "none" THEN TaskOver(r, FALSE)
    ELSE /\ task' = [task EXCEPT ![r] = [@ EXCEPT !.stage = next, !.way = "https", !.hung = "no"]]
         /\ Stay

(* ensureAria2Installed never fails: it finds an aria2 that runs, or none.    *)
Prepare(r) ==
  /\ Runs(r, "prepare")
  /\ \E way \in {"aria2", "https"} :
       task' = [task EXCEPT ![r] = [@ EXCEPT !.stage = "fetch", !.way = way]]
  /\ Stay /\ UNCHANGED <<hostVars, diskVars, askVars>>

Worse(a, b) == IF "broken" \in {a, b} THEN "broken" ELSE IF a = "sound" THEN b ELSE a

(* downloadFile, downloadFileWithAria2 and downloadFileWithPowerShell: what   *)
(* has arrived has the length that was announced, if one was.                 *)
Download(r) ==
  /\ Runs(r, "fetch") \/ Runs(r, "powershell")
  /\ \E bytes \in (IF "corrupts" \in InstallFaults THEN Bytes ELSE {"sound"}) :
       task' = [task EXCEPT ![r] = [@ EXCEPT !.stage = Successor(task[r]),
                                             !.bytes = Worse(task[r].bytes, bytes)]]
  /\ Stay /\ UNCHANGED <<hostVars, diskVars, askVars>>

(* Faulty: the checksum is fetched and not compared.                          *)
NotCompared(r) == TRUE

(* sha256File against fetchExpectedSHA256.                                    *)
ChecksumMatches(r) == task[r].bytes = "sound"

Checksum(r) ==
  /\ Runs(r, "sum")
  /\ IF ChecksumMatches(r) THEN To(r, "tar") /\ Stay ELSE TaskOver(r, FALSE)
  /\ UNCHANGED <<hostVars, diskVars, askVars>>

Before(n) == IF n > 0 THEN n - 1 ELSE 0

(* expandFFmpegArchive, expandZip, createGunzip: other bytes may unpack too.  *)
Unpack(r) ==
  /\ \E s \in {"tar", "dotnet", "gunzip"} : Runs(r, s)
  /\ task' = [task EXCEPT ![r] = [@ EXCEPT !.stage = Successor(task[r]),
                                           !.left = Before(task[r].left)]]
  /\ Stay /\ UNCHANGED <<hostVars, diskVars, askVars>>

(* Both are run with -version: on macOS, which has no checksum, before they   *)
(* are published; on Windows after.                                           *)
Try(r) ==
  /\ Runs(r, "trial") \/ Runs(r, "test")
  /\ IF task[r].bytes # "broken" THEN To(r, Successor(task[r])) /\ Stay ELSE TaskOver(r, FALSE)
  /\ UNCHANGED <<hostVars, diskVars, askVars>>

(* rm and mkdir of the bin directory.                                         *)
ClearBin(r) ==
  /\ Runs(r, "clear")
  /\ bin' = "none"
  /\ To(r, "copy") /\ Stay
  /\ UNCHANGED <<hostVars, custom, onPath, askVars>>

(* cp: half of it, then the rest.                                             *)
BeginCopy(r) ==
  /\ Runs(r, "copy") /\ bin = "none"
  /\ bin' = "partial"
  /\ UNCHANGED <<hostVars, custom, onPath, installVars, askVars>>

EndCopy(r) ==
  /\ Runs(r, "copy") /\ bin = "partial"
  /\ bin' = IF task[r].bytes = "sound" THEN "whole" ELSE task[r].bytes
  /\ To(r, Successor(task[r])) /\ Stay
  /\ UNCHANGED <<hostVars, custom, onPath, askVars>>

(* source.txt and the manifest are written: the task is over.                 *)
Record(r) ==
  /\ Runs(r, "record")
  /\ TaskOver(r, TRUE)
  /\ UNCHANGED <<hostVars, diskVars, askVars>>

(* Any stage may throw, except prepare.                                       *)
StageThrows(r) ==
  /\ "fails" \in InstallFaults
  /\ task[r].stage \notin {"none", "prepare"} /\ task[r].hung = "no"
  /\ StageFails(r)
  /\ UNCHANGED <<hostVars, diskVars, askVars>>

(* aria2, PowerShell, tar and the trial runs are child processes.             *)
WithAria2(t) == t.stage = "fetch" /\ t.way = "aria2"
IsChild(t) == t.stage \in {"powershell", "tar", "dotnet", "trial", "test"} \/ WithAria2(t)

(* The size of the file of aria2 is what is watched: one that hangs before it  *)
(* has made the file is not (the stat fails, and nothing is made of that).    *)
Hang(r) ==
  /\ "hangs" \in InstallFaults
  /\ IsChild(task[r]) /\ task[r].hung = "no"
  /\ \E how \in (IF WithAria2(task[r]) THEN {"watched", "unwatched"} ELSE {"watched"}) :
       task' = [task EXCEPT ![r].hung = how]
  /\ Stay /\ UNCHANGED <<hostVars, diskVars, askVars>>

(* Faulty: the unpackers are not watched.                                     *)
WatchdogOfDownloads(r) ==
  /\ task[r].hung = "watched" /\ task[r].stage \notin {"tar", "dotnet"}
  /\ StageFails(r)
  /\ UNCHANGED <<hostVars, diskVars, askVars>>

(* runBoundedProcess, the stall timer of aria2, the timeouts of execFile:     *)
(* the process tree is killed, the stage has failed.                          *)
Watchdog(r) ==
  /\ task[r].hung = "watched"
  /\ StageFails(r)
  /\ UNCHANGED <<hostVars, diskVars, askVars>>

-------------------------------------------------------------------------------
TaskStep(r) ==
  \/ Prepare(r) \/ Download(r) \/ Checksum(r) \/ Unpack(r) \/ Try(r)
  \/ ClearBin(r) \/ BeginCopy(r) \/ EndCopy(r) \/ Record(r) \/ Watchdog(r)

LookStep(r) == LookAtConfig(r) \/ LookAtPrivate(r) \/ LookAtPath(r) \/ ManagerEnds(r)

NativeNext ==
  \E r \in Requests :
    \/ Install(r) \/ SetFFmpegDirectory(r) \/ ClearFFmpegDirectory(r) \/ InstallWithManager(r)
    \/ LookStep(r) \/ TaskStep(r) \/ StageThrows(r) \/ Hang(r)

NativeSpec == NativeInit /\ [][NativeNext]_nativeVars

(* Fairness: timers fire, children exit or hang, and a server that was asked  *)
(* answers or drops the connection (downloadFile has no timeout of its own).  *)
InstallProgress == \E r \in Requests : TaskStep(r)

-------------------------------------------------------------------------------
(* Properties *)

(* At most one install runs, and it is the one of installTask, although calls *)
(* look at the disk before they decide.  (Two would clear and fill the same   *)
(* bin directory together.)                                                   *)
OneInstall ==
  \A r \in Requests : task[r].stage # "none" <=> installTask = r

(* An ffmpeg pair that runs is taken away only when another was checked: on   *)
(* Windows by the published checksum, on macOS by a trial run.  A download    *)
(* that fails or is cut short leaves the old one.                             *)
SoundBeforeReplaced ==
  [][dep = "ffmpeg" /\ bin \in {"whole", "works"} /\ bin' # bin
     => \E r \in Requests : /\ task[r].stage = "clear" /\ task[r].bytes # "broken"
                            /\ platform = "win32" => task[r].bytes = "sound"]_nativeVars

(* Every install ends, although children hang: until then no job is accepted. *)
(* (Only an aria2 that hangs before its file is there is waited for for ever.) *)
InstallEnds ==
  []<>(installTask = NoRequest \/ \E r \in Requests : task[r].hung = "unwatched")

==============================================================================
