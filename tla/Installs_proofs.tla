-------------------------- MODULE Installs_proofs ---------------------------
(***************************************************************************)
(* Theorems about what installs something.                                 *)
(*                                                                         *)
(* ModelInstall, for any installers, files and number of mishaps: the lock *)
(* file lets one installer in at a time, a model that is whole stays, and  *)
(* what is asked of a source continues the partial file that is there,     *)
(* until two installers clash over a lock.                                 *)
(*                                                                         *)
(* NativeDependencies, for any calls and faults: one install at a time,    *)
(* and what is published of ffmpeg has been checked.  The argument is the  *)
(* row of stages that each platform goes through: only the published bytes *)
(* get past the checksum of Windows, and only a pair that runs gets past   *)
(* the trial of macOS.                                                     *)
(*                                                                         *)
(* Environment, the page that waits for such an install: its types, for    *)
(* any number of touches of the user.                                      *)
(***************************************************************************)
EXTENDS ModelInstall, NativeDependencies, Environment, TLAPS

------------------------------------------------------------------------------
(* The model installer.                                                    *)

(* Where an installer writes, and where it has the lock.                      *)
Working == {"file", "inspect", "head", "get", "body", "meta", "hash", "check", "clear", "publish"}
Inside == Working \cup {"pid", "verify", "release"}

WorkOK ==
  /\ DOMAIN work = Installers
  /\ \A i \in Installers : "at" \in DOMAIN work[i] /\ work[i].at \in Steps \cup {"idle"}

LockOK ==
  /\ lockFile \subseteq [by : Installers, pid : BOOLEAN, dead : BOOLEAN, old : BOOLEAN]
  /\ \A l, k \in lockFile : l = k

(* Who is inside made the lock that is there, and lives.                      *)
HoldersOwn == \A i \in Installers : work[i].at \in Inside => \E l \in lockFile : l.by = i /\ ~l.dead

(* Who is about to remove a lock removes that of a dead process, alone.       *)
TakersAlone ==
  \A i \in Installers : Now(i, "take") =>
    /\ \E l \in lockFile : l.dead
    /\ \A j \in Installers : Now(j, "take") => j = i

(* Who works on the model does not work on one that is there whole.           *)
NothingToLose == \A i \in Installers : work[i].at \in Working => model # "whole"

ModelInv ==
  /\ WorkOK /\ LockOK /\ clashed \in BOOLEAN
  /\ ~clashed => HoldersOwn /\ TakersAlone /\ NothingToLose

(* At most one installer is between the creation of the lock file and its     *)
(* release, whoever dies where, until one takes the lock of a live installer  *)
(* or two judge the same dead lock (acquireLock, install.go:312).             *)
OneInstaller ==
  ~clashed => \A i, j \in Installers : work[i].at \in Inside /\ work[j].at \in Inside => i = j

-------------------------------------------------------------------------------
(* The installer i goes on from its place to another; the others stay.        *)
Moves(i, places) ==
  /\ DOMAIN work' = Installers
  /\ "at" \in DOMAIN work'[i] /\ work'[i].at \in places
  /\ \A j \in Installers \ {i} : work'[j] = work[j]

(* What the actions do to work: Then, OnFile, SourceFailed, and the return.   *)
LEMMA ThenMoves ==
  ASSUME WorkOK, NEW i \in Installers, NEW at, Then(i, at)
  PROVE  Moves(i, {at})
BY DEF WorkOK, Then, Moves

LEMMA RestMoves ==
  ASSUME WorkOK, NEW i \in Installers, work' = [work EXCEPT ![i] = AtRest]
  PROVE  Moves(i, {"idle"})
BY DEF WorkOK, AtRest, Moves

LEMMA FileMoves ==
  ASSUME WorkOK, NEW i \in Installers, NEW f, work' = OnFile(i, f)
  PROVE  Moves(i, {"check", "file"})
BY DEF WorkOK, AtRest, OnFile, Moves

LEMMA SourceMoves ==
  ASSUME WorkOK, NEW i \in Installers, work' = SourceFailed(i)
  PROVE  Moves(i, {"inspect", "release"})
BY DEF WorkOK, SourceFailed, Moves

(* A move keeps the types.                                                    *)
LEMMA MoveKeepsWork ==
  ASSUME WorkOK, NEW i \in Installers, Moves(i, Steps \cup {"idle"})
  PROVE  WorkOK'
BY DEF WorkOK, Moves

(* A step of an installer that works, after which it works on or releases.    *)
LEMMA WorkFrame ==
  ASSUME ModelInv, NEW i \in Installers, work[i].at \in Working,
         Moves(i, Working \cup {"release"}), UNCHANGED <<lockFile, clashed>>,
         model' = model \/ model' # "whole" \/ work'[i].at = "release"
  PROVE  ModelInv'
<1>1. WorkOK' BY MoveKeepsWork DEF ModelInv, Moves, Working, Steps
<1>2. LockOK' BY DEF ModelInv, LockOK
<1>3. ASSUME ~clashed PROVE HoldersOwn'
  BY <1>3 DEF ModelInv, HoldersOwn, Moves, Inside
<1>4. ASSUME ~clashed PROVE TakersAlone'
  BY <1>4 DEF ModelInv, TakersAlone, Moves, Now, Working
<1>5. ASSUME ~clashed PROVE NothingToLose'
  <2>1. ASSUME NEW j \in Installers, j # i PROVE work[j].at \notin Working
    BY <1>5, <2>1 DEF ModelInv, HoldersOwn, LockOK, Inside
  <2> QED BY <1>5, <2>1 DEF ModelInv, NothingToLose, Moves, Working
<1> QED BY <1>1, <1>2, <1>3, <1>4, <1>5 DEF ModelInv

-------------------------------------------------------------------------------
(* The lock.                                                                  *)

(* A step of an installer that is not inside and does not get there.          *)
LEMMA OutsideFrame ==
  ASSUME ModelInv, NEW i \in Installers, work[i].at \notin Inside,
         Moves(i, {"idle", "lock", "judge"}), UNCHANGED <<model, lockFile, clashed>>
  PROVE  ModelInv'
<1>1. WorkOK' BY MoveKeepsWork DEF ModelInv, Moves, Steps
<1>2. LockOK' BY DEF ModelInv, LockOK
<1>3. ASSUME ~clashed PROVE HoldersOwn' /\ TakersAlone' /\ NothingToLose'
  BY <1>3 DEF ModelInv, HoldersOwn, TakersAlone, NothingToLose, Moves, Now, Inside, Working
<1> QED BY <1>1, <1>2, <1>3 DEF ModelInv

LEMMA CreateLockKeeps ==
  ASSUME ModelInv, NEW i \in Installers, CreateLock(i) PROVE ModelInv'
<1>1. CASE lockFile # {}
  <2>1. Moves(i, {"judge"}) BY <1>1, ThenMoves DEF ModelInv, CreateLock
  <2> QED BY <1>1, <2>1, OutsideFrame DEF CreateLock, FilesStay, Moves, Now, Inside, Working
<1>2. CASE lockFile = {}
  <2>1. Moves(i, {"pid"}) BY <1>2, ThenMoves DEF ModelInv, CreateLock
  <2>2. lockFile' = {[by |-> i, pid |-> FALSE, dead |-> FALSE, old |-> FALSE]}
    BY <1>2 DEF CreateLock
  <2>3. UNCHANGED <<model, clashed>> BY DEF CreateLock, FilesStay
  <2>4. WorkOK' BY <2>1, MoveKeepsWork DEF ModelInv, Moves, Steps
  <2>5. LockOK' BY <2>2 DEF LockOK
  <2>6. ASSUME ~clashed PROVE HoldersOwn' /\ TakersAlone' /\ NothingToLose'
    BY <1>2, <2>1, <2>2, <2>3, <2>6
       DEF ModelInv, HoldersOwn, TakersAlone, NothingToLose, Moves, Now, Inside, Working
  <2> QED BY <2>3, <2>4, <2>5, <2>6 DEF ModelInv
<1> QED BY <1>1, <1>2

(* What becomes of a lock that is written to, or grows old.                   *)
SameLock == \A l \in lockFile : \E k \in lockFile' : k.by = l.by /\ (k.dead <=> l.dead)

LEMMA WritePidKeeps ==
  ASSUME ModelInv, NEW i \in Installers, WritePid(i) PROVE ModelInv'
<1>1. Moves(i, {"verify"}) BY ThenMoves DEF ModelInv, WritePid
<1>2. UNCHANGED <<model, clashed>> BY DEF WritePid, FilesStay
<1>3. WorkOK' BY <1>1, MoveKeepsWork DEF ModelInv, Moves, Steps
<1>4. LockOK' BY DEF ModelInv, LockOK, WritePid
<1>5. SameLock
  <2>1. SUFFICES ASSUME NEW l \in lockFile
                 PROVE  \E k \in lockFile' : k.by = l.by /\ (k.dead <=> l.dead)
    BY DEF SameLock
  <2>2. l \in [by : Installers, pid : BOOLEAN, dead : BOOLEAN, old : BOOLEAN]
    BY DEF ModelInv, LockOK
  <2>3. (IF l.by = i THEN [l EXCEPT !.pid = TRUE] ELSE l) \in lockFile' BY DEF WritePid
  <2> QED BY <2>2, <2>3
<1>6. ASSUME ~clashed PROVE HoldersOwn'
  <2>1. \A j \in Installers : work'[j].at \in Inside => work[j].at \in Inside
    BY <1>1 DEF Moves, WritePid, Now, Inside
  <2> QED BY <1>5, <1>6, <2>1 DEF ModelInv, HoldersOwn, SameLock
<1>7. ASSUME ~clashed PROVE TakersAlone'
  BY <1>1, <1>5, <1>7 DEF ModelInv, TakersAlone, SameLock, Moves, Now
<1>8. ASSUME ~clashed PROVE NothingToLose'
  BY <1>1, <1>2, <1>8 DEF ModelInv, NothingToLose, Moves, Working
<1> QED BY <1>2, <1>3, <1>4, <1>6, <1>7, <1>8 DEF ModelInv

LEMMA JudgeLockKeeps ==
  ASSUME ModelInv, NEW i \in Installers, JudgeLock(i) PROVE ModelInv'
<1>1. CASE \A l \in lockFile : ~DeadLock(l) /\ ~l.old
  <2>1. work' = [work EXCEPT ![i] = AtRest] /\ UNCHANGED clashed BY <1>1 DEF JudgeLock
  <2>2. Moves(i, {"idle"}) BY <2>1, RestMoves DEF ModelInv
  <2> QED BY <2>1, <2>2, OutsideFrame DEF JudgeLock, FilesStay, Moves, Now, Inside, Working
<1>2. CASE \E l \in lockFile : DeadLock(l) \/ l.old
  <2>1. Moves(i, {"take"}) BY <1>2, ThenMoves DEF ModelInv, JudgeLock
  <2>2. UNCHANGED <<model, lockFile>> BY DEF JudgeLock, FilesStay
  <2>3. clashed' = (clashed \/ (\E l \in lockFile : l.old /\ ~l.dead)
                          \/ \E j \in Installers \ {i} : Now(j, "take"))
    BY <1>2 DEF JudgeLock
  <2>4. WorkOK' BY <2>1, MoveKeepsWork DEF ModelInv, Moves, Steps
  <2>5. LockOK' BY <2>2 DEF ModelInv, LockOK
  <2>6. ASSUME ~clashed' PROVE HoldersOwn' /\ TakersAlone' /\ NothingToLose'
    <3>1. ~clashed BY <2>3, <2>6
    <3>2. \E l \in lockFile : l.dead BY <1>2, <2>3, <2>6 DEF DeadLock
    <3>3. \A j \in Installers \ {i} : ~Now(j, "take") BY <2>3, <2>6
    <3>4. HoldersOwn' BY <3>1, <2>1, <2>2 DEF ModelInv, HoldersOwn, Moves, Inside, Working
    <3>5. TakersAlone' BY <3>1, <3>2, <3>3, <2>1, <2>2 DEF TakersAlone, Moves, Now
    <3>6. NothingToLose'
      BY <3>1, <2>1, <2>2 DEF ModelInv, NothingToLose, Moves, Working
    <3> QED BY <3>4, <3>5, <3>6
  <2>7. clashed' \in BOOLEAN BY <2>3
  <2> QED BY <2>4, <2>5, <2>6, <2>7 DEF ModelInv
<1> QED BY <1>1, <1>2 DEF JudgeLock

(* The lock that is removed is nobody's, or that of the one who removes it.   *)
LEMMA TakeLockKeeps ==
  ASSUME ModelInv, NEW i \in Installers, TakeLock(i) PROVE ModelInv'
<1>1. Moves(i, {"lock"}) BY ThenMoves DEF ModelInv, TakeLock
<1>2. lockFile' = {} /\ UNCHANGED <<model, clashed>> BY DEF TakeLock, FilesStay
<1>3. WorkOK' BY <1>1, MoveKeepsWork DEF ModelInv, Moves, Steps
<1>4. LockOK' BY <1>2 DEF LockOK
<1>5. ASSUME ~clashed PROVE HoldersOwn' /\ TakersAlone' /\ NothingToLose'
  <2>1. \A j \in Installers : work[j].at \notin Inside
    BY <1>5 DEF ModelInv, HoldersOwn, TakersAlone, LockOK, TakeLock
  <2>2. \A j \in Installers \ {i} : ~Now(j, "take")
    BY <1>5 DEF ModelInv, TakersAlone, TakeLock
  <2> QED BY <1>1, <1>2, <2>1, <2>2
         DEF HoldersOwn, TakersAlone, NothingToLose, Moves, Now, Inside, Working
<1> QED BY <1>2, <1>3, <1>4, <1>5 DEF ModelInv

LEMMA ReleaseKeeps ==
  ASSUME ModelInv, NEW i \in Installers, Release(i) PROVE ModelInv'
<1>1. Moves(i, {"idle"}) BY RestMoves DEF ModelInv, Release
<1>2. lockFile' = {} /\ UNCHANGED <<model, clashed>> BY DEF Release, FilesStay
<1>3. WorkOK' BY <1>1, MoveKeepsWork DEF ModelInv, Moves, Steps
<1>4. LockOK' BY <1>2 DEF LockOK
<1>5. ASSUME ~clashed PROVE HoldersOwn' /\ TakersAlone' /\ NothingToLose'
  <2>1. \A j \in Installers \ {i} : work[j].at \notin Inside
    BY <1>5 DEF ModelInv, HoldersOwn, LockOK, Release, Now, Inside
  <2>2. \A j \in Installers : ~Now(j, "take")
    BY <1>5 DEF ModelInv, HoldersOwn, TakersAlone, LockOK, Release, Now, Inside
  <2> QED BY <1>1, <1>2, <2>1, <2>2
         DEF HoldersOwn, TakersAlone, NothingToLose, Moves, Now, Inside, Working
<1> QED BY <1>2, <1>3, <1>4, <1>5 DEF ModelInv

LEMMA LockGrowsOldKeeps ==
  ASSUME ModelInv, LockGrowsOld PROVE ModelInv'
<1>1. UNCHANGED <<work, model, clashed>> BY DEF LockGrowsOld, FilesStay
<1>2. lockFile' = {[l EXCEPT !.old = TRUE] : l \in lockFile} BY DEF LockGrowsOld
<1>3. SameLock
  <2>1. SUFFICES ASSUME NEW l \in lockFile
                 PROVE  \E k \in lockFile' : k.by = l.by /\ (k.dead <=> l.dead)
    BY DEF SameLock
  <2>2. l \in [by : Installers, pid : BOOLEAN, dead : BOOLEAN, old : BOOLEAN]
    BY DEF ModelInv, LockOK
  <2>3. [l EXCEPT !.old = TRUE] \in lockFile' BY <1>2
  <2> QED BY <2>2, <2>3
<1>4. LockOK' BY <1>2 DEF ModelInv, LockOK
<1> QED BY <1>1, <1>3, <1>4
        DEF ModelInv, WorkOK, HoldersOwn, TakersAlone, NothingToLose, SameLock, Now

-------------------------------------------------------------------------------
(* The files.                                                                 *)

LEMMA BeginInstallKeeps ==
  ASSUME ModelInv, NEW i \in Installers, BeginInstall(i) PROVE ModelInv'
<1>1. Moves(i, {"lock"}) BY ThenMoves DEF ModelInv, BeginInstall
<1> QED BY <1>1, OutsideFrame DEF BeginInstall, FilesStay, Moves, Now, Inside, Working

(* The look after the lock: only who does not find the model goes on.         *)
LEMMA LookAgainKeeps ==
  ASSUME ModelInv, NEW i \in Installers, LookAgain(i) PROVE ModelInv'
<1>1. UNCHANGED <<model, lockFile, clashed>> BY DEF LookAgain, FilesStay
<1>2. Moves(i, {"release", "check", "file"}) /\ (model = "whole" => Moves(i, {"release"}))
  <2>1. CASE model = "whole"
    <3>1. Then(i, "release") BY <2>1 DEF LookAgain, Then
    <3>2. Moves(i, {"release"}) BY <3>1, ThenMoves DEF ModelInv
    <3> QED BY <3>2 DEF Moves
  <2>2. CASE model # "whole"
    <3>1. Moves(i, {"check", "file"}) BY <2>2, FileMoves DEF ModelInv, LookAgain
    <3> QED BY <2>2, <3>1 DEF Moves
  <2> QED BY <2>1, <2>2
<1>3. WorkOK' BY <1>2, MoveKeepsWork DEF ModelInv, Moves, Steps
<1>4. LockOK' BY <1>1 DEF ModelInv, LockOK
<1>5. ASSUME ~clashed PROVE HoldersOwn'
  BY <1>1, <1>2, <1>5 DEF ModelInv, HoldersOwn, Moves, LookAgain, Now, Inside
<1>6. ASSUME ~clashed PROVE TakersAlone'
  BY <1>1, <1>2, <1>6 DEF ModelInv, TakersAlone, Moves, Now
<1>7. ASSUME ~clashed PROVE NothingToLose'
  BY <1>1, <1>2, <1>7 DEF ModelInv, NothingToLose, Moves, Working
<1> QED BY <1>1, <1>3, <1>4, <1>5, <1>6, <1>7 DEF ModelInv

(* From file to file, and from source to source.                              *)
LEMMA LoadingKeeps ==
  ASSUME ModelInv, NEW i \in Installers,
         \/ NextFile(i) \/ Inspect(i) \/ AskHead(i) \/ AnswerGet(i) \/ Write(i)
         \/ WriteMeta(i) \/ Hash(i)
  PROVE  ModelInv'
<1> DEFINE Frame == /\ work[i].at \in Working /\ Moves(i, Working \cup {"release"})
                    /\ UNCHANGED <<model, lockFile, clashed>>
<1> SUFFICES Frame BY WorkFrame
<1> WorkOK BY DEF ModelInv
<1>1. CASE NextFile(i)
  <2>1. Moves(i, {"check", "file"}) \/ Moves(i, {"inspect"})
    BY <1>1, FileMoves DEF NextFile, WorkOK, Moves
  <2> QED BY <1>1, <2>1 DEF NextFile, FilesStay, Moves, Now, Working
<1>2. CASE Inspect(i)
  <2>1. Moves(i, {"head"}) \/ Moves(i, {"get"}) BY <1>2, ThenMoves DEF Inspect
  <2> QED BY <1>2, <2>1 DEF Inspect, Unlocked, Moves, Now, Working
<1>3. CASE AskHead(i)
  <2>1. Moves(i, {"get"}) BY <1>3 DEF AskHead, WorkOK, Moves
  <2> QED BY <1>3, <2>1 DEF AskHead, Unlocked, Moves, Now, Working
<1>4. CASE AnswerGet(i)
  <2>1. Moves(i, {"inspect", "release"}) \/ Moves(i, {"body"})
    BY <1>4, SourceMoves DEF AnswerGet, WorkOK, Moves
  <2> QED BY <1>4, <2>1 DEF AnswerGet, Unlocked, Moves, Now, Working
<1>5. CASE Write(i)
  <2>1. Moves(i, {"meta"}) \/ Moves(i, {"body"}) BY <1>5, ThenMoves DEF Write
  <2> QED BY <1>5, <2>1 DEF Write, Unlocked, Moves, Now, Working
<1>6. CASE WriteMeta(i)
  <2>1. Moves(i, {"hash"}) BY <1>6, ThenMoves DEF WriteMeta
  <2> QED BY <1>6, <2>1 DEF WriteMeta, Unlocked, Moves, Now, Working
<1>7. CASE Hash(i)
  <2>1. Moves(i, {"check", "file"}) \/ Moves(i, {"inspect", "release"})
    BY <1>7, FileMoves, SourceMoves DEF Hash
  <2> QED BY <1>7, <2>1 DEF Hash, Unlocked, Moves, Now, Working
<1> QED BY <1>1, <1>2, <1>3, <1>4, <1>5, <1>6, <1>7

LEMMA PublicationKeeps ==
  ASSUME ModelInv, NEW i \in Installers, CheckStaged(i) \/ ClearModel(i) \/ Publish(i)
  PROVE  ModelInv'
<1> WorkOK BY DEF ModelInv
<1>1. CASE CheckStaged(i)
  <2>1. Moves(i, Working \cup {"release"}) BY <1>1, ThenMoves DEF CheckStaged, Moves, Working
  <2> QED BY <1>1, <2>1, WorkFrame DEF CheckStaged, FilesStay, Now, Working
<1>2. CASE ClearModel(i)
  <2>1. Moves(i, {"clear", "publish"})
    <3>1. CASE model \in {"whole", "damaged"}
      BY <1>2, <3>1 DEF ClearModel, Now, WorkOK, Moves
    <3>2. CASE model \notin {"whole", "damaged"}
      <4>1. Moves(i, {"publish"}) BY <1>2, <3>2, ThenMoves DEF ClearModel
      <4> QED BY <4>1 DEF Moves
    <3> QED BY <3>1, <3>2
  <2>2. model' # "whole" BY <1>2 DEF ClearModel
  <2> QED BY <1>2, <2>1, <2>2, WorkFrame DEF ClearModel, Unlocked, Moves, Now, Working
<1>3. CASE Publish(i)
  <2>1. Moves(i, {"release"}) BY <1>3, ThenMoves DEF Publish
  <2> QED BY <1>3, <2>1, WorkFrame DEF Publish, Unlocked, Moves, Now, Working
<1> QED BY <1>1, <1>2, <1>3

-------------------------------------------------------------------------------
(* Mishaps.                                                                   *)

LEMMA FailsKeeps ==
  ASSUME ModelInv, NEW i \in Installers, Fails(i) PROVE ModelInv'
<1> WorkOK BY DEF ModelInv
<1>1. UNCHANGED <<model, lockFile, clashed>> BY DEF Fails, FilesStay
<1>2. CASE work[i].at \in Working
  <2>1. Moves(i, Working \cup {"release"})
    <3>1. CASE work' = SourceFailed(i) BY <3>1, SourceMoves DEF Moves, Working
    <3>2. CASE Then(i, "hash") BY <3>2, ThenMoves DEF Moves, Working
    <3>3. CASE Then(i, "release") BY <3>3, ThenMoves DEF Moves
    <3> QED BY <3>1, <3>2, <3>3 DEF Fails
  <2> QED BY <1>1, <1>2, <2>1, WorkFrame
<1>3. CASE work[i].at \notin Working
  <2>1. Now(i, "verify") /\ Then(i, "release") BY <1>3 DEF Fails, Now, Working
  <2>2. Moves(i, {"release"}) BY <2>1, ThenMoves
  <2>3. WorkOK' BY <2>2, MoveKeepsWork DEF Moves, Steps
  <2>4. LockOK' BY <1>1 DEF ModelInv, LockOK
  <2>5. ASSUME ~clashed PROVE HoldersOwn'
    BY <1>1, <2>1, <2>2, <2>5 DEF ModelInv, HoldersOwn, Moves, Now, Inside
  <2>6. ASSUME ~clashed PROVE TakersAlone' /\ NothingToLose'
    BY <1>1, <2>2, <2>6 DEF ModelInv, TakersAlone, NothingToLose, Moves, Now, Working
  <2> QED BY <1>1, <2>3, <2>4, <2>5, <2>6 DEF ModelInv
<1> QED BY <1>2, <1>3

(* Who dies leaves a dead lock at most; nobody else had it.                   *)
LEMMA DiesKeeps ==
  ASSUME ModelInv, NEW i \in Installers, Dies(i) PROVE ModelInv'
<1>1. Moves(i, {"idle"}) BY RestMoves DEF ModelInv, Dies
<1>2. UNCHANGED <<model, clashed>> BY DEF Dies, FilesStay
<1>3. WorkOK' BY <1>1, MoveKeepsWork DEF ModelInv, Moves, Steps
<1>4. LockOK' BY DEF ModelInv, LockOK, Dies
<1>5. ASSUME NEW l \in lockFile
      PROVE  \E k \in lockFile' : k.by = l.by /\ (k.dead <=> (l.dead \/ l.by = i))
  <2>1. l \in [by : Installers, pid : BOOLEAN, dead : BOOLEAN, old : BOOLEAN]
    BY DEF ModelInv, LockOK
  <2>2. (IF l.by = i THEN [l EXCEPT !.dead = TRUE] ELSE l) \in lockFile' BY DEF Dies
  <2> QED BY <2>1, <2>2
<1>6. ASSUME ~clashed PROVE HoldersOwn'
  <2>1. ASSUME NEW j \in Installers, work'[j].at \in Inside
        PROVE  \E k \in lockFile' : k.by = j /\ ~k.dead
    <3>1. j # i /\ work[j].at \in Inside BY <1>1, <2>1 DEF Moves, Inside, Working
    <3>2. PICK l \in lockFile : l.by = j /\ ~l.dead BY <1>6, <3>1 DEF ModelInv, HoldersOwn
    <3> QED BY <1>5, <3>1, <3>2
  <2> QED BY <2>1 DEF HoldersOwn
<1>7. ASSUME ~clashed PROVE TakersAlone'
  <2>1. ASSUME \E l \in lockFile : l.dead PROVE \E k \in lockFile' : k.dead
    BY <1>5, <2>1
  <2> QED BY <1>1, <1>7, <2>1 DEF ModelInv, TakersAlone, Moves, Now
<1>8. ASSUME ~clashed PROVE NothingToLose'
  BY <1>1, <1>2, <1>8 DEF ModelInv, NothingToLose, Moves, Working
<1> QED BY <1>2, <1>3, <1>4, <1>6, <1>7, <1>8 DEF ModelInv

(* A source that changes, and the user who removes the model.                 *)
LEMMA OthersKeep ==
  ASSUME ModelInv, UNCHANGED <<lockFile, work, clashed>>, model' = model \/ model' # "whole"
  PROVE  ModelInv'
BY DEF ModelInv, WorkOK, LockOK, HoldersOwn, TakersAlone, NothingToLose, Now

-------------------------------------------------------------------------------
(* Theorems.                                                                  *)

LEMMA InitInstallInv == ModelInit => ModelInv
<1> SUFFICES ASSUME ModelInit PROVE ModelInv
  OBVIOUS
<1>1. \A i \in Installers : "at" \in DOMAIN work[i] /\ work[i].at = "idle"
  BY DEF ModelInit, AtRest
<1>2. DOMAIN work = Installers BY DEF ModelInit
<1>3. lockFile = {} /\ clashed = FALSE BY DEF ModelInit
<1>4. WorkOK BY <1>1, <1>2 DEF WorkOK
<1>5. LockOK BY <1>3 DEF LockOK
<1>6. HoldersOwn /\ TakersAlone /\ NothingToLose
  BY <1>1 DEF HoldersOwn, TakersAlone, NothingToLose, Now, Inside, Working
<1> QED BY <1>3, <1>4, <1>5, <1>6 DEF ModelInv

LEMMA NextInstallInv == ModelInv /\ [ModelNext]_modelVars => ModelInv'
<1> SUFFICES ASSUME ModelInv, [ModelNext]_modelVars PROVE ModelInv'
  OBVIOUS
<1>1. CASE UNCHANGED modelVars BY <1>1, OthersKeep DEF modelVars
<1>2. CASE LockGrowsOld BY <1>2, LockGrowsOldKeeps
<1>3. CASE RemoveModel
  <2>1. model' # "whole" BY <1>3 DEF RemoveModel
  <2> QED BY <1>3, <2>1, OthersKeep DEF RemoveModel
<1>4. ASSUME NEW s \in 1..offered, SourceChanges(s) PROVE ModelInv'
  BY <1>4, OthersKeep DEF SourceChanges
<1>5. ASSUME NEW i \in Installers, BeginInstall(i) \/ Fails(i) \/ Dies(i) PROVE ModelInv'
  BY <1>5, BeginInstallKeeps, FailsKeeps, DiesKeeps
<1>6. ASSUME NEW i \in Installers, InstallProceeds(i) PROVE ModelInv'
  BY <1>6, CreateLockKeeps, WritePidKeeps, JudgeLockKeeps, TakeLockKeeps, ReleaseKeeps,
     LookAgainKeeps, LoadingKeeps, PublicationKeeps DEF InstallProceeds
<1> QED BY <1>1, <1>2, <1>3, <1>4, <1>5, <1>6 DEF ModelNext

(* What the theorems below rest on holds in every reachable state.            *)
THEOREM ModelInvariance == ModelSpec => []ModelInv
BY InitInstallInv, NextInstallInv, PTL DEF ModelSpec

(* Mutual exclusion by the lock file, for any number of processes, any of     *)
(* which may die at any step (acquireLock, install.go:312).                   *)
THEOREM LockExcludes == ModelSpec => []OneInstaller
<1>1. ModelInv => OneInstaller BY DEF ModelInv, HoldersOwn, LockOK, OneInstaller
<1> QED BY <1>1, ModelInvariance, PTL

(* An installed model is taken away by the user only (Install,                *)
(* install.go:213): the installer that clears the place found it empty or     *)
(* incomplete since it has the lock, and nobody else has published since.     *)
THEOREM InstalledStays == ModelSpec => InstalledIsKept
<1>1. ASSUME ModelInv, [ModelNext]_modelVars, ~clashed, model = "whole"
      PROVE  model' = "whole" \/ RemoveModel
  <2>1. \A i \in Installers : ~Now(i, "clear")
    BY <1>1 DEF ModelInv, NothingToLose, Now, Working
  <2>2. ASSUME NEW i \in Installers, Publish(i) PROVE model' = "whole"
    BY <1>1, <2>2 DEF Publish
  <2>3. ASSUME NEW i \in Installers, InstallProceeds(i) PROVE model' = "whole"
    BY <1>1, <2>1, <2>2, <2>3
       DEF InstallProceeds, CreateLock, WritePid, JudgeLock, TakeLock, Release, LookAgain,
           NextFile, Inspect, AskHead, AnswerGet, Write, WriteMeta, Hash, CheckStaged,
           ClearModel, FilesStay
  <2> QED BY <1>1, <2>3
         DEF ModelNext, modelVars, LockGrowsOld, SourceChanges, BeginInstall, Fails, Dies, FilesStay
<1>2. ModelInv /\ [ModelNext]_modelVars
      => [~clashed /\ model = "whole" => model' = "whole" \/ RemoveModel]_modelVars
  BY <1>1
<1> QED BY <1>2, ModelInvariance, PTL DEF ModelSpec, InstalledIsKept

-------------------------------------------------------------------------------
(* The partial files.                                                         *)

(* Where an installer is at a file.                                           *)
Loading == {"inspect", "head", "get", "body", "meta", "hash"}

WorkStates ==
  [at : Steps \cup {"idle"}, file : 0..(Files + 1), from : 0..2, src : 0..2, body : Version \cup {"none"}]
FileStates ==
  [part : Seq(Version), meta : SUBSET [url : Sources, tag : Version \cup {"none"}], target : BOOLEAN]

AtFile(w) == /\ w.at \in Loading \cup {"file"} => w.file \in 1..Files
             /\ w.at \in Loading => w.src \in Sources
             /\ w.at \in {"body", "meta"} => w.body \in Version

Typed ==
  /\ model \in {"none", "lacking", "damaged", "whole"} /\ mishaps \in 0..MaxMishaps
  /\ offered \in Sources /\ serves \in [Sources -> Version] /\ tagged \subseteq Sources
  /\ work \in [Installers -> WorkStates] /\ \A i \in Installers : AtFile(work[i])
  /\ staged \in [1..Files -> FileStates] /\ \A f \in 1..Files : Len(staged[f].part) \in 0..2

(* What is asked for continues the part that is there; nothing is written to  *)
(* a part that is complete.                                                   *)
Continues(w) == /\ w.at \in {"file", "inspect"} => w.from = 0
                /\ w.at = "get" => w.from = Len(staged[w.file].part)
                /\ w.at = "body" => Len(staged[w.file].part) \in 0..1
AllContinue == \A i \in Installers : Continues(work[i])

PartsInv == ModelInv /\ Typed /\ (~clashed => AllContinue)

(* An installer goes on, and the staged files stay.                           *)
LEMMA MoveParts ==
  ASSUME Typed, AllContinue, NEW i \in Installers, NEW w \in WorkStates, AtFile(w), Continues(w),
         work' = [work EXCEPT ![i] = w], UNCHANGED <<offered, serves, tagged, staged>>,
         model' \in {"none", "lacking", "damaged", "whole"}, mishaps' \in 0..MaxMishaps
  PROVE  Typed' /\ AllContinue'
<1>1. ASSUME NEW j \in Installers PROVE work'[j] \in WorkStates /\ AtFile(work'[j]) /\ Continues(work'[j])
  BY <1>1 DEF Typed, AllContinue
<1>2. work' \in [Installers -> WorkStates]
  BY <1>1 DEF Typed
<1>3. \A v \in WorkStates : Continues(v)' <=> Continues(v)
  BY DEF Continues
<1>4. Typed'
  BY <1>1, <1>2 DEF Typed, AtFile
<1>5. AllContinue'
  BY <1>1, <1>2, <1>3 DEF AllContinue, Continues
<1> QED
  BY <1>4, <1>5

(* What an installer goes on with when it has written v to the file f.        *)
Fits(w, f, v) ==
  /\ v \in FileStates /\ Len(v.part) \in 0..2
  /\ w.at \in {"file", "inspect"} => w.from = 0
  /\ w.at = "get" => w.file = f /\ w.from = Len(v.part)
  /\ w.at = "body" => w.file = f /\ Len(v.part) \in 0..1

(* An installer writes to its file; it is the only one that is at a file.     *)
LEMMA WriteParts ==
  ASSUME PartsInv, ~clashed, NEW i \in Installers, work[i].at \in Loading,
         NEW w \in WorkStates, AtFile(w), work' = [work EXCEPT ![i] = w],
         NEW v, staged' = [staged EXCEPT ![work[i].file] = v], Fits(w, work[i].file, v),
         UNCHANGED <<offered, serves, tagged, model, mishaps>>
  PROVE  Typed' /\ AllContinue'
<1>1. ASSUME NEW j \in Installers, j # i PROVE work[j].at \notin Loading
  BY <1>1 DEF PartsInv, ModelInv, HoldersOwn, LockOK, Inside, Working, Loading
<1>2. ASSUME NEW j \in Installers PROVE work'[j] = IF j = i THEN w ELSE work[j]
  BY <1>2 DEF PartsInv, Typed
<1>3. work[i].file \in 1..Files
  BY DEF PartsInv, Typed, AtFile
<1>4. ASSUME NEW f \in 1..Files PROVE staged'[f] = IF f = work[i].file THEN v ELSE staged[f]
  BY <1>4 DEF PartsInv, Typed
<1>5. Typed'
  <2>1. work' \in [Installers -> WorkStates] /\ \A j \in Installers : AtFile(work'[j])
    BY <1>2 DEF PartsInv, Typed
  <2>2. staged' \in [1..Files -> FileStates] /\ \A f \in 1..Files : Len(staged'[f].part) \in 0..2
    BY <1>4 DEF PartsInv, Typed, Fits
  <2> QED
    BY <2>1, <2>2 DEF PartsInv, Typed, AtFile
<1>6. ASSUME NEW j \in Installers PROVE Continues(work[j])'
  <2>1. CASE j = i
    BY <1>2, <1>3, <1>4, <2>1 DEF Continues, Fits
  <2>2. CASE j # i
    <3>1. work[j].at = "file" => work[j].from = 0
      BY DEF PartsInv, AllContinue, Continues
    <3> QED
      BY <1>1, <1>2, <2>2, <3>1 DEF Continues, Loading
  <2> QED
    BY <2>1, <2>2
<1> QED
  BY <1>5, <1>6 DEF AllContinue

(* The records that come next.                                                *)
LEMMA NextWork ==
  ASSUME NEW w \in WorkStates, AtFile(w)
  PROVE  /\ AtRest \in WorkStates /\ AtFile(AtRest) /\ Continues(AtRest)
         /\ \A at \in Steps \ (Loading \cup {"file"}) :
              /\ [w EXCEPT !.at = at] \in WorkStates
              /\ AtFile([w EXCEPT !.at = at]) /\ Continues([w EXCEPT !.at = at])
         /\ w.at \in Loading =>
              \A at \in {"head", "hash"} :
                /\ [w EXCEPT !.at = at] \in WorkStates
                /\ AtFile([w EXCEPT !.at = at]) /\ Continues([w EXCEPT !.at = at])
<1>1. AtRest \in WorkStates /\ AtRest.at = "idle"
  BY FilesAssumption DEF AtRest, WorkStates, Version
<1>2. \A at \in Steps : [w EXCEPT !.at = at] \in WorkStates /\ [w EXCEPT !.at = at].at = at
        /\ [w EXCEPT !.at = at].file = w.file /\ [w EXCEPT !.at = at].src = w.src
  BY DEF WorkStates
<1> QED
  BY <1>1, <1>2 DEF AtFile, Continues, Loading, Steps

LEMMA NextFileWork ==
  ASSUME Typed, NEW i \in Installers, NEW f \in 1..(Files + 1)
  PROVE  \E w \in WorkStates : /\ OnFile(i, f) = [work EXCEPT ![i] = w] /\ AtFile(w) /\ Continues(w)
                               /\ w.at \in {"check", "file"}
<1> DEFINE at == IF f > Files THEN "check" ELSE "file"
           w == [AtRest EXCEPT !.at = at, !.file = f]
<1>1. AtRest \in WorkStates /\ AtRest.from = 0
  BY FilesAssumption DEF AtRest, WorkStates, Version
<1>2. w \in WorkStates /\ w.at \in {"check", "file"} /\ w.file = f /\ w.from = 0 /\ (w.at = "file" => f <= Files)
  <2>1. at \in Steps \cup {"idle"} /\ at \in {"check", "file"} /\ (at = "file" => f <= Files)
    BY FilesAssumption DEF Steps
  <2> HIDE DEF at
  <2>2. f \in 0..(Files + 1)
    BY FilesAssumption
  <2>3. w \in WorkStates /\ w.at = at /\ w.file = f /\ w.from = AtRest.from
    BY <1>1, <2>1, <2>2 DEF WorkStates
  <2> QED
    BY <1>1, <2>1, <2>3
<1>3. OnFile(i, f) = [work EXCEPT ![i] = w]
  BY DEF OnFile
<1> HIDE DEF w
<1>4. AtFile(w) /\ Continues(w)
  BY <1>2, FilesAssumption DEF AtFile, Continues, Loading
<1> QED
  BY <1>2, <1>3, <1>4

LEMMA NextSourceWork ==
  ASSUME Typed, NEW i \in Installers, work[i].at \in Loading
  PROVE  \E w \in WorkStates : /\ SourceFailed(i) = [work EXCEPT ![i] = w] /\ AtFile(w)
                               /\ w.at \in {"inspect", "release"} /\ (w.at = "inspect" => w.from = 0)
<1>1. work[i] \in WorkStates /\ AtFile(work[i])
  BY DEF Typed
<1>2. CASE work[i].src = offered
  <2>1. SourceFailed(i) = [work EXCEPT ![i] = [work[i] EXCEPT !.at = "release"]]
    BY <1>2 DEF SourceFailed
  <2>2. "release" \in Steps \ (Loading \cup {"file"})
    BY DEF Steps, Loading
  <2>3. [work[i] EXCEPT !.at = "release"].at = "release"
    BY <1>1 DEF WorkStates
  <2> QED
    BY <1>1, <2>1, <2>2, <2>3, NextWork
<1>3. CASE work[i].src # offered
  <2> DEFINE w == [work[i] EXCEPT !.at = "inspect", !.src = 2, !.from = 0, !.body = "none"]
  <2>1. SourceFailed(i) = [work EXCEPT ![i] = w]
    BY <1>3 DEF SourceFailed
  <2>2. w \in WorkStates /\ w.at = "inspect" /\ w.from = 0 /\ w.src = 2 /\ w.file = work[i].file
    <3>1. "inspect" \in Steps \cup {"idle"} /\ 0 \in 0..2 /\ 2 \in 0..2 /\ "none" \in Version \cup {"none"}
      BY DEF Steps
    <3> QED
      BY <1>1, <3>1 DEF WorkStates
  <2> HIDE DEF w
  <2>3. AtFile(w)
    BY <1>1, <2>2 DEF AtFile, Loading, Sources
  <2> QED
    BY <2>1, <2>2, <2>3
<1> QED
  BY <1>2, <1>3

LEMMA LockParts ==
  ASSUME PartsInv, ~clashed, NEW i \in Installers,
         \/ BeginInstall(i) \/ CreateLock(i) \/ WritePid(i) \/ JudgeLock(i) \/ TakeLock(i) \/ Release(i)
         \/ CheckStaged(i) \/ ClearModel(i) \/ Dies(i)
  PROVE  Typed' /\ AllContinue'
<1> DEFINE places == {"lock", "judge", "take", "pid", "verify", "check", "clear", "publish", "release"}
<1>1. Typed /\ AllContinue /\ work[i] \in WorkStates /\ AtFile(work[i]) /\ Continues(work[i])
  BY DEF PartsInv, Typed, AllContinue
<1>2. places \subseteq Steps \ (Loading \cup {"file"})
  BY DEF Steps, Loading
<1>3. /\ UNCHANGED <<offered, serves, tagged, staged>>
      /\ model' \in {"none", "lacking", "damaged", "whole"} /\ mishaps' \in 0..MaxMishaps
  BY <1>1, MishapsAssumption DEF Typed, BeginInstall, CreateLock, WritePid, JudgeLock, TakeLock, Release, CheckStaged,
     ClearModel, Dies, FilesStay, SourcesStay, Unlocked, Mishap
<1>4. \/ \E at \in places : work' = [work EXCEPT ![i].at = at]
      \/ work' = [work EXCEPT ![i] = AtRest]
      \/ work' = work
  BY DEF BeginInstall, CreateLock, WritePid, JudgeLock, TakeLock, Release, CheckStaged, ClearModel,
     Dies, Then
<1>5. CASE \E at \in places : work' = [work EXCEPT ![i].at = at]
  <2>1. PICK at \in places : work' = [work EXCEPT ![i].at = at]
    BY <1>5
  <2>2. work' = [work EXCEPT ![i] = [work[i] EXCEPT !.at = at]]
    BY <2>1
  <2> QED
    BY <1>1, <1>2, <1>3, <2>2, NextWork, MoveParts
<1>6. CASE work' = [work EXCEPT ![i] = AtRest]
  BY <1>1, <1>3, <1>6, NextWork, MoveParts
<1>7. CASE work' = work
  <2>1. work' = [work EXCEPT ![i] = work[i]]
    BY <1>1, <1>7 DEF Typed
  <2> QED
    BY <1>1, <1>3, <2>1, MoveParts
<1> QED
  BY <1>4, <1>5, <1>6, <1>7

LEMMA LookAgainParts ==
  ASSUME PartsInv, ~clashed, NEW i \in Installers, LookAgain(i)
  PROVE  Typed' /\ AllContinue'
<1>1. Typed /\ AllContinue /\ work[i] \in WorkStates /\ AtFile(work[i])
  BY DEF PartsInv, Typed
<1>2. UNCHANGED <<offered, serves, tagged, staged, model, mishaps>>
  BY DEF LookAgain, FilesStay, SourcesStay
<1>3. model' \in {"none", "lacking", "damaged", "whole"} /\ mishaps' \in 0..MaxMishaps
  BY <1>1, <1>2 DEF Typed
<1>4. CASE work' = [work EXCEPT ![i].at = "release"]
  <2>1. work' = [work EXCEPT ![i] = [work[i] EXCEPT !.at = "release"]]
    BY <1>4
  <2>2. "release" \in Steps \ (Loading \cup {"file"})
    BY DEF Steps, Loading
  <2> QED
    BY <1>1, <1>2, <1>3, <2>1, <2>2, NextWork, MoveParts
<1>5. CASE work' = OnFile(i, 1)
  BY <1>1, <1>2, <1>3, <1>5, NextFileWork, MoveParts, FilesAssumption
<1> QED
  BY <1>4, <1>5 DEF LookAgain

LEMMA NextFileParts ==
  ASSUME PartsInv, ~clashed, NEW i \in Installers, NextFile(i)
  PROVE  Typed' /\ AllContinue'
<1>1. Typed /\ AllContinue /\ work[i] \in WorkStates /\ AtFile(work[i]) /\ work[i].at = "file"
  BY DEF PartsInv, Typed, NextFile, Now
<1>2. UNCHANGED <<offered, serves, tagged, staged, model, mishaps>>
  BY DEF NextFile, FilesStay, SourcesStay
<1>3. model' \in {"none", "lacking", "damaged", "whole"} /\ mishaps' \in 0..MaxMishaps
  BY <1>1, <1>2 DEF Typed
<1>4. work[i].file \in 1..Files
  BY <1>1 DEF AtFile
<1>5. CASE work' = OnFile(i, work[i].file + 1)
  <2>1. work[i].file + 1 \in 1..(Files + 1)
    BY <1>4, FilesAssumption
  <2> QED
    BY <1>1, <1>2, <1>3, <1>5, <2>1, NextFileWork, MoveParts
<1>6. CASE work' = [work EXCEPT ![i].at = "inspect", ![i].src = 1]
  <2> DEFINE w == [work[i] EXCEPT !.at = "inspect", !.src = 1]
  <2>1. work' = [work EXCEPT ![i] = w]
    BY <1>6
  <2>2. w \in WorkStates /\ w.at = "inspect" /\ w.src = 1 /\ w.file = work[i].file /\ w.from = work[i].from
    <3>1. "inspect" \in Steps \cup {"idle"} /\ 1 \in 0..2
      BY DEF Steps
    <3> QED
      BY <1>1, <3>1 DEF WorkStates
  <2> HIDE DEF w
  <2>3. AtFile(w) /\ Continues(w)
    BY <1>1, <1>4, <2>2 DEF AtFile, Loading, Sources, Continues, AllContinue
  <2> QED
    BY <1>1, <1>2, <1>3, <2>1, <2>2, <2>3, MoveParts
<1> QED
  BY <1>5, <1>6 DEF NextFile


(* What a step at a file does to the two: the frame of the lemmas below.      *)
LEMMA AtPart ==
  ASSUME PartsInv, NEW i \in Installers, work[i].at \in Loading
  PROVE  /\ Typed /\ work[i] \in WorkStates /\ AtFile(work[i]) /\ work[i].file \in 1..Files
         /\ staged[work[i].file] \in FileStates /\ Len(staged[work[i].file].part) \in 0..2
         /\ staged[work[i].file].part \in Seq(Version) /\ NoFile \in FileStates /\ NoFile.part = <<>>
         /\ ~clashed => Continues(work[i])
<1>1. Typed /\ work[i] \in WorkStates /\ AtFile(work[i]) /\ work[i].file \in 1..Files
  BY DEF PartsInv, Typed, AtFile
<1>2. staged[work[i].file] \in FileStates /\ Len(staged[work[i].file].part) \in 0..2
  BY <1>1 DEF Typed
<1>3. staged[work[i].file].part \in Seq(Version)
  BY <1>2 DEF FileStates
<1>4. NoFile \in FileStates /\ NoFile.part = <<>>
  BY DEF NoFile, FileStates
<1> QED
  BY <1>1, <1>2, <1>3, <1>4 DEF PartsInv, AllContinue

LEMMA InspectParts ==
  ASSUME PartsInv, ~clashed, NEW i \in Installers, Inspect(i)
  PROVE  Typed' /\ AllContinue'
<1>1. work[i].at = "inspect" /\ work[i].at \in Loading
  BY DEF Inspect, Now, Loading
<1>2. /\ Typed /\ work[i] \in WorkStates /\ AtFile(work[i]) /\ work[i].file \in 1..Files
      /\ staged[work[i].file] \in FileStates /\ Len(staged[work[i].file].part) \in 0..2
      /\ NoFile \in FileStates /\ NoFile.part = <<>> /\ work[i].from = 0
  BY <1>1, AtPart DEF Continues
<1>3. UNCHANGED <<offered, serves, tagged, model, mishaps>>
  BY DEF Inspect, Unlocked, SourcesStay
<1>4. CASE Resumable(i)
  <2>1. work' = [work EXCEPT ![i] = [work[i] EXCEPT !.at = "head"]] /\ staged' = staged
    BY <1>4 DEF Inspect, Then
  <2>2. model' \in {"none", "lacking", "damaged", "whole"} /\ mishaps' \in 0..MaxMishaps
    BY <1>2, <1>3 DEF Typed
  <2> QED
    BY <1>1, <1>2, <1>3, <2>1, <2>2, NextWork, MoveParts DEF PartsInv
<1>5. CASE ~Resumable(i)
  <2> DEFINE w == [work[i] EXCEPT !.at = "get"]
             v == IF PartOf(i) = <<>> THEN staged[work[i].file] ELSE NoFile
  <2>1. work' = [work EXCEPT ![i] = w] /\ staged' = [staged EXCEPT ![work[i].file] = v]
    BY <1>5 DEF Inspect, Then, SetFile
  <2>2. w \in WorkStates /\ w.at = "get" /\ w.file = work[i].file /\ w.src = work[i].src /\ w.from = 0
    BY <1>2 DEF WorkStates, Steps
  <2>3. v \in FileStates /\ v.part = <<>>
    BY <1>2 DEF PartOf
  <2> HIDE DEF w, v
  <2>4. AtFile(w)
    BY <1>1, <1>2, <2>2 DEF AtFile, Loading
  <2>5. Fits(w, work[i].file, v)
    BY <2>2, <2>3 DEF Fits
  <2> QED
    BY <1>1, <1>3, <2>1, <2>2, <2>4, <2>5, WriteParts
<1> QED
  BY <1>4, <1>5

LEMMA AskHeadParts ==
  ASSUME PartsInv, ~clashed, NEW i \in Installers, AskHead(i)
  PROVE  Typed' /\ AllContinue'
<1>1. work[i].at = "head" /\ work[i].at \in Loading
  BY DEF AskHead, Now, Loading
<1>2. /\ Typed /\ work[i] \in WorkStates /\ AtFile(work[i]) /\ work[i].file \in 1..Files
      /\ staged[work[i].file] \in FileStates /\ Len(staged[work[i].file].part) \in 0..2
      /\ NoFile \in FileStates /\ NoFile.part = <<>>
  BY <1>1, AtPart
<1> DEFINE same == \E m \in MetaOf(i) : m.tag = Tag(work[i].src)
           from == IF same THEN Len(PartOf(i)) ELSE 0
           w == [work[i] EXCEPT !.at = "get", !.from = from]
           v == IF same THEN staged[work[i].file] ELSE NoFile
<1>3. work' = [work EXCEPT ![i] = w] /\ staged' = [staged EXCEPT ![work[i].file] = v]
  BY DEF AskHead, SetFile
<1>4. UNCHANGED <<offered, serves, tagged, model, mishaps>>
  BY DEF AskHead, Unlocked, SourcesStay
<1> HIDE DEF same
<1>5. v \in FileStates /\ from = Len(v.part) /\ from \in 0..2 /\ Len(v.part) \in 0..2
  <2>1. CASE same
    BY <1>2, <2>1 DEF PartOf
  <2>2. CASE ~same
    <3>1. from = 0 /\ v = NoFile /\ Len(<<>>) = 0
      BY <2>2
    <3> HIDE DEF from, v
    <3> QED
      BY <1>2, <3>1
  <2> QED
    BY <2>1, <2>2
<1> HIDE DEF from, v
<1>6. w \in WorkStates /\ w.at = "get" /\ w.file = work[i].file /\ w.src = work[i].src /\ w.from = from
  <2>1. "get" \in Steps \cup {"idle"}
    BY DEF Steps
  <2> QED
    BY <1>2, <1>5, <2>1 DEF WorkStates
<1> HIDE DEF w
<1>7. AtFile(w)
  BY <1>1, <1>2, <1>6 DEF AtFile, Loading
<1>8. Fits(w, work[i].file, v)
  BY <1>5, <1>6 DEF Fits
<1> QED
  BY <1>1, <1>3, <1>4, <1>6, <1>7, <1>8, WriteParts

LEMMA AnswerGetParts ==
  ASSUME PartsInv, ~clashed, NEW i \in Installers, AnswerGet(i)
  PROVE  Typed' /\ AllContinue'
<1>1. work[i].at = "get" /\ work[i].at \in Loading
  BY DEF AnswerGet, Now, Loading
<1>2. /\ Typed /\ work[i] \in WorkStates /\ AtFile(work[i]) /\ work[i].file \in 1..Files
      /\ staged[work[i].file] \in FileStates /\ Len(staged[work[i].file].part) \in 0..2
      /\ NoFile \in FileStates /\ NoFile.part = <<>> /\ Continues(work[i])
  BY <1>1, AtPart
<1>3. UNCHANGED <<offered, serves, tagged, model, mishaps>>
  BY DEF AnswerGet, Unlocked, SourcesStay
<1>4. model' \in {"none", "lacking", "damaged", "whole"} /\ mishaps' \in 0..MaxMishaps
  BY <1>2, <1>3 DEF Typed
<1>5. serves[work[i].src] \in Version
  BY <1>1, <1>2 DEF Typed, AtFile
<1>6. CASE work' = SourceFailed(i) /\ UNCHANGED staged
  <2>1. PICK w \in WorkStates : /\ SourceFailed(i) = [work EXCEPT ![i] = w] /\ AtFile(w)
                                /\ w.at \in {"inspect", "release"} /\ (w.at = "inspect" => w.from = 0)
    BY <1>1, <1>2, NextSourceWork
  <2>2. Continues(w)
    BY <2>1 DEF Continues
  <2> QED
    BY <1>2, <1>3, <1>4, <1>6, <2>1, <2>2, MoveParts DEF PartsInv
<1>7. CASE /\ work[i].from < 2 /\ UNCHANGED staged
           /\ work' = [work EXCEPT ![i].at = "body", ![i].body = serves[work[i].src]]
  <2> DEFINE w == [work[i] EXCEPT !.at = "body", !.body = serves[work[i].src]]
  <2>1. work' = [work EXCEPT ![i] = w]
    BY <1>7
  <2>2. /\ w \in WorkStates /\ w.at = "body" /\ w.file = work[i].file /\ w.src = work[i].src
        /\ w.body \in Version
    <3>1. "body" \in Steps \cup {"idle"} /\ 0 \in 0..2
      BY DEF Steps
    <3> QED
      BY <1>2, <1>5, <3>1 DEF WorkStates
  <2> HIDE DEF w
  <2>3. AtFile(w) /\ Continues(w)
    <3>1. work[i].from \in 0..1
      BY <1>2, <1>7 DEF WorkStates
    <3>2. Len(staged[work[i].file].part) \in 0..1
      BY <1>1, <1>2, <3>1 DEF Continues
    <3> QED
      BY <1>1, <1>2, <2>2, <3>2 DEF AtFile, Loading, Continues
  <2> QED
    BY <1>2, <1>3, <1>4, <1>7, <2>1, <2>2, <2>3, MoveParts DEF PartsInv
<1>8. CASE /\ SetFile(i, NoFile)
           /\ work' = [work EXCEPT ![i].at = "body", ![i].body = serves[work[i].src], ![i].from = 0]
  <2> DEFINE w == [work[i] EXCEPT !.at = "body", !.body = serves[work[i].src], !.from = 0]
  <2>1. work' = [work EXCEPT ![i] = w] /\ staged' = [staged EXCEPT ![work[i].file] = NoFile]
    BY <1>8 DEF SetFile
  <2>2. /\ w \in WorkStates /\ w.at = "body" /\ w.file = work[i].file /\ w.src = work[i].src
        /\ w.body \in Version
    <3>1. "body" \in Steps \cup {"idle"} /\ 0 \in 0..2
      BY DEF Steps
    <3> QED
      BY <1>2, <1>5, <3>1 DEF WorkStates
  <2> HIDE DEF w
  <2>3. AtFile(w)
    BY <1>1, <1>2, <2>2 DEF AtFile, Loading
  <2>4. Fits(w, work[i].file, NoFile)
    BY <1>2, <2>2 DEF Fits
  <2> QED
    BY <1>1, <1>3, <2>1, <2>2, <2>3, <2>4, WriteParts
<1> QED
  BY <1>6, <1>7, <1>8 DEF AnswerGet

LEMMA WritingParts ==
  ASSUME PartsInv, ~clashed, NEW i \in Installers, Write(i)
  PROVE  Typed' /\ AllContinue'
<1>1. work[i].at = "body" /\ work[i].at \in Loading
  BY DEF Write, Now, Loading
<1>2. /\ Typed /\ work[i] \in WorkStates /\ AtFile(work[i]) /\ work[i].file \in 1..Files
      /\ staged[work[i].file] \in FileStates /\ staged[work[i].file].part \in Seq(Version)
      /\ Len(staged[work[i].file].part) \in 0..2 /\ Continues(work[i])
  BY <1>1, AtPart
<1>3. UNCHANGED <<offered, serves, tagged, model, mishaps>>
  BY DEF Write, Unlocked, SourcesStay
<1>4. Len(PartOf(i)) \in 0..1 /\ work[i].body \in Version
  <2>1. Len(staged[work[i].file].part) \in 0..1 /\ work[i].body \in Version
    BY <1>1, <1>2 DEF Continues, AtFile
  <2> QED
    BY <1>2, <2>1 DEF PartOf
<1> DEFINE at == IF Len(PartOf(i)) = 1 THEN "meta" ELSE "body"
           w == [work[i] EXCEPT !.at = at]
           v == [staged[work[i].file] EXCEPT !.part = Append(@, work[i].body)]
<1>5. work' = [work EXCEPT ![i] = w] /\ staged' = [staged EXCEPT ![work[i].file] = v]
  BY DEF Write, Then
<1>6. v \in FileStates /\ v.part = Append(PartOf(i), work[i].body)
  <2>1. Append(staged[work[i].file].part, work[i].body) \in Seq(Version)
    BY <1>2, <1>4
  <2> QED
    BY <1>2, <2>1 DEF FileStates, PartOf
<1>7. Len(v.part) = Len(PartOf(i)) + 1
  BY <1>2, <1>4, <1>6 DEF PartOf
<1>8. /\ w \in WorkStates /\ w.at = at /\ w.file = work[i].file /\ w.src = work[i].src
      /\ w.body = work[i].body /\ at \in {"meta", "body"} /\ (at = "body" => Len(v.part) \in 0..1)
  BY <1>2, <1>4, <1>7 DEF WorkStates, Steps
<1> HIDE DEF w, v, at
<1>9. AtFile(w)
  BY <1>1, <1>2, <1>4, <1>8 DEF AtFile, Loading
<1>10. Fits(w, work[i].file, v)
  <2>1. Len(v.part) \in 0..2
    <3>1. \A n \in 0..1 : n + 1 \in 0..2
      OBVIOUS
    <3> QED
      BY <1>4, <1>7, <3>1
  <2> QED
    BY <1>6, <1>8, <2>1 DEF Fits
<1> QED
  BY <1>1, <1>3, <1>5, <1>8, <1>9, <1>10, WriteParts

LEMMA WriteMetaParts ==
  ASSUME PartsInv, ~clashed, NEW i \in Installers, WriteMeta(i)
  PROVE  Typed' /\ AllContinue'
<1>1. work[i].at = "meta" /\ work[i].at \in Loading
  BY DEF WriteMeta, Now, Loading
<1>2. /\ Typed /\ work[i] \in WorkStates /\ AtFile(work[i]) /\ work[i].file \in 1..Files
      /\ staged[work[i].file] \in FileStates /\ Len(staged[work[i].file].part) \in 0..2
  BY <1>1, AtPart
<1>3. UNCHANGED <<offered, serves, tagged, model, mishaps>>
  BY DEF WriteMeta, Unlocked, SourcesStay
<1>4. work[i].src \in Sources /\ work[i].body \in Version
  BY <1>1, <1>2 DEF AtFile
<1> DEFINE tag == IF work[i].src \in tagged THEN work[i].body ELSE "none"
           w == [work[i] EXCEPT !.at = "hash"]
           v == [staged[work[i].file] EXCEPT !.meta = {[url |-> work[i].src, tag |-> tag]}]
<1>5. work' = [work EXCEPT ![i] = w] /\ staged' = [staged EXCEPT ![work[i].file] = v]
  BY DEF WriteMeta, Then
<1>6. v \in FileStates /\ v.part = staged[work[i].file].part
  BY <1>2, <1>4 DEF FileStates
<1>7. w \in WorkStates /\ w.at = "hash" /\ w.file = work[i].file /\ w.src = work[i].src
  BY <1>2 DEF WorkStates, Steps
<1> HIDE DEF w, v
<1>8. AtFile(w)
  BY <1>1, <1>2, <1>7 DEF AtFile, Loading
<1>9. Fits(w, work[i].file, v)
  <2>1. v \in FileStates /\ Len(v.part) \in 0..2
    BY <1>2, <1>6
  <2> QED
    BY <1>7, <2>1 DEF Fits
<1> QED
  BY <1>1, <1>3, <1>5, <1>7, <1>8, <1>9, WriteParts

LEMMA HashParts ==
  ASSUME PartsInv, ~clashed, NEW i \in Installers, Hash(i)
  PROVE  Typed' /\ AllContinue'
<1>1. work[i].at = "hash" /\ work[i].at \in Loading
  BY DEF Hash, Now, Loading
<1>2. /\ Typed /\ work[i] \in WorkStates /\ AtFile(work[i]) /\ work[i].file \in 1..Files
      /\ staged[work[i].file] \in FileStates /\ NoFile \in FileStates /\ NoFile.part = <<>>
  BY <1>1, AtPart
<1>3. UNCHANGED <<offered, serves, tagged, model, mishaps>>
  BY DEF Hash, Unlocked, SourcesStay
<1>4. CASE PartOf(i) = Whole
  <2> DEFINE v == [staged[work[i].file] EXCEPT !.part = <<>>, !.target = TRUE]
  <2>1. staged' = [staged EXCEPT ![work[i].file] = v] /\ work' = OnFile(i, work[i].file + 1)
    BY <1>4 DEF Hash
  <2>2. v \in FileStates /\ v.part = <<>>
    BY <1>2 DEF FileStates
  <2>3. work[i].file + 1 \in 1..(Files + 1)
    BY <1>2, FilesAssumption
  <2>4. PICK w \in WorkStates : /\ OnFile(i, work[i].file + 1) = [work EXCEPT ![i] = w] /\ AtFile(w)
                                /\ Continues(w) /\ w.at \in {"check", "file"}
    BY <1>2, <2>3, NextFileWork
  <2> HIDE DEF v
  <2>5. Fits(w, work[i].file, v)
    BY <2>2, <2>4 DEF Continues, Fits
  <2> QED
    BY <1>1, <1>3, <2>1, <2>4, <2>5, WriteParts
<1>5. CASE PartOf(i) # Whole
  <2>1. staged' = [staged EXCEPT ![work[i].file] = NoFile] /\ work' = SourceFailed(i)
    BY <1>5 DEF Hash, SetFile
  <2>2. PICK w \in WorkStates : /\ SourceFailed(i) = [work EXCEPT ![i] = w] /\ AtFile(w)
                                /\ w.at \in {"inspect", "release"} /\ (w.at = "inspect" => w.from = 0)
    BY <1>1, <1>2, NextSourceWork
  <2>3. Fits(w, work[i].file, NoFile)
    BY <1>2, <2>2 DEF Fits
  <2> QED
    BY <1>1, <1>3, <2>1, <2>2, <2>3, WriteParts
<1> QED
  BY <1>4, <1>5

(* The staging directory becomes the model: nothing is staged any more.       *)
LEMMA PublishParts ==
  ASSUME PartsInv, ~clashed, NEW i \in Installers, Publish(i)
  PROVE  Typed' /\ AllContinue'
<1>1. Typed /\ AllContinue /\ work[i] \in WorkStates /\ AtFile(work[i])
  BY DEF PartsInv, Typed
<1>2. work' = [work EXCEPT ![i] = [work[i] EXCEPT !.at = "release"]] /\ UNCHANGED <<offered, serves, tagged, mishaps>>
  BY DEF Publish, Then, Unlocked, SourcesStay
<1>3. "release" \in Steps \ (Loading \cup {"file"})
  BY DEF Steps, Loading
<1>4. model' \in {"none", "lacking", "damaged", "whole"} /\ mishaps' \in 0..MaxMishaps
  BY <1>1, <1>2 DEF Publish, Typed
<1>5. CASE staged' = staged
  BY <1>1, <1>2, <1>3, <1>4, <1>5, NextWork, MoveParts
<1>6. CASE staged' = [f \in 1..Files |-> NoFile]
  <2>1. ASSUME NEW j \in Installers PROVE work'[j].at \notin Loading
    <3>1. CASE j = i
      BY <1>1, <1>2, <3>1 DEF Typed, WorkStates, Loading
    <3>2. CASE j # i
      <4>1. work[i].at \in Inside
        BY DEF Publish, Now, Inside, Working
      <4>2. work[j].at \notin Loading
        BY <3>2, <4>1 DEF PartsInv, ModelInv, HoldersOwn, LockOK, Inside, Working, Loading
      <4> QED
        BY <1>1, <1>2, <3>2, <4>2 DEF Typed
    <3> QED
      BY <3>1, <3>2
  <2>2. ASSUME NEW j \in Installers PROVE work'[j] \in WorkStates /\ AtFile(work'[j])
    BY <1>1, <1>2, <1>3, NextWork DEF Typed
  <2>3. ASSUME NEW j \in Installers PROVE work'[j].at = "file" => work'[j].from = 0
    <3>1. CASE j = i
      BY <1>1, <1>2, <3>1 DEF Typed, WorkStates
    <3>2. CASE j # i
      BY <1>1, <1>2, <3>2 DEF Typed, AllContinue, Continues
    <3> QED
      BY <3>1, <3>2
  <2>4. NoFile \in FileStates /\ Len(NoFile.part) = 0
    BY DEF NoFile, FileStates
  <2>5. Typed'
    BY <1>1, <1>2, <1>4, <1>6, <2>2, <2>4 DEF Typed, AtFile
  <2>6. AllContinue'
    BY <2>1, <2>3 DEF AllContinue, Continues, Loading
  <2> QED
    BY <2>5, <2>6
<1> QED
  BY <1>5, <1>6 DEF Publish

LEMMA FailsParts ==
  ASSUME PartsInv, ~clashed, NEW i \in Installers, Fails(i)
  PROVE  Typed' /\ AllContinue'
<1>1. Typed /\ AllContinue /\ work[i] \in WorkStates /\ AtFile(work[i])
  BY DEF PartsInv, Typed
<1>2. UNCHANGED <<offered, serves, tagged, staged, model>>
  BY DEF Fails, FilesStay, SourcesStay
<1>3. model' \in {"none", "lacking", "damaged", "whole"} /\ mishaps' \in 0..MaxMishaps
  BY <1>1, <1>2, MishapsAssumption DEF Fails, Mishap, Typed
<1>4. CASE Then(i, "release")
  <2>1. work' = [work EXCEPT ![i] = [work[i] EXCEPT !.at = "release"]]
    BY <1>4 DEF Then
  <2>2. "release" \in Steps \ (Loading \cup {"file"})
    BY DEF Steps, Loading
  <2> QED
    BY <1>1, <1>2, <1>3, <2>1, <2>2, NextWork, MoveParts
<1>5. CASE Now(i, "meta") /\ Then(i, "hash")
  <2>1. work' = [work EXCEPT ![i] = [work[i] EXCEPT !.at = "hash"]] /\ work[i].at \in Loading
    BY <1>5 DEF Then, Now, Loading
  <2> QED
    BY <1>1, <1>2, <1>3, <2>1, NextWork, MoveParts
<1>6. CASE work[i].at \in {"get", "body", "hash"} /\ work' = SourceFailed(i)
  <2>1. work[i].at \in Loading
    BY <1>6 DEF Loading
  <2>2. PICK w \in WorkStates : /\ SourceFailed(i) = [work EXCEPT ![i] = w] /\ AtFile(w)
                                /\ w.at \in {"inspect", "release"} /\ (w.at = "inspect" => w.from = 0)
    BY <1>1, <2>1, NextSourceWork
  <2>3. Continues(w)
    BY <2>2 DEF Continues
  <2> QED
    BY <1>1, <1>2, <1>3, <1>6, <2>2, <2>3, MoveParts
<1> QED
  BY <1>4, <1>5, <1>6 DEF Fails

(* A source that changes, a lock that grows old, the user who removes.        *)
LEMMA OthersParts ==
  ASSUME PartsInv, ~clashed, LockGrowsOld \/ RemoveModel \/ \E s \in 1..offered : SourceChanges(s)
  PROVE  Typed' /\ AllContinue'
<1>1. Typed /\ AllContinue /\ UNCHANGED <<work, staged, offered, tagged>>
  BY DEF PartsInv, LockGrowsOld, RemoveModel, SourceChanges, FilesStay, SourcesStay
<1>2. model' \in {"none", "lacking", "damaged", "whole"} /\ mishaps' \in 0..MaxMishaps
  BY <1>1, MishapsAssumption
     DEF Typed, LockGrowsOld, RemoveModel, SourceChanges, FilesStay, Mishap
<1>3. serves' \in [Sources -> Version]
  BY <1>1 DEF Typed, LockGrowsOld, RemoveModel, SourceChanges, FilesStay, SourcesStay, Version
<1> QED
  BY <1>1, <1>2, <1>3 DEF Typed, AllContinue, AtFile, Continues

(* Until two installers clash, and when they do.                              *)
LEMMA PartsStep ==
  ASSUME PartsInv, ~clashed, ModelNext
  PROVE  Typed' /\ AllContinue'
<1>1. ASSUME NEW i \in Installers, BeginInstall(i) \/ InstallProceeds(i) \/ Fails(i) \/ Dies(i)
      PROVE  Typed' /\ AllContinue'
  <2>1. CASE InstallProceeds(i)
    BY <2>1, LockParts, LookAgainParts, NextFileParts, InspectParts, AskHeadParts, AnswerGetParts,
       WritingParts, WriteMetaParts, HashParts, PublishParts DEF InstallProceeds
  <2> QED
    BY <1>1, <2>1, LockParts, FailsParts
<1> QED
  BY <1>1, OthersParts DEF ModelNext

LEMMA PartsUntilClash ==
  ASSUME PartsInv, [~clashed /\ ModelNext]_modelVars
  PROVE  PartsInv'
<1>1. CASE UNCHANGED modelVars
  <2>1. ModelInv'
    BY <1>1, NextInstallInv DEF PartsInv
  <2> QED
    BY <1>1, <2>1 DEF PartsInv, modelVars, Typed, AllContinue, AtFile, Continues
<1>2. CASE ~clashed /\ ModelNext
  BY <1>2, PartsStep, NextInstallInv DEF PartsInv
<1> QED
  BY <1>1, <1>2

LEMMA PartsBegin == ModelInit => PartsInv
<1> SUFFICES ASSUME ModelInit PROVE PartsInv
  OBVIOUS
<1>1. AtRest \in WorkStates /\ AtRest.at = "idle"
  BY FilesAssumption DEF AtRest, WorkStates, Version
<1>2. NoFile \in FileStates /\ Len(NoFile.part) = 0
  BY DEF NoFile, FileStates
<1>3. \A i \in Installers : work[i] = AtRest
  BY DEF ModelInit
<1>4. \A i \in Installers : AtFile(work[i]) /\ Continues(work[i])
  BY <1>1, <1>3 DEF AtFile, Continues, Loading
<1>5. offered \in Sources /\ tagged \subseteq Sources
  BY DEF ModelInit, Sources
<1>6. Typed
  BY <1>1, <1>2, <1>4, <1>5, MishapsAssumption DEF ModelInit, Typed, Version
<1> QED
  BY <1>4, <1>6, InitInstallInv DEF PartsInv, AllContinue

LEMMA PartsAreTyped ==
  ASSUME PartsInv PROVE ModelTypeOK
<1>1. \A f \in 1..Files :
       /\ staged[f].target \in BOOLEAN /\ Len(staged[f].part) \in 0..2
       /\ staged[f].meta \subseteq [url : Sources, tag : Version \cup {"none"}]
  <2> SUFFICES ASSUME NEW f \in 1..Files
               PROVE  /\ staged[f].target \in BOOLEAN /\ Len(staged[f].part) \in 0..2
                      /\ staged[f].meta \subseteq [url : Sources, tag : Version \cup {"none"}]
    OBVIOUS
  <2>1. staged[f] \in FileStates /\ Len(staged[f].part) \in 0..2
    BY DEF PartsInv, Typed
  <2>2. staged[f].target \in BOOLEAN /\ staged[f].meta \in SUBSET [url : Sources, tag : Version \cup {"none"}]
    BY <2>1 DEF FileStates
  <2> QED
    BY <2>1, <2>2
<1>2. \A l \in lockFile : l.by \in Installers /\ {l.pid, l.dead, l.old} \subseteq BOOLEAN
  BY DEF PartsInv, ModelInv, LockOK
<1>3. \A i \in Installers : work[i].at \in Steps \cup {"idle"}
  BY DEF PartsInv, ModelInv, WorkOK
<1> QED
  BY <1>1, <1>2, <1>3 DEF PartsInv, ModelInv, Typed, ModelTypeOK

(* What is asked of a source continues what is there of the file, a partial   *)
(* file is never longer than the file, and every variable keeps its type:     *)
(* until two installers clash, whose writes would come one after the other    *)
(* (Download, downloads.go:60).                                               *)
THEOREM PartsFit == ModelSpec => [](~clashed => ModelTypeOK /\ AllContinue)
<1> DEFINE Inv == ModelInv /\ (~clashed => PartsInv)
<1>1. ModelInit => Inv
  BY PartsBegin DEF PartsInv
<1>2. Inv /\ [ModelNext]_modelVars => Inv'
  <2> SUFFICES ASSUME Inv, [ModelNext]_modelVars PROVE Inv'
    OBVIOUS
  <2>1. ModelInv'
    BY NextInstallInv
  <2>2. ASSUME ~clashed' PROVE Typed' /\ AllContinue'
    <3>1. ~clashed
      BY <2>2 DEF modelVars, ModelNext, InstallProceeds, LockGrowsOld, RemoveModel, SourceChanges, BeginInstall,
         CreateLock, WritePid, JudgeLock, TakeLock, Release, LookAgain, NextFile, Inspect, AskHead,
         AnswerGet, Write, WriteMeta, Hash, CheckStaged, ClearModel, Publish, Fails, Dies, Unlocked
    <3>2. CASE UNCHANGED modelVars
      BY <3>1, <3>2 DEF PartsInv, modelVars, Typed, AllContinue, AtFile, Continues
    <3> QED
      BY <3>1, <3>2, PartsStep
  <2> QED
    BY <2>1, <2>2 DEF PartsInv
<1>3. Inv => (~clashed => ModelTypeOK /\ AllContinue)
  BY PartsAreTyped DEF PartsInv
<1> HIDE DEF Inv
<1> QED
  BY <1>1, <1>2, <1>3, PTL DEF ModelSpec

------------------------------------------------------------------------------
(* The native dependencies.                                                   *)

(* The stages of installWindowsFFmpeg, installMacOSFFmpeg and                 *)
(* installWindowsWhisperCPP; elsewhere nothing is installed.                  *)
WindowsRow == {"prepare", "fetch", "sum", "tar", "dotnet", "clear", "copy", "test", "record"}
MacRow == {"prepare", "fetch", "gunzip", "trial", "clear", "copy", "record"}
WhisperRow == {"fetch", "powershell", "tar", "dotnet", "clear", "copy", "record"}

Row == IF dep = "ffmpeg"
       THEN IF platform = "win32" THEN WindowsRow ELSE IF platform = "darwin" THEN MacRow ELSE {}
       ELSE IF platform = "win32" THEN WhisperRow ELSE {}

(* Where an install of ffmpeg is with bytes that its platform has checked.    *)
Vetted == {"tar", "dotnet", "clear", "copy", "test", "record"}

Checked(t) == t.bytes # "broken" /\ (platform = "win32" => t.bytes = "sound")

OnCourse(t) ==
  /\ t \in Task
  /\ t.stage \in Row \cup {"none"}
  /\ t.hung # "no" => t.stage # "none"
  /\ dep = "ffmpeg" /\ t.stage \in Vetted => Checked(t)

(* A call that looks has asked for something.                                 *)
AsksOK == /\ asks \in [Requests -> {"none", "install", "packages"}]
          /\ looks \in [Requests -> {"none", "config", "private", "path", "manager"}]
          /\ \A r \in Requests : looks[r] # "none" => asks[r] # "none"

InstallInv ==
  /\ NativeTypeOK /\ AsksOK
  /\ OneInstall
  /\ \A r \in Requests : OnCourse(task[r])

(* What is published of ffmpeg, but for a copy under way, runs; on Windows it *)
(* is the pair whose checksum was published.  macOS has no checksum: a pair   *)
(* that is not the published one and runs with -version is published          *)
(* (installWindowsFFmpeg and installMacOSFFmpeg, nativeDependencies.ts).      *)
PublishedIsChecked ==
  dep = "ffmpeg" => bin # "broken" /\ (platform = "win32" => bin # "works")

-------------------------------------------------------------------------------
(* The tasks.                                                                 *)

(* One task changes and remains one, or has been none and becomes one.        *)
LEMMA TaskFrame ==
  ASSUME InstallInv, NEW r \in Requests, NEW t, OnCourse(t),
         task' = [task EXCEPT ![r] = t], installTask' \in Requests \cup {NoRequest},
         \A q \in Requests : (IF q = r THEN t ELSE task[q]).stage # "none" <=> installTask' = q,
         installState' \in [installing : BOOLEAN, installedNow : BOOLEAN],
         custom' \in {"unset", "pair", "gone"}, onPath' \in BOOLEAN,
         bin' \in {"none", "partial", "broken", "works", "whole"},
         AsksOK', UNCHANGED hostVars
  PROVE  InstallInv'
<1>1. task \in [Requests -> Task] /\ t \in Task BY DEF InstallInv, NativeTypeOK, OnCourse
<1>2. task' \in [Requests -> Task] BY <1>1
<1>3. \A q \in Requests : task'[q] = IF q = r THEN t ELSE task[q] BY <1>1
<1>4. NativeTypeOK' BY <1>2 DEF InstallInv, NativeTypeOK, AsksOK, hostVars
<1>5. OneInstall' BY <1>3 DEF OneInstall
<1>6. Row' = Row BY DEF Row, hostVars
<1>7. ASSUME NEW q \in Requests PROVE OnCourse(task[q])'
  <2>1. OnCourse(task'[q]) BY <1>3 DEF InstallInv
  <2> QED BY <1>6, <2>1 DEF OnCourse, Checked, hostVars
<1> QED BY <1>4, <1>5, <1>7 DEF InstallInv

(* A task goes on: only the stage, the bytes or the disk change.              *)
LEMMA TaskGoesOn ==
  ASSUME InstallInv, NEW r \in Requests, task[r].stage # "none",
         NEW t, OnCourse(t), t.stage # "none", task' = [task EXCEPT ![r] = t],
         bin' \in {"none", "partial", "broken", "works", "whole"},
         UNCHANGED <<hostVars, custom, onPath, installState, installTask, askVars>>
  PROVE  InstallInv'
<1>1. \A q \in Requests : (IF q = r THEN t ELSE task[q]).stage # "none" <=> installTask = q
  BY DEF InstallInv, OneInstall
<1>2. /\ installTask \in Requests \cup {NoRequest}
      /\ installState \in [installing : BOOLEAN, installedNow : BOOLEAN]
      /\ custom \in {"unset", "pair", "gone"} /\ onPath \in BOOLEAN
  BY DEF InstallInv, NativeTypeOK
<1>3. UNCHANGED <<installTask, installState, custom, onPath, hostVars>> /\ AsksOK'
  BY DEF askVars, InstallInv, AsksOK
<1> QED BY <1>1, <1>2, <1>3, TaskFrame

LEMMA NoTaskOnCourse == OnCourse(NoTask)
BY DEF OnCourse, NoTask, Task, Stage, Bytes, Hung, Vetted

(* The finally and the catch: the task that ends is the one of installTask.   *)
LEMMA TaskIsOver ==
  ASSUME InstallInv, NEW r \in Requests, task[r].stage # "none", NEW b \in BOOLEAN,
         TaskOver(r, b), UNCHANGED <<hostVars, diskVars, askVars>>
  PROVE  InstallInv'
<1>1. \A q \in Requests : (IF q = r THEN NoTask ELSE task[q]).stage # "none" <=> NoRequest = q
  BY NoRequestAssumption DEF InstallInv, OneInstall, NoTask
<1>2. installState' \in [installing : BOOLEAN, installedNow : BOOLEAN] BY DEF TaskOver
<1>3. /\ custom \in {"unset", "pair", "gone"} /\ onPath \in BOOLEAN
      /\ bin \in {"none", "partial", "broken", "works", "whole"}
  BY DEF InstallInv, NativeTypeOK
<1>4. UNCHANGED <<custom, onPath, bin, hostVars>> /\ AsksOK'
  BY DEF askVars, diskVars, InstallInv, AsksOK
<1>5. task' = [task EXCEPT ![r] = NoTask] /\ installTask' = NoRequest BY DEF TaskOver
<1> QED BY <1>1, <1>2, <1>3, <1>4, <1>5, TaskFrame, NoTaskOnCourse

(* The stage s may follow for a task.                                         *)
LEMMA NextStage ==
  ASSUME NEW t, OnCourse(t), NEW s \in Row, dep = "ffmpeg" /\ s \in Vetted => Checked(t)
  PROVE  LET u == [t EXCEPT !.stage = s] IN OnCourse(u) /\ u.stage = s
<1>1. s \in Stage /\ s # "none" BY DEF Row, WindowsRow, MacRow, WhisperRow, Stage
<1> QED BY <1>1 DEF OnCourse, Task, Checked

LEMMA PrepareKeeps ==
  ASSUME InstallInv, NEW r \in Requests, Prepare(r) PROVE InstallInv'
<1>1. PICK way \in {"aria2", "https"} :
        task' = [task EXCEPT ![r] = [task[r] EXCEPT !.stage = "fetch", !.way = way]]
  BY DEF Prepare
<1>2. OnCourse(task[r]) /\ task[r].stage = "prepare" BY DEF InstallInv, Prepare, Runs
<1>3. OnCourse([task[r] EXCEPT !.stage = "fetch", !.way = way])
  BY <1>2 DEF OnCourse, Task, Stage, Row, WindowsRow, MacRow, WhisperRow, Vetted
<1>4. [task[r] EXCEPT !.stage = "fetch", !.way = way].stage # "none"
  BY <1>2 DEF OnCourse, Task
<1>5. UNCHANGED <<hostVars, diskVars, installState, installTask, askVars>> BY DEF Prepare, Stay
<1> QED BY <1>1, <1>2, <1>3, <1>4, <1>5, TaskGoesOn DEF InstallInv, NativeTypeOK, diskVars

LEMMA DownloadKeeps ==
  ASSUME InstallInv, NEW r \in Requests, Download(r) PROVE InstallInv'
<1> DEFINE t == task[r]
           u(bytes) == [t EXCEPT !.stage = Successor(t), !.bytes = Worse(t.bytes, bytes)]
<1>1. PICK bytes \in Bytes : task' = [task EXCEPT ![r] = u(bytes)] BY DEF Download, Bytes
<1>2. OnCourse(t) /\ t.stage \in {"fetch", "powershell"}
  <2>1. Runs(r, "fetch") \/ Runs(r, "powershell") BY Zenon DEF Download
  <2> QED BY <2>1 DEF Runs, InstallInv
<1>3. Successor(t) \in Row \cap Stage /\ (dep = "ffmpeg" => Successor(t) \notin Vetted)
  BY <1>2 DEF InstallInv, NativeTypeOK, OnCourse, Successor, WinFFmpeg, Row, WindowsRow, MacRow,
              WhisperRow, Vetted, Stage
<1>4. u(bytes) \in Task
  <2>1. t \in Task /\ Worse(t.bytes, bytes) \in Bytes BY <1>2 DEF OnCourse, Task, Worse, Bytes
  <2> QED BY <1>3, <2>1 DEF Task
<1>5. u(bytes).stage = Successor(t) /\ u(bytes).hung = t.hung
  BY <1>2 DEF OnCourse, Task
<1>6. Successor(t) # "none" BY <1>3 DEF Row, WindowsRow, MacRow, WhisperRow
<1>7. OnCourse(u(bytes)) BY <1>3, <1>4, <1>5, <1>6 DEF OnCourse
<1>8. UNCHANGED <<hostVars, diskVars, installState, installTask, askVars>> BY DEF Download, Stay
<1> QED BY <1>1, <1>2, <1>5, <1>6, <1>7, <1>8, TaskGoesOn DEF InstallInv, NativeTypeOK, diskVars

LEMMA UnpackKeeps ==
  ASSUME InstallInv, NEW r \in Requests, Unpack(r) PROVE InstallInv'
<1> DEFINE t == task[r]
           u == [t EXCEPT !.stage = Successor(t), !.left = Before(t.left)]
<1>1. task' = [task EXCEPT ![r] = u] BY DEF Unpack
<1>2. OnCourse(t) /\ t.stage \in {"tar", "dotnet", "gunzip"}
  <2>1. \E s \in {"tar", "dotnet", "gunzip"} : Runs(r, s) BY Zenon DEF Unpack
  <2> QED BY <2>1 DEF Runs, InstallInv
<1>3. Successor(t) \in Row \cap Stage /\ (dep = "ffmpeg" /\ Successor(t) \in Vetted => Checked(t))
  BY <1>2 DEF InstallInv, NativeTypeOK, OnCourse, Successor, WinFFmpeg, Row, WindowsRow, MacRow,
              WhisperRow, Vetted, Stage
<1>4. u \in Task
  <2>1. t \in Task /\ t.left \in 0..1 BY <1>2 DEF OnCourse, Task
  <2>2. Before(t.left) \in 0..1 BY <2>1 DEF Before
  <2> QED BY <1>3, <2>1, <2>2 DEF Task
<1>5. u.stage = Successor(t) /\ u.hung = t.hung /\ u.bytes = t.bytes
  BY <1>2 DEF OnCourse, Task
<1>6. Successor(t) # "none" BY <1>3 DEF Row, WindowsRow, MacRow, WhisperRow
<1>7. OnCourse(u) BY <1>3, <1>4, <1>5, <1>6 DEF OnCourse, Checked
<1>8. UNCHANGED <<hostVars, diskVars, installState, installTask, askVars>> BY DEF Unpack, Stay
<1> QED BY <1>1, <1>2, <1>5, <1>6, <1>7, <1>8, TaskGoesOn DEF InstallInv, NativeTypeOK, diskVars

(* An action that sends the task of r to the stage s.                         *)
LEMMA ToKeeps ==
  ASSUME InstallInv, NEW r \in Requests, task[r].stage # "none", NEW s \in Row,
         dep = "ffmpeg" /\ s \in Vetted => Checked(task[r]), To(r, s), Stay,
         bin' \in {"none", "partial", "broken", "works", "whole"},
         UNCHANGED <<hostVars, custom, onPath, askVars>>
  PROVE  InstallInv'
<1>1. OnCourse(task[r]) /\ s # "none"
  BY DEF InstallInv, Row, WindowsRow, MacRow, WhisperRow
<1>2. task' = [task EXCEPT ![r] = [task[r] EXCEPT !.stage = s]] BY DEF To
<1> QED BY <1>1, <1>2, NextStage, TaskGoesOn DEF Stay

LEMMA ChecksumKeeps ==
  ASSUME InstallInv, NEW r \in Requests, Checksum(r) PROVE InstallInv'
<1>1. OnCourse(task[r]) /\ task[r].stage = "sum" BY DEF InstallInv, Checksum, Runs
<1>2. "tar" \in Row BY <1>1 DEF OnCourse, Row, WindowsRow, MacRow, WhisperRow
<1> QED BY <1>1, <1>2, ToKeeps, TaskIsOver
        DEF Checksum, ChecksumMatches, Checked, InstallInv, NativeTypeOK, diskVars

LEMMA TryKeeps ==
  ASSUME InstallInv, NEW r \in Requests, Try(r) PROVE InstallInv'
<1>1. OnCourse(task[r]) /\ task[r].stage \in {"trial", "test"} BY DEF InstallInv, Try, Runs
<1>2. Successor(task[r]) \in Row
  BY <1>1 DEF OnCourse, Successor, Row, WindowsRow, MacRow, WhisperRow
<1>3. dep = "ffmpeg" /\ task[r].bytes # "broken" => Checked(task[r])
  BY <1>1 DEF OnCourse, Checked, Vetted, Row, WindowsRow, MacRow
<1> QED BY <1>1, <1>2, <1>3, ToKeeps, TaskIsOver DEF Try, InstallInv, NativeTypeOK, diskVars

LEMMA ClearBinKeeps ==
  ASSUME InstallInv, NEW r \in Requests, ClearBin(r) PROVE InstallInv'
<1>1. OnCourse(task[r]) /\ task[r].stage = "clear" BY DEF InstallInv, ClearBin, Runs
<1>2. "copy" \in Row /\ (dep = "ffmpeg" => Checked(task[r]))
  BY <1>1 DEF OnCourse, Row, WindowsRow, MacRow, WhisperRow, Vetted
<1> QED BY <1>1, <1>2, ToKeeps DEF ClearBin

LEMMA EndCopyKeeps ==
  ASSUME InstallInv, NEW r \in Requests, EndCopy(r) PROVE InstallInv'
<1>1. OnCourse(task[r]) /\ task[r].stage = "copy" BY DEF InstallInv, EndCopy, Runs
<1>2. /\ Successor(task[r]) \in Row
      /\ dep = "ffmpeg" => Checked(task[r])
  BY <1>1 DEF InstallInv, NativeTypeOK, OnCourse, Successor, WinFFmpeg, Row, WindowsRow, MacRow,
              WhisperRow, Vetted
<1>3. bin' \in {"none", "partial", "broken", "works", "whole"}
  BY <1>1 DEF EndCopy, OnCourse, Task, Bytes
<1> QED BY <1>1, <1>2, <1>3, ToKeeps DEF EndCopy

LEMMA StageFailsKeeps ==
  ASSUME InstallInv, NEW r \in Requests, task[r].stage # "none", StageFails(r),
         UNCHANGED <<hostVars, diskVars, askVars>>
  PROVE  InstallInv'
<1> DEFINE t == task[r]
           u == [t EXCEPT !.stage = Fallback(t), !.way = "https", !.hung = "no"]
<1>1. CASE Fallback(t) = "none" BY <1>1, TaskIsOver DEF StageFails
<1>2. CASE Fallback(t) # "none"
  <2>1. task' = [task EXCEPT ![r] = u] /\ Stay BY <1>2 DEF StageFails
  <2>2. OnCourse(t) BY DEF InstallInv
  <2>3. /\ Fallback(t) \in Row \cap Stage
        /\ dep = "ffmpeg" /\ Fallback(t) \in Vetted => Checked(t)
    BY <1>2, <2>2 DEF OnCourse, Fallback, WinFFmpeg, InstallInv, NativeTypeOK,
       Row, WindowsRow, MacRow, WhisperRow, Vetted, Stage
  <2>4. u \in Task /\ u.stage = Fallback(t) /\ u.hung = "no" /\ u.bytes = t.bytes
    BY <2>2, <2>3 DEF OnCourse, Task, Hung
  <2>5. OnCourse(u) BY <2>3, <2>4 DEF OnCourse, Checked
  <2> QED BY <1>2, <2>1, <2>4, <2>5, TaskGoesOn DEF Stay, InstallInv, NativeTypeOK, diskVars
<1> QED BY <1>1, <1>2

LEMMA HangKeeps ==
  ASSUME InstallInv, NEW r \in Requests, Hang(r) PROVE InstallInv'
<1> DEFINE u(how) == [task[r] EXCEPT !.hung = how]
<1>1. OnCourse(task[r]) /\ task[r].stage # "none" BY DEF InstallInv, Hang, IsChild, WithAria2
<1>2. PICK how \in Hung : task' = [task EXCEPT ![r] = u(how)] BY DEF Hang, Hung
<1>3. OnCourse(u(how)) /\ u(how).stage = task[r].stage BY <1>1 DEF OnCourse, Task, Checked
<1> QED BY <1>1, <1>2, <1>3, TaskGoesOn DEF Hang, Stay, InstallInv, NativeTypeOK, diskVars

LEMMA TaskKeeps ==
  ASSUME InstallInv, NEW r \in Requests, TaskStep(r) \/ StageThrows(r) \/ Hang(r)
  PROVE  InstallInv'
<1>1. CASE BeginCopy(r)
  <2>1. OnCourse(task[r])' <=> OnCourse(task[r]) BY <1>1 DEF BeginCopy, hostVars, installVars, OnCourse, Checked, Row
  <2> QED BY <1>1, <2>1 DEF BeginCopy, hostVars, installVars, askVars, InstallInv, NativeTypeOK,
          AsksOK, OneInstall, OnCourse, Checked, Row
<1>2. CASE Record(r)
  BY <1>2, TaskIsOver DEF Record, Runs
<1>3. CASE Watchdog(r)
  <2>1. task[r].stage # "none" BY <1>3 DEF Watchdog, InstallInv, OnCourse
  <2> QED BY <1>3, <2>1, StageFailsKeeps DEF Watchdog
<1>4. CASE StageThrows(r) BY <1>4, StageFailsKeeps DEF StageThrows
<1> QED BY <1>1, <1>2, <1>3, <1>4, PrepareKeeps, DownloadKeeps, ChecksumKeeps, UnpackKeeps, TryKeeps,
        ClearBinKeeps, EndCopyKeeps, HangKeeps DEF TaskStep

-------------------------------------------------------------------------------
(* The calls.                                                                 *)

(* A step that leaves the tasks alone.                                        *)
LEMMA TasksStay ==
  ASSUME InstallInv, NativeTypeOK', AsksOK', UNCHANGED <<task, installTask, hostVars>>
  PROVE  InstallInv'
<1>1. Row' = Row BY DEF Row, hostVars
<1> QED BY <1>1 DEF InstallInv, OneInstall, OnCourse, Checked, hostVars

LEMMA CallFrame ==
  ASSUME InstallInv, UNCHANGED installVars, AsksOK', custom' \in {"unset", "pair", "gone"},
         onPath' \in BOOLEAN, UNCHANGED <<bin, hostVars>>
  PROVE  InstallInv'
<1>1. NativeTypeOK' BY DEF InstallInv, NativeTypeOK, installVars, hostVars, AsksOK
<1> QED BY <1>1, TasksStay DEF installVars

LEMMA TellKeeps ==
  ASSUME InstallInv, Tell, AsksOK', onPath' \in BOOLEAN, UNCHANGED <<custom, bin, hostVars>>
  PROVE  InstallInv'
<1>1. NativeTypeOK' BY DEF InstallInv, NativeTypeOK, Tell, hostVars, AsksOK
<1> QED BY <1>1, TasksStay DEF Tell

LEMMA ManagerOverKeeps ==
  ASSUME InstallInv, ManagerOver, AsksOK', onPath' \in BOOLEAN, UNCHANGED <<custom, bin, hostVars>>
  PROVE  InstallInv'
<1>1. installState' \in [installing : BOOLEAN, installedNow : BOOLEAN]
  BY DEF InstallInv, NativeTypeOK, ManagerOver
<1>2. NativeTypeOK' BY <1>1 DEF InstallInv, NativeTypeOK, ManagerOver, hostVars, AsksOK
<1> QED BY <1>2, TasksStay DEF ManagerOver

(* No task runs, and this platform installs: the new task is at its first     *)
(* stage.                                                                     *)
LEMMA StartKeeps ==
  ASSUME InstallInv, NEW r \in Requests, installTask = NoRequest, StartInstallTask(r),
         platform = "win32" \/ (dep = "ffmpeg" /\ platform = "darwin"),
         AsksOK', onPath' \in BOOLEAN, UNCHANGED <<custom, bin, hostVars>>
  PROVE  InstallInv'
<1> DEFINE first == IF dep = "ffmpeg" THEN "prepare" ELSE "fetch"
           more == IF platform = "darwin" THEN 1 ELSE 0
           t == [NoTask EXCEPT !.stage = first, !.left = more]
<1>1. task' = [task EXCEPT ![r] = t] /\ installTask' = r BY DEF StartInstallTask
<1>2. first \in Row /\ first # "none" /\ first \in Stage
  BY DEF Row, WindowsRow, MacRow, WhisperRow, Stage
<1>3. OnCourse(t) /\ t.stage # "none"
  <2>1. more \in 0..1 OBVIOUS
  <2> HIDE DEF first, more
  <2>2. t \in Task /\ t.stage = first /\ t.bytes = "sound" BY <1>2, <2>1 DEF NoTask, Task, Bytes, Hung
  <2> QED BY <1>2, <2>2 DEF OnCourse, Checked
<1>4. \A q \in Requests : (IF q = r THEN t ELSE task[q]).stage # "none" <=> installTask' = q
  BY <1>1, <1>3, NoRequestAssumption DEF InstallInv, OneInstall
<1>5. installState' \in [installing : BOOLEAN, installedNow : BOOLEAN] BY DEF StartInstallTask
<1>6. /\ custom' \in {"unset", "pair", "gone"}
      /\ bin' \in {"none", "partial", "broken", "works", "whole"}
  BY DEF InstallInv, NativeTypeOK
<1> HIDE DEF t
<1> QED BY <1>1, <1>3, <1>4, <1>5, <1>6, TaskFrame DEF AsksOK

LEMMA AnswerKeeps ==
  ASSUME InstallInv, NEW r \in Requests, NEW what \in {"install", "packages"}, NEW source,
         Answer(r, what, source), onPath' \in BOOLEAN, UNCHANGED <<custom, bin, hostVars>>
  PROVE  InstallInv'
<1>1. AsksOK' BY DEF Answer, AsksOK, InstallInv, NativeTypeOK
<1>2. custom \in {"unset", "pair", "gone"} BY DEF InstallInv, NativeTypeOK
<1>3. CASE what = "packages" BY <1>1, <1>3, ManagerOverKeeps DEF Answer
<1>4. CASE what = "install" /\ dep = "ffmpeg"
  <2>1. InstallDecides(r, source) BY <1>4 DEF Answer
  <2> QED BY <1>1, <1>2, <1>4, <2>1, CallFrame, TellKeeps, StartKeeps DEF InstallDecides
<1>5. CASE what = "install" /\ dep = "whisper"
  <2>1. WhisperDecides(r, source # "missing") BY <1>5 DEF Answer
  <2> QED BY <1>1, <1>2, <1>5, <2>1, CallFrame, TellKeeps, StartKeeps DEF WhisperDecides
<1> QED BY <1>3, <1>4, <1>5 DEF InstallInv, NativeTypeOK

LEMMA LookKeeps ==
  ASSUME InstallInv, NEW r \in Requests, NEW what \in {"install", "packages"},
         Look(r, what), onPath' \in BOOLEAN, UNCHANGED <<custom, bin, hostVars>>
  PROVE  InstallInv'
<1>1. CASE dep = "ffmpeg" /\ (installTask # NoRequest \/ installState.installing)
  BY <1>1, AnswerKeeps DEF Look
<1>2. CASE ~(dep = "ffmpeg" /\ (installTask # NoRequest \/ installState.installing))
  <2>1. UNCHANGED installVars BY <1>2 DEF Look
  <2>2. AsksOK' BY <1>2 DEF Look, Await, AsksOK, InstallInv, NativeTypeOK
  <2>3. custom \in {"unset", "pair", "gone"} BY DEF InstallInv, NativeTypeOK
  <2> QED BY <2>1, <2>2, <2>3, CallFrame
<1> QED BY <1>1, <1>2

LEMMA LookStepKeeps ==
  ASSUME InstallInv, NEW r \in Requests, LookStep(r) PROVE InstallInv'
<1>1. onPath \in BOOLEAN /\ custom \in {"unset", "pair", "gone"} BY DEF InstallInv, NativeTypeOK
<1>2. ASSUME NEW s \in {"config", "private", "path"}, looks[r] = s
      PROVE  asks[r] \in {"install", "packages"}
  BY <1>2 DEF InstallInv, AsksOK
<1>3. ASSUME NEW s \in {"private", "path"}, Await(r, s), asks[r] # "none", UNCHANGED <<asks, installVars>>,
             UNCHANGED <<hostVars, diskVars>>
      PROVE  InstallInv'
  <2>1. AsksOK' BY <1>3 DEF Await, AsksOK, InstallInv
  <2> QED BY <1>1, <1>3, <2>1, CallFrame DEF diskVars
<1>4. CASE LookAtConfig(r)
  BY <1>1, <1>2, <1>3, <1>4, AnswerKeeps DEF LookAtConfig, diskVars
<1>5. CASE LookAtPrivate(r)
  BY <1>1, <1>2, <1>3, <1>5, AnswerKeeps DEF LookAtPrivate, diskVars
<1>6. CASE LookAtPath(r)
  BY <1>1, <1>2, <1>6, AnswerKeeps DEF LookAtPath, diskVars
<1>7. CASE ManagerEnds(r)
  <2>1. CASE onPath' = TRUE /\ Look(r, "packages") BY <1>7, <2>1, LookKeeps DEF ManagerEnds
  <2>2. CASE /\ asks' = [asks EXCEPT ![r] = "none"] /\ Await(r, "none")
             /\ ManagerOver /\ UNCHANGED onPath
    <3>1. AsksOK' BY <2>2 DEF Await, AsksOK, InstallInv, NativeTypeOK
    <3> QED BY <1>1, <1>7, <2>2, <3>1, ManagerOverKeeps DEF ManagerEnds
  <2> QED BY <1>7, <2>1, <2>2 DEF ManagerEnds
<1> QED BY <1>4, <1>5, <1>6, <1>7 DEF LookStep

LEMMA CallKeeps ==
  ASSUME InstallInv, NEW r \in Requests,
         Install(r) \/ SetFFmpegDirectory(r) \/ ClearFFmpegDirectory(r) \/ InstallWithManager(r)
  PROVE  InstallInv'
<1>1. onPath \in BOOLEAN /\ custom \in {"unset", "pair", "gone"} BY DEF InstallInv, NativeTypeOK
<1>2. CASE Install(r) BY <1>1, <1>2, LookKeeps DEF Install, diskVars
<1>3. CASE SetFFmpegDirectory(r) \/ ClearFFmpegDirectory(r)
  <2>1. AsksOK' BY <1>3 DEF SetFFmpegDirectory, ClearFFmpegDirectory, askVars, InstallInv, AsksOK
  <2> QED BY <1>1, <1>3, <2>1, CallFrame DEF SetFFmpegDirectory, ClearFFmpegDirectory
<1>4. CASE InstallWithManager(r)
  <2>1. AsksOK' BY <1>4 DEF InstallWithManager, Await, InstallInv, AsksOK
  <2>2. installState' \in [installing : BOOLEAN, installedNow : BOOLEAN]
    BY <1>4 DEF InstallWithManager
  <2>3. NativeTypeOK'
    BY <1>4, <2>1, <2>2 DEF InstallWithManager, diskVars, hostVars, InstallInv, NativeTypeOK, AsksOK
  <2> QED BY <1>4, <2>1, <2>3, TasksStay DEF InstallWithManager
<1> QED BY <1>2, <1>3, <1>4

LEMMA InstallInit == ASSUME NativeInit PROVE InstallInv
<1>1. AsksOK BY DEF NativeInit, AsksOK
<1>2. task = [r \in Requests |-> NoTask] /\ NoTask \in Task /\ NoTask.stage = "none"
  BY DEF NativeInit, NoTask, Task, Stage, Bytes, Hung
<1>3. installTask = NoRequest /\ installState \in [installing : BOOLEAN, installedNow : BOOLEAN]
  BY DEF NativeInit
<1>4. NativeTypeOK BY <1>1, <1>2, <1>3 DEF NativeInit, NativeTypeOK, AsksOK
<1>5. OneInstall BY <1>2, <1>3, NoRequestAssumption DEF OneInstall
<1>6. \A r \in Requests : OnCourse(task[r]) BY <1>2, NoTaskOnCourse
<1> QED BY <1>1, <1>4, <1>5, <1>6 DEF InstallInv

LEMMA InstallStep == ASSUME InstallInv, [NativeNext]_nativeVars PROVE InstallInv'
<1>1. CASE UNCHANGED nativeVars
  <2>1. NativeTypeOK' /\ AsksOK'
    BY <1>1 DEF nativeVars, hostVars, diskVars, installVars, askVars, InstallInv, NativeTypeOK, AsksOK
  <2> QED BY <1>1, <2>1, TasksStay DEF nativeVars, hostVars, installVars
<1> QED BY <1>1, CallKeeps, LookStepKeeps, TaskKeeps DEF NativeNext

(* The inductive invariant of the installer, for any requests and children.   *)
THEOREM InstallInvariant == NativeSpec => []InstallInv
<1>1. NativeInit => InstallInv BY InstallInit
<1>2. InstallInv /\ [NativeNext]_nativeVars => InstallInv' BY InstallStep
<1> QED BY <1>1, <1>2, PTL DEF NativeSpec

(* At most one install runs, the one of installTask: calls look at the disk   *)
(* before they decide, and none of them starts a second one.                  *)
THEOREM OneInstallHolds == NativeSpec => []OneInstall
<1>1. InstallInv => OneInstall BY DEF InstallInv
<1> QED BY <1>1, InstallInvariant, PTL

(* The types of what nativeDependencies.ts keeps and of the disk.             *)
THEOREM NativeTypeCorrect == NativeSpec => []NativeTypeOK
<1>1. InstallInv => NativeTypeOK BY DEF InstallInv
<1> QED BY <1>1, InstallInvariant, PTL

-------------------------------------------------------------------------------
(* What becomes of the published pair.                                        *)

(* The bin directory changes in three actions.                                *)
LEMMA BinChanges ==
  ASSUME NEW r \in Requests, bin' # bin,
         \/ Install(r) \/ SetFFmpegDirectory(r) \/ ClearFFmpegDirectory(r) \/ InstallWithManager(r)
         \/ LookStep(r) \/ TaskStep(r) \/ StageThrows(r) \/ Hang(r)
  PROVE  ClearBin(r) \/ BeginCopy(r) \/ EndCopy(r)
<1>1. ~Install(r) /\ ~SetFFmpegDirectory(r) /\ ~ClearFFmpegDirectory(r) /\ ~InstallWithManager(r)
  BY DEF Install, SetFFmpegDirectory, ClearFFmpegDirectory, InstallWithManager, diskVars
<1>2. ~LookStep(r)
  BY DEF LookStep, LookAtConfig, LookAtPrivate, LookAtPath, ManagerEnds, diskVars
<1>3. ~StageThrows(r) /\ ~Hang(r) BY DEF StageThrows, Hang, diskVars
<1>4. /\ ~Prepare(r) /\ ~Download(r) /\ ~Checksum(r) /\ ~Unpack(r)
      /\ ~Try(r) /\ ~Record(r) /\ ~Watchdog(r)
  BY DEF Prepare, Download, Checksum, Unpack, Try, Record, Watchdog, diskVars
<1> QED BY <1>1, <1>2, <1>3, <1>4 DEF TaskStep

LEMMA HostStays == ASSUME [NativeNext]_nativeVars PROVE UNCHANGED hostVars
BY DEF NativeNext, nativeVars, Install, SetFFmpegDirectory, ClearFFmpegDirectory, InstallWithManager,
       LookStep, LookAtConfig, LookAtPrivate, LookAtPath, ManagerEnds, TaskStep, Prepare, Download,
       Checksum, Unpack, Try, ClearBin, BeginCopy, EndCopy, Record, Watchdog, StageThrows, Hang

(* An ffmpeg pair that runs is taken away only when another was checked:      *)
(* published bytes on Windows, a pair that runs on macOS.                     *)
THEOREM SoundBeforeReplacedHolds == NativeSpec => SoundBeforeReplaced
<1> DEFINE Replaces == dep = "ffmpeg" /\ bin \in {"whole", "works"} /\ bin' # bin
           AtHand == \E r \in Requests : /\ task[r].stage = "clear" /\ task[r].bytes # "broken"
                                         /\ platform = "win32" => task[r].bytes = "sound"
<1>1. InstallInv /\ [NativeNext]_nativeVars => [Replaces => AtHand]_nativeVars
  <2>1. SUFFICES ASSUME InstallInv, NativeNext, Replaces PROVE AtHand
    OBVIOUS
  <2>2. PICK r \in Requests : ClearBin(r) \/ BeginCopy(r) \/ EndCopy(r)
    BY <2>1, BinChanges DEF NativeNext
  <2>3. task[r].stage = "clear" BY <2>1, <2>2 DEF ClearBin, BeginCopy, EndCopy, Runs
  <2>4. OnCourse(task[r]) BY <2>1 DEF InstallInv
  <2>5. Checked(task[r]) BY <2>1, <2>3, <2>4 DEF OnCourse, Vetted
  <2> QED BY <2>3, <2>5 DEF Checked
<1> QED BY <1>1, InstallInvariant, PTL DEF NativeSpec, SoundBeforeReplaced

(* Whatever bytes arrive: a pair that does not run is never published, nor on *)
(* Windows one that is not the published one.                                 *)
THEOREM PublishedIsCheckedHolds == NativeSpec => []PublishedIsChecked
<1>1. NativeInit => PublishedIsChecked BY DEF NativeInit, PublishedIsChecked
<1>2. InstallInv /\ PublishedIsChecked /\ [NativeNext]_nativeVars => PublishedIsChecked'
  <2>1. SUFFICES ASSUME InstallInv, PublishedIsChecked, [NativeNext]_nativeVars, dep' = "ffmpeg"
                 PROVE  bin' # "broken" /\ (platform' = "win32" => bin' # "works")
    BY DEF PublishedIsChecked
  <2>2. CASE bin' = bin BY <2>1, <2>2, HostStays DEF PublishedIsChecked, hostVars
  <2>3. CASE bin' # bin
    <3>1. PICK r \in Requests : ClearBin(r) \/ BeginCopy(r) \/ EndCopy(r)
      BY <2>1, <2>3, BinChanges DEF NativeNext, nativeVars, diskVars
    <3>2. CASE ClearBin(r) \/ BeginCopy(r) BY <3>2 DEF ClearBin, BeginCopy
    <3>3. CASE EndCopy(r)
      <4>1. OnCourse(task[r]) /\ task[r].stage = "copy" /\ dep = "ffmpeg" /\ platform' = platform
        BY <2>1, <3>3 DEF InstallInv, EndCopy, Runs, hostVars
      <4>2. Checked(task[r]) BY <4>1 DEF OnCourse, Vetted
      <4>3. task[r].bytes \in Bytes BY <4>1 DEF OnCourse, Task
      <4> QED BY <3>3, <4>1, <4>2, <4>3 DEF EndCopy, Checked, Bytes
    <3> QED BY <3>1, <3>2, <3>3
  <2> QED BY <2>2, <2>3
<1> QED BY <1>1, <1>2, InstallInvariant, PTL DEF NativeSpec

-------------------------------------------------------------------------------
(* The environment that App shows.                                            *)

EnvSets == {{}} \cup {{e} : e \in Env}
ReadStates ==
  [for : Asks \cup {"none"}, at : {"idle", "sent", "asked", "viewed", "answered", "delay"},
   pair : Looks, env : EnvSets]
EnvInv ==
  /\ tasked \in BOOLEAN /\ found \in BOOLEAN /\ front \in Fronts /\ touches \in 0..MaxTouches
  /\ shown \in EnvSets /\ reads \in [Reads -> ReadStates]

LEMMA ReadsBegin ==
  NoRead \in ReadStates /\ [NoRead EXCEPT !.for = "poll", !.at = "delay"] \in ReadStates
    /\ \A what \in Asks : ReadFor(what) \in ReadStates
BY DEF NoRead, ReadStates, EnvSets, Asks, Looks, ReadFor

(* A read goes on in a state of its type.                                     *)
LEMMA ReadGoesOn ==
  ASSUME EnvInv, NEW r \in Reads, NEW v \in ReadStates, reads' = [reads EXCEPT ![r] = v]
  PROVE  reads' \in [Reads -> ReadStates]
BY DEF EnvInv

LEMMA EnvStep ==
  ASSUME EnvInv, [EnvNext]_envVars
  PROVE  EnvInv'
<1>1. CASE UNCHANGED envVars
  BY <1>1 DEF EnvInv, envVars
<1>2. CASE TaskEnds
  BY <1>2 DEF EnvInv, TaskEnds, AppWaits
<1>3. ASSUME NEW target \in Fronts, GoTo(target) PROVE EnvInv'
  BY <1>3, TouchesAssumption DEF EnvInv, GoTo, Touch, MainStays
<1>4. ASSUME NEW r \in Reads PROVE reads[r] \in ReadStates
  BY DEF EnvInv
<1>5. ASSUME NEW r \in Reads, NEW what \in Asks, Asked(r, what)
      PROVE  reads' \in [Reads -> ReadStates] /\ UNCHANGED <<tasked, found>>
  BY <1>5, ReadsBegin, ReadGoesOn DEF Asked, MainStays
<1>6. ASSUME NEW r \in Reads, Serve(r) PROVE EnvInv'
  <2>1. reads' = [reads EXCEPT ![r] = [reads[r] EXCEPT !.at = "asked"]]
    BY <1>6 DEF Serve, Goes
  <2>2. [reads[r] EXCEPT !.at = "asked"] \in ReadStates
    BY <1>4 DEF ReadStates
  <2>3. tasked' \in BOOLEAN /\ found' \in BOOLEAN /\ UNCHANGED <<shown, front, touches>>
    BY <1>6 DEF Serve, AppWaits, EnvInv
  <2>4. reads' \in [Reads -> ReadStates]
    BY <2>1, <2>2, ReadGoesOn
  <2> QED
    BY <2>3, <2>4 DEF EnvInv
<1>7. ASSUME NEW r \in Reads, ViewPair(r) PROVE EnvInv'
  <2>1. FFmpegNow \in Looks
    BY DEF FFmpegNow, Looks
  <2>2. reads' = [reads EXCEPT ![r] = [reads[r] EXCEPT !.at = "viewed", !.pair = FFmpegNow]]
    BY <1>7 DEF ViewPair
  <2>3. [reads[r] EXCEPT !.at = "viewed", !.pair = FFmpegNow] \in ReadStates
    BY <1>4, <2>1 DEF ReadStates
  <2>4. reads' \in [Reads -> ReadStates]
    BY <2>2, <2>3, ReadGoesOn
  <2> QED
    BY <1>7, <2>4 DEF ViewPair, AppWaits, EnvInv
<1>8. ASSUME NEW r \in Reads, LookAndAnswer(r) PROVE EnvInv'
  <2>1. PICK up \in BOOLEAN :
          reads' = [reads EXCEPT ![r].at = "answered",
                      ![r].env = {[pair |-> reads[r].pair, ffmpeg |-> FFmpegNow, up |-> up]}]
    BY <1>8 DEF LookAndAnswer
  <2> DEFINE e == [pair |-> reads[r].pair, ffmpeg |-> FFmpegNow, up |-> up]
  <2>2. e \in Env
    BY <1>4 DEF ReadStates, Env, FFmpegNow, Looks
  <2>3. {e} \in EnvSets
    BY <2>2 DEF EnvSets
  <2> HIDE DEF e
  <2>4. reads' = [reads EXCEPT ![r] = [reads[r] EXCEPT !.at = "answered", !.env = {e}]]
    BY <2>1 DEF e
  <2>5. [reads[r] EXCEPT !.at = "answered", !.env = {e}] \in ReadStates
    BY <1>4, <2>3 DEF ReadStates
  <2>6. reads' \in [Reads -> ReadStates]
    BY <2>4, <2>5, ReadGoesOn
  <2> QED
    BY <1>8, <2>6 DEF LookAndAnswer, AppWaits, EnvInv
<1>9. ASSUME NEW r \in Reads, Shown(r) PROVE EnvInv'
  <2>1. shown' \in EnvSets /\ front' \in Fronts /\ UNCHANGED <<touches, tasked, found>>
    BY <1>4, <1>9 DEF Shown, ReadStates, MainStays, EnvInv, Fronts
  <2>2. reads' \in [Reads -> ReadStates]
    BY <1>9, ReadsBegin, ReadGoesOn DEF Shown
  <2> QED
    BY <2>1, <2>2 DEF EnvInv
<1>10. ASSUME NEW r \in Reads, PollAgain(r) \/ GiveUp(r) PROVE EnvInv'
  <2>1. ReadFor("poll") \in ReadStates /\ NoRead \in ReadStates
    BY ReadsBegin DEF Asks
  <2>2. reads' \in [Reads -> ReadStates]
    BY <1>10, <2>1, ReadGoesOn DEF PollAgain, GiveUp
  <2> QED
    BY <1>10, <2>2 DEF PollAgain, GiveUp, MainStays, EnvInv
<1>11. ASSUME NEW r \in Reads, CallThrows(r) PROVE EnvInv'
  <2>1. {Nothing} \in EnvSets
    BY DEF Nothing, EnvSets, Env, Looks
  <2>2. reads' \in [Reads -> ReadStates]
    BY <1>11, ReadsBegin, ReadGoesOn DEF CallThrows
  <2> QED
    BY <1>11, <2>1, <2>2 DEF CallThrows, MainStays, EnvInv
<1>12. ASSUME NEW r \in Reads, Tick(r) PROVE EnvInv'
  <2>1. "load" \in Asks
    BY DEF Asks
  <2> QED
    BY <1>5, <1>12, <2>1 DEF Tick, EnvInv
<1>13. ASSUME NEW r \in Reads, ClickInstall(r) PROVE EnvInv'
  <2>1. "install" \in Asks
    BY DEF Asks
  <2>2. \A e \in Env : [e EXCEPT !.pair = "installing", !.ffmpeg = "installing"] \in Env
    BY DEF Env, Looks
  <2>3. shown' \in EnvSets
    <3> DEFINE f(e) == [e EXCEPT !.pair = "installing", !.ffmpeg = "installing"]
    <3>1. shown' = {f(e) : e \in shown}
      BY <1>13 DEF ClickInstall
    <3>2. shown = {} \/ \E e \in Env : shown = {e}
      BY DEF EnvInv, EnvSets
    <3>3. \A e \in Env : f(e) \in Env
      BY <2>2
    <3> HIDE DEF f
    <3>4. CASE shown = {}
      BY <3>1, <3>4 DEF EnvSets
    <3>5. ASSUME NEW e \in Env, shown = {e} PROVE shown' \in EnvSets
      <4>1. shown' = {f(e)}
        BY <3>1, <3>5
      <4> QED
        BY <3>3, <4>1 DEF EnvSets
    <3> QED
      BY <3>2, <3>4, <3>5
  <2>4. touches' \in 0..MaxTouches
    <3>1. Touch("install")
      BY <1>13 DEF ClickInstall
    <3> QED
      BY <3>1, TouchesAssumption DEF Touch, EnvInv
  <2> QED
    BY <1>5, <1>13, <2>1, <2>3, <2>4 DEF ClickInstall, EnvInv
<1>14. ASSUME NEW r \in Reads, NEW act \in Asks, ClickAsk(r, act) PROVE EnvInv'
  <2>1. touches' \in 0..MaxTouches
    BY <1>14, TouchesAssumption DEF ClickAsk, Touch, EnvInv
  <2> QED
    BY <1>5, <1>14, <2>1 DEF ClickAsk, EnvInv
<1> QED
  BY <1>1, <1>2, <1>3, <1>6, <1>7, <1>8, <1>9, <1>10, <1>11, <1>12, <1>13, <1>14 DEF EnvNext, EnvProgress

LEMMA EnvBegin == EnvInit => EnvInv
<1> SUFFICES ASSUME EnvInit PROVE EnvInv
  OBVIOUS
<1>1. \A r \in Reads : reads[r] \in ReadStates
  BY ReadsBegin DEF EnvInit, Asks
<1>2. reads \in [Reads -> ReadStates]
  BY <1>1 DEF EnvInit
<1> QED
  BY <1>2, TouchesAssumption DEF EnvInit, EnvInv, EnvSets, Fronts

LEMMA EnvIsTyped ==
  ASSUME EnvInv PROVE EnvTypeOK
<1>1. \A r \in Reads : reads[r] \in ReadStates
  BY DEF EnvInv
<1>2. \A s \in {shown} \cup {reads[r].env : r \in Reads} : s \in EnvSets
  BY <1>1 DEF EnvInv, ReadStates
<1> QED
  BY <1>1, <1>2 DEF EnvInv, EnvTypeOK, ReadStates, EnvSets

(* What App shows of the environment, and what its functions wait for, keeps  *)
(* its type: at most one view, of a pair, a look and a health.                *)
THEOREM EnvTypeCorrect == EnvSpec => []EnvTypeOK
BY EnvBegin, EnvStep, EnvIsTyped, PTL DEF EnvSpec

==============================================================================
