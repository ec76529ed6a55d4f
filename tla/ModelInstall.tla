---------------------------- MODULE ModelInstall ----------------------------
(***************************************************************************)
(* The installation of one model (models/install.go, downloads.go): the    *)
(* lock file, the staging directory, downloads that resume a partial file, *)
(* and the publication of the staged model.  The installers are jobs of    *)
(* daemons and runs of `models install`, in processes of their own: what   *)
(* they share is files, and a process may die between any two file         *)
(* operations.                                                             *)
(*                                                                         *)
(* A content is two halves of a version each; "right" is the version whose *)
(* hash the manifest has.                                                  *)
(***************************************************************************)
EXTENDS Naturals, Sequences

CONSTANTS
  Installers, \* processes that install the model
  Files,      \* the number of files of the model
  MaxMishaps  \* bound: crashes, failures, changes of a source, removals

ASSUME FilesAssumption == Files \in Nat
ASSUME MishapsAssumption == MaxMishaps \in Nat

VARIABLES
  model,      \* the directory of the model
  staged,     \* [1..Files -> [part, meta, target]]: the staging directory
  lockFile,   \* the lock file: a set of at most one, {} for none
  work,       \* [Installers -> [at, file, from, src, body]]: how far each one is
  offered,    \* the number of sources of this model
  serves,     \* [Sources -> Version]: what a source has
  tagged,     \* the sources that send an ETag or Last-Modified
  mishaps,    \* how many there were
  clashed     \* history: two took the same lock for stale, or one that of a live one

modelVars == <<model, staged, lockFile, work, offered, serves, tagged, mishaps, clashed>>

(* huggingface.co and its mirror: candidateURLs.  Three of the built-in       *)
(* models have no mirror.                                                     *)
Sources == {1, 2}
Version == {"right", "other"}
Whole == <<"right", "right">>
AtRest == [at |-> "idle", file |-> 0, from |-> 0, src |-> 0, body |-> "none"]
NoFile == [part |-> <<>>, meta |-> {}, target |-> FALSE]

Steps == {"lock", "judge", "take", "pid", "verify", "file", "inspect", "head", "get", "body",
          "meta", "hash", "check", "clear", "publish", "release"}

ModelTypeOK ==
  /\ model \in {"none", "lacking", "damaged", "whole"}
  /\ \A f \in 1..Files :
       /\ staged[f].target \in BOOLEAN /\ Len(staged[f].part) \in 0..2
       /\ staged[f].meta \subseteq [url : Sources, tag : Version \cup {"none"}]
  /\ \A l \in lockFile : l.by \in Installers /\ {l.pid, l.dead, l.old} \subseteq BOOLEAN
  /\ \A i \in Installers : work[i].at \in Steps \cup {"idle"}
  /\ offered \in Sources /\ serves \in [Sources -> Version] /\ tagged \subseteq Sources
  /\ mishaps \in 0..MaxMishaps /\ clashed \in BOOLEAN

(* A model may lack files, or have one that does not match.                   *)
ModelInit ==
  /\ model \in {"none", "lacking", "damaged"} /\ lockFile = {} /\ mishaps = 0 /\ clashed = FALSE
  /\ staged = [f \in 1..Files |-> NoFile] /\ work = [i \in Installers |-> AtRest]
  /\ offered \in Sources /\ serves = [s \in Sources |-> "right"] /\ tagged \in SUBSET (1..offered)

Now(i, at) == work[i].at = at
Then(i, at) == work' = [work EXCEPT ![i].at = at]
SourcesStay == UNCHANGED <<offered, serves, tagged>>
FilesStay == UNCHANGED <<model, staged>> /\ SourcesStay
Mishap == mishaps < MaxMishaps /\ mishaps' = mishaps + 1

-------------------------------------------------------------------------------
(* The lock *)

(* Install looks at the model first: a model that is there is an answer, one  *)
(* that is damaged has to be removed by the user.                             *)
BeginInstall(i) ==
  /\ Now(i, "idle") /\ model \in {"none", "lacking"} /\ Then(i, "lock")
  /\ FilesStay /\ UNCHANGED <<lockFile, mishaps, clashed>>

(* acquireLock: the file is created, or it is there.                          *)
CreateLock(i) ==
  /\ Now(i, "lock")
  /\ IF lockFile = {}
     THEN lockFile' = {[by |-> i, pid |-> FALSE, dead |-> FALSE, old |-> FALSE]} /\ Then(i, "pid")
     ELSE UNCHANGED lockFile /\ Then(i, "judge")
  /\ FilesStay /\ UNCHANGED <<mishaps, clashed>>

(* The process id follows in a write of its own.                              *)
WritePid(i) ==
  /\ Now(i, "pid") /\ Then(i, "verify")
  /\ lockFile' = {IF l.by = i THEN [l EXCEPT !.pid = TRUE] ELSE l : l \in lockFile}
  /\ FilesStay /\ UNCHANGED <<mishaps, clashed>>

(* readLockPID and processExists.                                             *)
DeadLock(l) == l.pid /\ l.dead

(* A lock is stale when its process is gone, or when it is old.  That it has  *)
(* gone meanwhile is an error like that it is held.                           *)
JudgeLock(i) ==
  /\ Now(i, "judge")
  /\ \/ /\ \E l \in lockFile : DeadLock(l) \/ l.old
        /\ Then(i, "take")
        /\ clashed' = (clashed \/ (\E l \in lockFile : l.old /\ ~l.dead)
                           \/ \E j \in Installers \ {i} : Now(j, "take"))
     \/ /\ \A l \in lockFile : ~DeadLock(l) /\ ~l.old
        /\ work' = [work EXCEPT ![i] = AtRest] /\ UNCHANGED clashed
  /\ FilesStay /\ UNCHANGED <<lockFile, mishaps>>

(* The file that is removed is the one that is there now.                     *)
TakeLock(i) ==
  /\ Now(i, "take") /\ lockFile' = {} /\ Then(i, "lock")
  /\ FilesStay /\ UNCHANGED <<mishaps, clashed>>

Release(i) ==
  /\ Now(i, "release") /\ lockFile' = {} /\ work' = [work EXCEPT ![i] = AtRest]
  /\ FilesStay /\ UNCHANGED <<mishaps, clashed>>

(* 90 seconds for jobs, two hours for the command line.                       *)
LockGrowsOld ==
  /\ lockFile' = {[l EXCEPT !.old = TRUE] : l \in lockFile} /\ lockFile' # lockFile
  /\ FilesStay /\ UNCHANGED <<work, mishaps, clashed>>

-------------------------------------------------------------------------------
(* One file after the other *)

OnFile(i, f) == [work EXCEPT ![i] = [AtRest EXCEPT !.at = IF f > Files THEN "check" ELSE "file",
                                                !.file = f]]
(* Faulty: the look before the lock has to do.                                *)
LookAgainNever(i) ==
  /\ Now(i, "verify") /\ work' = OnFile(i, 1)
  /\ FilesStay /\ UNCHANGED <<lockFile, mishaps, clashed>>

(* With the lock the model is looked at again; a damaged one is replaced now. *)
LookAgain(i) ==
  /\ Now(i, "verify")
  /\ work' = IF model = "whole" THEN [work EXCEPT ![i].at = "release"] ELSE OnFile(i, 1)
  /\ FilesStay /\ UNCHANGED <<lockFile, mishaps, clashed>>

(* A file that is staged and right is not fetched again.                      *)
NextFile(i) ==
  /\ Now(i, "file")
  /\ work' = IF staged[work[i].file].target THEN OnFile(i, work[i].file + 1)
             ELSE [work EXCEPT ![i].at = "inspect", ![i].src = 1]
  /\ FilesStay /\ UNCHANGED <<lockFile, mishaps, clashed>>

(* The next source, or the end with an error: what was loaded stays.          *)
SourceFailed(i) ==
  IF work[i].src = offered THEN [work EXCEPT ![i].at = "release"]
  ELSE [work EXCEPT ![i] = [@ EXCEPT !.at = "inspect", !.src = 2, !.from = 0, !.body = "none"]]

PartOf(i) == staged[work[i].file].part
MetaOf(i) == staged[work[i].file].meta
Unlocked == SourcesStay /\ UNCHANGED <<lockFile, mishaps, clashed>>
SetFile(i, v) == staged' = [staged EXCEPT ![work[i].file] = v]
Tag(s) == IF s \in tagged THEN serves[s] ELSE "none"

(* Faulty: the metadata of another source will do.                            *)
ResumableByTag(i) == PartOf(i) # <<>> /\ \E m \in MetaOf(i) : m.tag # "none"

(* Download: a partial file is resumed only with metadata of this source.     *)
Resumable(i) ==
  PartOf(i) # <<>> /\ \E m \in MetaOf(i) : m.url = work[i].src /\ m.tag # "none"

Inspect(i) ==
  /\ Now(i, "inspect")
  /\ IF Resumable(i) THEN Then(i, "head") /\ UNCHANGED staged
     ELSE /\ Then(i, "get")
          /\ SetFile(i, IF PartOf(i) = <<>> THEN staged[work[i].file] ELSE NoFile)
  /\ UNCHANGED model /\ Unlocked

(* shouldRestartForMetadata asks whether the source still has that file.      *)
AskHead(i) ==
  /\ Now(i, "head")
  /\ LET same == \E m \in MetaOf(i) : m.tag = Tag(work[i].src)
     IN /\ work' = [work EXCEPT ![i].at = "get", ![i].from = IF same THEN Len(PartOf(i)) ELSE 0]
        /\ SetFile(i, IF same THEN staged[work[i].file] ELSE NoFile)
  /\ UNCHANGED model /\ Unlocked

(* The answer to the GET: the rest of the file, or the whole of it, which     *)
(* removes the part; a range behind the end is an error (416).                *)
AnswerGet(i) ==
  /\ Now(i, "get")
  /\ \/ work[i].from = 2 /\ work' = SourceFailed(i) /\ UNCHANGED staged
     \/ /\ work[i].from < 2 /\ UNCHANGED staged
        /\ work' = [work EXCEPT ![i].at = "body", ![i].body = serves[work[i].src]]
     \/ /\ work[i].from > 0 /\ SetFile(i, NoFile)
        /\ work' = [work EXCEPT ![i].at = "body", ![i].body = serves[work[i].src], ![i].from = 0]
  /\ UNCHANGED model /\ Unlocked

(* The body comes piece by piece, and is of one version.                      *)
Write(i) ==
  /\ Now(i, "body")
  /\ staged' = [staged EXCEPT ![work[i].file].part = Append(@, work[i].body)]
  /\ Then(i, IF Len(PartOf(i)) = 1 THEN "meta" ELSE "body")
  /\ UNCHANGED model /\ Unlocked

WriteMeta(i) ==
  /\ Now(i, "meta") /\ Then(i, "hash")
  /\ LET tag == IF work[i].src \in tagged THEN work[i].body ELSE "none"
     IN staged' = [staged EXCEPT ![work[i].file].meta = {[url |-> work[i].src, tag |-> tag]}]
  /\ UNCHANGED model /\ Unlocked

(* A part with the right hash gets the name of the file; another one is       *)
(* removed with its metadata.                                                 *)
Hash(i) ==
  /\ Now(i, "hash")
  /\ IF PartOf(i) = Whole
     THEN /\ work' = OnFile(i, work[i].file + 1)
          /\ staged' = [staged EXCEPT ![work[i].file].part = <<>>, ![work[i].file].target = TRUE]
     ELSE SetFile(i, NoFile) /\ work' = SourceFailed(i)
  /\ UNCHANGED model /\ Unlocked

-------------------------------------------------------------------------------
(* Publication *)

(* verifyDirectory of the staging directory; the store is looked at.          *)
CheckStaged(i) ==
  /\ Now(i, "check")
  /\ Then(i, IF \E f \in 1..Files : ~staged[f].target THEN "release"
             ELSE IF model = "none" THEN "publish" ELSE "clear")
  /\ FilesStay /\ UNCHANGED <<lockFile, mishaps, clashed>>

(* os.RemoveAll of an incomplete model, file by file.                         *)
ClearModel(i) ==
  /\ Now(i, "clear")
  /\ IF model \in {"whole", "damaged"} THEN model' = "lacking" /\ UNCHANGED work
     ELSE model' = "none" /\ Then(i, "publish")
  /\ UNCHANGED staged /\ Unlocked

(* os.Rename of the staging directory, and the last look at the model.        *)
Publish(i) ==
  /\ Now(i, "publish") /\ Then(i, "release")
  /\ IF model = "none" /\ (\A f \in 1..Files : staged[f].target)
     THEN model' = "whole" /\ staged' = [f \in 1..Files |-> NoFile]
     ELSE UNCHANGED <<model, staged>>
  /\ Unlocked

-------------------------------------------------------------------------------
(* Mishaps *)

(* A request, a read or a write fails, a rename is refused, the disk is full, *)
(* or the job is canceled, which fails every source.  Metadata that cannot be *)
(* written are done without.                                                  *)
Fails(i) ==
  /\ Mishap
  /\ \/ Now(i, "verify") /\ Then(i, "release")
     \/ work[i].at \in {"get", "body", "hash"} /\ work' = SourceFailed(i)
     \/ Now(i, "meta") /\ Then(i, "hash")
     \/ work[i].at \in {"get", "body", "clear", "publish"} /\ Then(i, "release")
  /\ FilesStay /\ UNCHANGED <<lockFile, clashed>>

(* A process dies; its lock is left.                                          *)
Dies(i) ==
  /\ Mishap /\ work[i].at # "idle" /\ work' = [work EXCEPT ![i] = AtRest]
  /\ lockFile' = {IF l.by = i THEN [l EXCEPT !.dead = TRUE] ELSE l : l \in lockFile}
  /\ FilesStay /\ UNCHANGED clashed

(* A source gets another version, or the right one again; one has it always.  *)
SourceChanges(s) ==
  /\ Mishap /\ \E t \in (1..offered) \ {s} : serves[t] = "right"
  /\ serves' = [serves EXCEPT ![s] = IF @ = "right" THEN "other" ELSE "right"]
  /\ UNCHANGED <<model, staged, lockFile, work, offered, tagged, clashed>>

(* Remove takes no lock.                                                      *)
RemoveModel ==
  /\ Mishap /\ model # "none" /\ model' \in {"lacking", "none"} /\ model' # model
  /\ UNCHANGED <<staged, lockFile, work, clashed>> /\ SourcesStay

-------------------------------------------------------------------------------
InstallProceeds(i) ==
  \/ CreateLock(i) \/ WritePid(i) \/ JudgeLock(i) \/ TakeLock(i) \/ Release(i)
  \/ LookAgain(i) \/ NextFile(i) \/ Inspect(i) \/ AskHead(i) \/ AnswerGet(i) \/ Write(i)
  \/ WriteMeta(i) \/ Hash(i) \/ CheckStaged(i) \/ ClearModel(i) \/ Publish(i)

ModelNext ==
  \/ LockGrowsOld \/ RemoveModel \/ \E s \in 1..offered : SourceChanges(s)
  \/ \E i \in Installers : BeginInstall(i) \/ InstallProceeds(i) \/ Fails(i) \/ Dies(i)

ModelSpec == ModelInit /\ [][ModelNext]_modelVars

(* Fairness: calls of the file system and requests end, time passes, and who  *)
(* wants the model asks again.                                                *)
OrphanGrowsOld == LockGrowsOld /\ \E l \in lockFile : l.dead

-------------------------------------------------------------------------------
(* Properties *)

(* A model that is there whole is taken away by the user only: not by an      *)
(* installer that saw it missing, came by the lock of the one that published  *)
(* it, and clears the place for its own; whoever dies where, also between the *)
(* creation of a lock and the writing of its process id.  No two installers   *)
(* may judge one stale lock at once, and none work for longer than a lock     *)
(* counts (install.go:209, install.go:331, runner.go:153).                    *)
InstalledIsKept == [][~clashed /\ model = "whole" => model' = "whole" \/ RemoveModel]_modelVars

(* The only source of a model has nothing behind the end of a part that is    *)
(* complete (416); nobody asks it for the whole, and no other is asked.       *)
OnlyRefuses ==
  /\ offered = 1 /\ \A i \in Installers : ~Now(i, "hash")
  /\ \E f \in 1..Files :
       /\ ~staged[f].target /\ Len(staged[f].part) = 2
       /\ staged[f].meta = {[url |-> 1, tag |-> serves[1]]}

(* Nothing that a crash or a failure leaves behind is in the way for ever: a  *)
(* lock, an incomplete model, a part that is complete, mixed or of another    *)
(* version, metadata of another source (install.go:214, downloads.go:206):    *)
(* but for a complete part of a model without a mirror.                       *)
InstallRecovers ==
  []<>(model \notin {"none", "lacking"} \/ clashed \/ OnlyRefuses)
=============================================================================
