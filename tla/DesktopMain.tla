---------------------------- MODULE DesktopMain ----------------------------
(***************************************************************************)
(* The client side of the Electron main process: MainDaemonFastSubClient   *)
(* and the IPC handlers around it, over the process manager of             *)
(* DaemonProcess.  A caller runs one operation at a time; an operation is  *)
(* a row of steps, each a request to the daemon, a repair of it, or a look *)
(* at the native dependencies, with an await in between.                   *)
(*                                                                         *)
(* JavaScript runs to completion: what follows a settled promise without   *)
(* an await in between happens before any other handler runs (Busy).       *)
(***************************************************************************)
EXTENDS DaemonProcess

CONSTANTS Menus,     \* the bound of what runs: functions [Callers -> SUBSET Op]
          MaxTries   \* the attempts of a stream; 4 in the code

ASSUME TriesAssumption == MaxTries \in Nat \ {0}

VARIABLES
  op,        \* [Callers -> Op]: the operation a caller runs
  step,      \* [Callers -> Step]: how far it is
  want,      \* [Callers -> ...]: whether the job of this call is to have an API key
  ref,       \* [Callers -> ...]: the secret reference, as the daemon that issued it
  keyed,     \* [Callers -> BOOLEAN]: the job of this call has its API key
  made,      \* [Callers -> Nat]: history: the jobs made by this call
  conn,      \* [Callers -> Pids or NoPid]: the connection of a stream
  tries,     \* [Callers -> Nat]: its failed attempts
  aborted,   \* [Callers -> BOOLEAN]: it was unsubscribed
  synced,    \* this.nativeDependenciesSynced
  menu       \* [Callers -> SUBSET Op]: what each caller may still run, in any order

jobVars == <<want, ref, made, keyed>>
callVars == <<op, step, jobVars>>
streamVars == <<conn, tries, aborted>>
setupVars == <<synced, menu>>
vars == <<procVars, callVars, streamVars, setupVars>>

Repairs == {"repair", "install", "clear", "saveKey"}
Op == Repairs \cup {"none", "list", "check", "create", "stream", "quit"}
Step == {"none", "list", "patch", "install", "repair", "sync", "config", "secret", "post",
         "resend", "repost", "answer", "get", "connect", "resync"}

(* "wanted": a key is stored under the alias of the configuration; "unread":  *)
(* so it is, but the configuration could not be read.                         *)
Wants == {"none", "wanted", "unread"}
Refs == Pids \cup {NoPid, "spent"}
ASSUME RefsAssumption == "spent" \notin Pids \cup {NoPid}

ASSUME MenusAssumption == Menus \subseteq [Callers -> SUBSET Op]

(* Steps that wait for repair(), and the ones whose repair may fail unseen.   *)
RepairSteps == {"repair", "sync", "resend"}

TypeOK ==
  /\ ProcTypeOK
  /\ op \in [Callers -> Op] /\ step \in [Callers -> Step]
  /\ want \in [Callers -> Wants] /\ ref \in [Callers -> Refs]
  /\ keyed \in [Callers -> BOOLEAN] /\ made \in [Callers -> 0..2]
  /\ conn \in [Callers -> Pids \cup {NoPid}]
  /\ tries \in [Callers -> 0..MaxTries] /\ aborted \in [Callers -> BOOLEAN]
  /\ synced \in BOOLEAN /\ menu \in [Callers -> SUBSET Op]

Init ==
  /\ ProcInit
  /\ op = [c \in Callers |-> "none"] /\ step = [c \in Callers |-> "none"]
  /\ want = [c \in Callers |-> "none"] /\ ref = [c \in Callers |-> NoPid]
  /\ keyed = [c \in Callers |-> FALSE] /\ made = [c \in Callers |-> 0]
  /\ conn = [c \in Callers |-> NoPid] /\ tries = [c \in Callers |-> 0]
  /\ aborted = [c \in Callers |-> FALSE]
  /\ synced = FALSE /\ menu \in Menus

-------------------------------------------------------------------------------
(* A promise that was settled has its continuation to run before any other    *)
(* handler: a repair that is over, or a start that has failed.                *)
Busy(c) == pc[c] = "failed" \/ (pc[c] = "have" /\ step[c] \in RepairSteps)
Turn(c) == \A d \in Callers \ {c} : ~Busy(d)

Serving(p) == p \in Pids /\ proc[p] = "serving"
Go(c, s) == step' = [step EXCEPT ![c] = s]

(* The operation is over, with a result or an error.                          *)
Done(c) ==
  /\ op' = [op EXCEPT ![c] = "none"]
  /\ Go(c, "none")
  /\ want' = [want EXCEPT ![c] = "none"]
  /\ ref' = [ref EXCEPT ![c] = NoPid]
  /\ keyed' = [keyed EXCEPT ![c] = FALSE]
  /\ made' = [made EXCEPT ![c] = 0]
  /\ pc' = [pc EXCEPT ![c] = "idle"]
  /\ at' = [at EXCEPT ![c] = NoPid]

(* The next step is a request, a repair, or a look at ffmpeg.                 *)
Request(c, s) == Go(c, s) /\ Ask(c) /\ UNCHANGED childVars
Repair(c, s) == Go(c, s) /\ Stop(c)
LookAtFFmpeg(c, s) ==
  /\ Go(c, s)
  /\ pc' = [pc EXCEPT ![c] = "native"]
  /\ at' = [at EXCEPT ![c] = NoPid]
  /\ UNCHANGED <<raced, childVars>>
Finish(c) == Done(c) /\ UNCHANGED <<raced, childVars>>

-------------------------------------------------------------------------------
(* Operations begin *)

Idle(c) == pc[c] = "idle" /\ ~quitting /\ Turn(c)

Run(c, o) ==
  /\ o \in menu[c]
  /\ op' = [op EXCEPT ![c] = o]
  /\ menu' = [menu EXCEPT ![c] = @ \ {o}]

(* health, version, listModels, listProviders, testProvider, getJob and the   *)
(* other single requests; those that a check makes in parallel, and the rows  *)
(* of cancelJob and cancelAllJobs, are single requests of their own here.     *)
SingleRequest(c) ==
  /\ Idle(c) /\ Run(c, "list") /\ Request(c, "list")
  /\ UNCHANGED <<quitting, jobVars, streamVars, synced>>

(* checkNativeDependencies asks about ffmpeg first.                           *)
Check(c) ==
  /\ Idle(c) /\ Run(c, "check") /\ LookAtFFmpeg(c, "list")
  /\ UNCHANGED <<quitting, jobVars, streamVars, synced>>

(* repairDaemon.  (cleanup-local-data of the jobs repairs the same way.)      *)
RepairDaemon(c) ==
  /\ Idle(c) /\ Run(c, "repair") /\ Repair(c, "repair")
  /\ UNCHANGED <<quitting, jobVars, streamVars, synced>>

(* installFFmpeg, setFFmpegDirectory and installProviderDependency: the       *)
(* daemon is restarted when the dependency is there by now.  (What they tell  *)
(* the user after that is taken to be a check for all of them.)               *)
InstallFFmpeg(c) ==
  /\ Idle(c) /\ Run(c, "install") /\ LookAtFFmpeg(c, "install")
  /\ UNCHANGED <<quitting, jobVars, streamVars, synced>>

ClearFFmpeg(c) ==
  /\ Idle(c) /\ Run(c, "clear") /\ Repair(c, "repair")
  /\ UNCHANGED <<quitting, jobVars, streamVars, synced>>

(* save-provider-secret and delete-provider-secret: the file of the key was   *)
(* written or removed, the configuration is to follow.                        *)
SaveKey(c) ==
  /\ Idle(c) /\ Run(c, "saveKey") /\ Request(c, "patch")
  /\ UNCHANGED <<quitting, jobVars, streamVars, synced>>

(* createJob: a transcription or burn-in looks at ffmpeg unless the daemon is *)
(* in step with it already.                                                   *)
CreateJob(c, media, key) ==
  /\ Idle(c) /\ Run(c, "create")
  /\ IF media /\ ~synced THEN LookAtFFmpeg(c, "sync")
     ELSE Request(c, IF key THEN "config" ELSE "post")
  /\ want' = [want EXCEPT ![c] = IF key THEN "wanted" ELSE "none"]
  /\ UNCHANGED <<quitting, ref, made, keyed, streamVars, synced>>

(* subscribe-job-events *)
Subscribe(c) ==
  /\ Idle(c) /\ Run(c, "stream") /\ Request(c, "connect")
  /\ tries' = [tries EXCEPT ![c] = 0]
  /\ aborted' = [aborted EXCEPT ![c] = FALSE]
  /\ UNCHANGED <<quitting, jobVars, conn, synced>>

Unsubscribe(c) ==
  /\ op[c] = "stream" /\ ~aborted[c] /\ Turn(c)
  /\ aborted' = [aborted EXCEPT ![c] = TRUE]
  /\ UNCHANGED <<procVars, callVars, conn, tries, setupVars>>

(* before-quit: every stream is aborted, the daemon is stopped.               *)
Quit(c) ==
  /\ Idle(c) /\ Run(c, "quit") /\ Go(c, "none") /\ Stop(c)
  /\ quitting' = TRUE
  /\ aborted' = [d \in Callers |-> op[d] = "stream" \/ aborted[d]]
  /\ UNCHANGED <<jobVars, conn, tries, synced>>

QuitDone(c) ==
  /\ op[c] = "quit" /\ pc[c] = "tree" /\ Turn(c)
  /\ Done(c) /\ Forget(c) /\ Uncross(c)
  /\ UNCHANGED <<quitting, streamVars, setupVars>>

-------------------------------------------------------------------------------
(* A look at ffmpeg is answered, one way or the other: see NativeDependencies. *)

(* checkNativeDependencies goes on to ask the daemon.  (A repair that pends   *)
(* on installedNow never comes to pass: checkFFmpegAvailable does not tell    *)
(* it.)                                                                       *)
CheckLooks(c) ==
  /\ pc[c] = "native" /\ step[c] = "list" /\ Turn(c)
  /\ Request(c, "list")
  /\ UNCHANGED <<quitting, op, jobVars, streamVars, setupVars>>

InstallLooks(c, available) ==
  /\ pc[c] = "native" /\ step[c] = "install" /\ Turn(c)
  /\ IF available THEN Repair(c, "repair") ELSE LookAtFFmpeg(c, "list")
  /\ UNCHANGED <<quitting, op, jobVars, streamVars, setupVars>>

(* syncNativeDependenciesForJobs throws when ffmpeg is not there, and repairs *)
(* the daemon when it is; the resend of createJob does the same later.        *)
JobLooks(c, available) ==
  /\ pc[c] = "native" /\ step[c] \in {"sync", "resend"} /\ Turn(c)
  /\ IF available THEN Repair(c, step[c]) /\ UNCHANGED <<op, jobVars>> ELSE Finish(c)
  /\ UNCHANGED <<quitting, streamVars, setupVars>>

-------------------------------------------------------------------------------
(* A repair is over *)

RepairOver(c) == pc[c] \in {"have", "failed"} /\ step[c] \in RepairSteps
Throws(c) == op[c] \in {"repair", "saveKey"} /\ pc[c] = "failed" /\ step[c] = "repair"

(* What follows: the flag is set whether the restart has worked or not,       *)
(* except in repairDaemon, which throws.                                      *)
Repaired(c) ==
  /\ RepairOver(c) /\ ~Throws(c)
  /\ synced' = IF step[c] = "resend" THEN synced ELSE op[c] # "clear"
  /\ CASE step[c] = "sync" -> Request(c, IF want[c] = "none" THEN "post" ELSE "config")
       [] step[c] = "resend" -> Request(c, "repost")
       [] step[c] = "repair" -> LookAtFFmpeg(c, "list")
  /\ UNCHANGED <<quitting, op, jobVars, streamVars, menu>>

RepairThrows(c) ==
  /\ RepairOver(c) /\ Throws(c)
  /\ Finish(c)
  /\ UNCHANGED <<quitting, streamVars, setupVars>>

-------------------------------------------------------------------------------
(* A request is answered, by the daemon of the session, or fails when that is *)
(* gone or none could be started.                                             *)

Answered(c, s) == pc[c] = "have" /\ step[c] = s /\ Serving(at[c]) /\ Turn(c)
Unanswered(c, s) == /\ step[c] = s /\ Turn(c)
                    /\ pc[c] = "failed" \/ (pc[c] = "have" /\ ~Serving(at[c]))

(* The last request of an operation, whatever its answer: health and its like *)
(* turn an error into an empty answer; getJob follows a creation.             *)
LastAnswered(c) ==
  /\ \E s \in {"list", "get"} : Answered(c, s) \/ Unanswered(c, s)
  /\ Finish(c)
  /\ UNCHANGED <<quitting, streamVars, setupVars>>

(* updateConfig of the key handlers: the repair follows when it has worked.   *)
PatchAnswered(c) ==
  /\ \/ /\ Answered(c, "patch")
        /\ Repair(c, "repair")
        /\ UNCHANGED <<op, jobVars>>
     \/ Unanswered(c, "patch") /\ Finish(c)
  /\ UNCHANGED <<quitting, streamVars, setupVars>>

(* createProviderSecretRef: getConfig tells the alias under which the key is  *)
(* stored.  It does not fail: without an answer the alias is the default one, *)
(* under which there may be another key, or none, and then the job goes out   *)
(* without.  The store itself may refuse to be read.                          *)
ConfigAnswered(c) ==
  /\ \/ Answered(c, "config") /\ Request(c, "secret") /\ UNCHANGED <<op, jobVars>>
     \/ /\ Unanswered(c, "config")
        /\ want' = [want EXCEPT ![c] = "unread"]
        /\ Request(c, "secret") \/ Request(c, "post")
        /\ UNCHANGED <<op, ref, made, keyed>>
     \/ (Answered(c, "config") \/ Unanswered(c, "config")) /\ Finish(c)
  /\ UNCHANGED <<quitting, streamVars, setupVars>>

(* The daemon gets the key and keeps it until it is consumed.                 *)
SecretAnswered(c) ==
  /\ \/ /\ Answered(c, "secret")
        /\ ref' = [ref EXCEPT ![c] = at[c]]
        /\ Request(c, "post")
        /\ UNCHANGED <<op, want, made, keyed>>
     \/ Unanswered(c, "secret") /\ Finish(c)
  /\ UNCHANGED <<quitting, streamVars, setupVars>>

(* Faulty: a reference the daemon does not know counts as no reference.       *)
AnyRefResolves(c, p) == TRUE

(* resolveJobSecretRefs and consume of the daemon: only the daemon that has   *)
(* issued the reference knows it, and only once.                              *)
RefResolves(c, p) == ref[c] \in {NoPid, p}

(* POST /v1/jobs: an unknown reference is refused; a known one is consumed    *)
(* before the job is made, or refused for want of ffmpeg.                     *)
PostHandled(c, s) ==
  /\ Answered(c, s) /\ RefResolves(c, at[c])
  /\ keyed' = [keyed EXCEPT ![c] = (ref[c] = at[c])]
  /\ made' = [made EXCEPT ![c] = @ + 1]
  /\ ref' = [ref EXCEPT ![c] = IF @ = NoPid THEN @ ELSE "spent"]
  /\ Go(c, "answer")
  /\ UNCHANGED <<procVars, op, want, streamVars, setupVars>>

(* The answer arrives; it is lost when the daemon is gone by then (PostFails). *)
PostAnswered(c) ==
  /\ Answered(c, "answer")
  /\ Request(c, "get")
  /\ UNCHANGED <<quitting, op, jobVars, streamVars, setupVars>>

PostRefused(c, s) ==
  /\ Answered(c, s) /\ ~RefResolves(c, at[c])
  /\ Finish(c)
  /\ UNCHANGED <<quitting, streamVars, setupVars>>

(* missing_dependency: the first refusal leads to a look at ffmpeg, a repair  *)
(* and the same body once more.                                               *)
PostLacksFFmpeg(c) ==
  /\ "refuses" \in Faults
  /\ \/ /\ Answered(c, "post") /\ RefResolves(c, at[c])
        /\ ref' = [ref EXCEPT ![c] = IF @ = NoPid THEN @ ELSE "spent"]
        /\ LookAtFFmpeg(c, "resend")
        /\ UNCHANGED <<op, want, made, keyed>>
     \/ Answered(c, "repost") /\ RefResolves(c, at[c]) /\ Finish(c)
  /\ UNCHANGED <<quitting, streamVars, setupVars>>

(* Faulty: whatever has gone wrong, the body is sent a second time.           *)
PostFailsResends(c, s) ==
  /\ Unanswered(c, s) \/ Unanswered(c, "get")
  /\ made[c] < 2
  /\ Request(c, "repost")
  /\ UNCHANGED <<quitting, op, jobVars, streamVars, setupVars>>

(* The body is not sent again, whether the daemon has made the job or not.    *)
PostFails(c, s) ==
  /\ Unanswered(c, s)
  /\ Finish(c)
  /\ UNCHANGED <<quitting, streamVars, setupVars>>

-------------------------------------------------------------------------------
(* streamJobEvents *)

StreamOver(c) ==
  /\ Done(c) /\ UNCHANGED raced
  /\ conn' = [conn EXCEPT ![c] = NoPid]
  /\ tries' = [tries EXCEPT ![c] = 0]
  /\ aborted' = [aborted EXCEPT ![c] = FALSE]

(* The catch of the loop: an aborted stream is over, another one waits and    *)
(* counts the attempt.                                                        *)
StreamError(c) ==
  IF aborted[c] THEN StreamOver(c)
  ELSE /\ pc' = [pc EXCEPT ![c] = "backoff"]
       /\ at' = [at EXCEPT ![c] = NoPid]
       /\ conn' = [conn EXCEPT ![c] = NoPid]
       /\ tries' = [tries EXCEPT ![c] = @ + 1]
       /\ UNCHANGED <<callVars, raced, aborted>>

(* Faulty: one attempt too many.                                              *)
RetryMore(c) ==
  /\ pc[c] = "backoff" /\ Turn(c)
  /\ IF aborted[c] \/ tries[c] > MaxTries THEN StreamOver(c) /\ UNCHANGED childVars
     ELSE Request(c, "connect") /\ UNCHANGED <<op, jobVars, streamVars>>
  /\ UNCHANGED <<quitting, setupVars>>

(* The wait is over: connect again, or give up without a word.                *)
Retry(c) ==
  /\ pc[c] = "backoff" /\ Turn(c)
  /\ IF aborted[c] \/ tries[c] = MaxTries THEN StreamOver(c) /\ UNCHANGED childVars
     ELSE Request(c, "connect") /\ UNCHANGED <<op, jobVars, streamVars>>
  /\ UNCHANGED <<quitting, setupVars>>

(* GET /v1/jobs/{id}/events; 401 is reported and ends the stream.             *)
Connect(c) ==
  /\ \/ /\ Answered(c, "connect") /\ ~aborted[c]
        /\ pc' = [pc EXCEPT ![c] = "reading"]
        /\ conn' = [conn EXCEPT ![c] = at[c]]
        /\ UNCHANGED <<callVars, at, raced, tries, aborted>>
     \/ Answered(c, "connect") /\ "denied" \in Faults /\ StreamOver(c)
     \/ Answered(c, "connect") /\ aborted[c] /\ StreamOver(c)
     \/ Unanswered(c, "connect") /\ StreamError(c)
  /\ UNCHANGED <<quitting, childVars, setupVars>>

(* events_lost: the job is fetched before the next event is read; an aborted  *)
(* response yields no further event.                                          *)
EventsLost(c) ==
  /\ pc[c] = "reading" /\ ~aborted[c] /\ Serving(conn[c]) /\ Turn(c)
  /\ Request(c, "resync")
  /\ UNCHANGED <<quitting, op, jobVars, streamVars, setupVars>>

Resynced(c) ==
  /\ \/ /\ Answered(c, "resync")
        /\ pc' = [pc EXCEPT ![c] = "reading"]
        /\ UNCHANGED <<callVars, at, raced, streamVars>>
     \/ Unanswered(c, "resync") /\ StreamError(c)
  /\ UNCHANGED <<quitting, childVars, setupVars>>

(* The reader ends: the daemon closes the response, it is gone, or the signal *)
(* is aborted.                                                                *)
StreamEnds(c) ==
  /\ pc[c] = "reading" /\ Turn(c)
  /\ IF Serving(conn[c]) \/ aborted[c] THEN StreamOver(c) ELSE StreamError(c)
  /\ UNCHANGED <<quitting, childVars, setupVars>>

StreamIsCut(c) == (aborted[c] \/ ~Serving(conn[c])) /\ StreamEnds(c)

-------------------------------------------------------------------------------
RestartStep(c) ==
  /\ op[c] # "quit" /\ Turn(c) /\ Restart(c)
  /\ UNCHANGED <<callVars, streamVars, setupVars>>

(* Who refers to a daemon whose pid is used again refers to one that is gone.  *)
Spawned(p) == p \in Pids /\ proc'[p] # proc[p]
WaitStep(c) ==
  /\ Turn(c)
  /\ \/ /\ Spawn(c)
        /\ ref' = [d \in Callers |-> IF Spawned(ref[d]) THEN "spent" ELSE ref[d]]
        /\ conn' = [d \in Callers |-> IF Spawned(conn[d]) THEN NoPid ELSE conn[d]]
     \/ ReadyTimeout(c) /\ UNCHANGED <<ref, conn>>
  /\ UNCHANGED <<op, step, want, made, keyed, tries, aborted, setupVars>>

ChildStep(p) ==
  /\ \A c \in Callers : ~Busy(c)
  /\ ChildEvent(p)
  /\ UNCHANGED <<callVars, streamVars, setupVars>>

DaemonReady(p) == PrintReady(p) /\ UNCHANGED <<callVars, streamVars, setupVars>>

DaemonStep(p) ==
  /\ LoseLine(p) \/ Crash(p)
  /\ UNCHANGED <<callVars, streamVars, setupVars>>

PostStep(c) ==
  \/ \E s \in {"post", "repost"} : PostHandled(c, s) \/ PostRefused(c, s)
  \/ \E s \in {"post", "repost", "answer"} : PostFails(c, s)
  \/ PostAnswered(c) \/ PostLacksFFmpeg(c)

CallStep(c) ==
  \/ CheckLooks(c) \/ \E available \in BOOLEAN : InstallLooks(c, available) \/ JobLooks(c, available)
  \/ RestartStep(c) \/ WaitStep(c)
  \/ Repaired(c) \/ RepairThrows(c) \/ QuitDone(c)
  \/ LastAnswered(c) \/ PatchAnswered(c) \/ ConfigAnswered(c)
  \/ SecretAnswered(c) \/ PostStep(c)
  \/ Retry(c) \/ Connect(c) \/ Resynced(c)

Begins(c) ==
  \/ SingleRequest(c) \/ Check(c) \/ RepairDaemon(c) \/ InstallFFmpeg(c) \/ ClearFFmpeg(c)
  \/ SaveKey(c) \/ \E media, key \in BOOLEAN : CreateJob(c, media, key)
  \/ Subscribe(c) \/ Unsubscribe(c) \/ Quit(c)

Next ==
  \/ \E c \in Callers : Begins(c) \/ CallStep(c) \/ EventsLost(c) \/ StreamEnds(c)
  \/ \E p \in Pids : ChildStep(p) \/ DaemonReady(p) \/ DaemonStep(p)

Spec == Init /\ [][Next]_vars

(* Fairness: promises settle and timers fire (the steps of a call, and a      *)
(* stream whose connection is cut); spawned daemons start, exit or hang.      *)
(* Operations begin, and daemons crash or send events, as they please.        *)
CallerProgress(c) == CallStep(c) \/ StreamIsCut(c)
ChildProgress == \E p \in Pids : ChildStep(p) \/ DaemonReady(p)

FairSpec ==
  /\ Spec
  /\ \A c \in Callers : WF_vars(CallerProgress(c))
  /\ WF_vars(ChildProgress)

-------------------------------------------------------------------------------
(* Properties *)

(* A call of createJob makes at most one job, however often the body is sent  *)
(* and whichever answer is lost.  (daemonClient.ts sends it again only after  *)
(* the daemon itself has refused it.)                                         *)
OneJobPerCall == \A c \in Callers : made[c] <= 1

(* No job that was to have an API key runs without, unless the configuration  *)
(* could not be read: the body may be sent to another daemon than the one     *)
(* that keeps the key, or twice, and is refused there.                        *)
NeverKeyless ==
  \A c \in Callers : made[c] > 0 /\ want[c] = "wanted" => keyed[c]

(* After the stop of before-quit no daemon is left but those that were lost   *)
(* where a start met another start or a stop, that last one included.         *)
Over == quitting /\ \A c \in Callers : op[c] = "none"
QuitLeavesNone == Over => \A p \in Pids : Alive(p) => p \in strays

(* What the documents promise: no daemon is left when the application quits.  *)
NoneAfterQuit == Over => \A p \in Pids : ~Alive(p)

(* Every call comes to an end, also when the daemon hangs, exits early or is  *)
(* killed by another call; so does every stream that is unsubscribed: again   *)
(* and again none pends.  (What the callers may still run is used up.)        *)
Pending(c) == op[c] # "none" /\ (op[c] = "stream" => aborted[c])
CallsSettle == []<>(\A c \in Callers : ~Pending(c))

==============================================================================
