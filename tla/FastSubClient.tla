---------------------------- MODULE FastSubClient ----------------------------
(***************************************************************************)
(* The jobs and the event streams as the renderer meets them behind the    *)
(* interface FastSubClient: the daemon, reached through the preload bridge *)
(* and the main process (its own life is in JobManager and EventStream),   *)
(* or MockFastSubClient, whose jobs move only under a subscription and end *)
(* as the scenario says.                                                   *)
(***************************************************************************)
EXTENDS Naturals, FiniteSets

CONSTANTS MaxJobs, MaxStreams   \* bounds: jobs ever made, subscriptions at a time

VARIABLES
  backend,  \* "daemon", or the mock's scenario: "ok", "conflict", "failed", "canceled"
  status,   \* [Jobs -> Status]
  kind,     \* [Jobs -> Kind]
  present,  \* SUBSET Jobs: their output file is there from an earlier run
  timers,   \* SUBSET Jobs: the mock's 800 ms timers of cancelJob
  streams   \* [Streams -> [job, told]]: the subscriptions, and what each has told

clientVars == <<backend, status, kind, present, timers, streams>>

Jobs == 1..MaxJobs
NoJob == 0
Streams == 1..MaxStreams
NoStream == 0
Active == {"queued", "running", "canceling"}
Terminal == {"succeeded", "failed", "canceled"}
Status == Active \cup Terminal \cup {"none", "gone"}
Kind == {"transcribe", "burn_in", "translate_srt"}
Told == {"nothing", "snapshot", "progress", "lost"}
Closed == [job |-> NoJob, told |-> "nothing"]

ClientTypeOK ==
  /\ status \in [Jobs -> Status] /\ kind \in [Jobs -> Kind]
  /\ present \subseteq Jobs /\ timers \subseteq Jobs
  /\ streams \in [Streams -> [job : Jobs \cup {NoJob}, told : Told]]

ClientInit ==
  /\ status = [j \in Jobs |-> "none"] /\ kind = [j \in Jobs |-> "transcribe"]
  /\ timers = {}
  /\ streams = [s \in Streams |-> Closed]

Mock == backend # "daemon"
Known == {j \in Jobs : status[j] \notin {"none", "gone"}}

(* mapJob: an active job whose output file exists is reported as succeeded.   *)
ReportAs(j, st) == IF ~Mock /\ st \in Active /\ j \in present THEN "succeeded" ELSE st
Report(j) == ReportAs(j, status[j])

-------------------------------------------------------------------------------
(* Requests.  Each is an effect on status; an await lies around it.           *)

CanCreate == \E j \in Jobs : status[j] = "none"
NextId == CHOOSE j \in Jobs : status[j] = "none" /\ \A k \in Jobs : k < j => status[k] # "none"

(* The mock's tool jobs are done at once.                                     *)
Made(k) == IF Mock /\ k # "transcribe" THEN "succeeded" ELSE "queued"
CreateJob(k) ==
  /\ CanCreate
  /\ status' = [status EXCEPT ![NextId] = Made(k)]
  /\ kind' = [kind EXCEPT ![NextId] = k]

(* The daemon cancels a queued job at once and leaves a terminal one alone;   *)
(* the mock marks any job, and a timer ends it.                               *)
Canceled(j) ==
  IF Mock \/ status[j] = "running" THEN "canceling"
  ELSE IF status[j] = "queued" THEN "canceled" ELSE status[j]

CancelJob(j) ==
  /\ status' = [status EXCEPT ![j] = Canceled(j)]
  /\ timers' = IF Mock THEN timers \cup {j} ELSE timers

(* The mock sets no timer here: its jobs stay canceling.                      *)
CancelAllJobs ==
  status' = [j \in Jobs |-> IF status[j] \in {"queued", "running"} THEN Canceled(j) ELSE status[j]]

(* The daemon refuses an active job (and a job it does not know).             *)
CanDelete(j) == Mock \/ status[j] \in Terminal
DeleteJob(j) == status' = [status EXCEPT ![j] = "gone"]

-------------------------------------------------------------------------------
(* The jobs move by themselves *)

(* The jobs of the daemon, one at a time: JobManager in short.                *)
Advance(j) ==
  /\ ~Mock
  /\ \/ /\ status[j] = "queued" /\ \A k \in Jobs : status[k] \notin {"running", "canceling"}
        /\ status' = [status EXCEPT ![j] = "running"]
     \/ /\ status[j] = "running"
        /\ \E end \in {"succeeded", "failed"} : status' = [status EXCEPT ![j] = end]
     \/ status[j] = "canceling" /\ status' = [status EXCEPT ![j] = "canceled"]
  /\ UNCHANGED <<backend, kind, present, timers, streams>>

CancelTimer(j) ==
  /\ j \in timers
  /\ timers' = timers \ {j}
  /\ status' = [status EXCEPT ![j] = IF @ = "canceling" THEN "canceled" ELSE @]
  /\ UNCHANGED <<backend, kind, present, streams>>

-------------------------------------------------------------------------------
(* Streams *)

HasFree(strs) == \E s \in Streams : strs[s] = Closed
FirstFree(strs) == CHOOSE s \in Streams : strs[s] = Closed /\ \A t \in Streams : t < s => strs[t] # Closed
Opened(j, strs) == [strs EXCEPT ![FirstFree(strs)] = [job |-> j, told |-> "nothing"]]

(* The bridge removes the listener: no event comes after it.                  *)
Unsubscribed(s) == IF s = NoStream THEN streams ELSE [streams EXCEPT ![s] = Closed]

(* What a stream may tell next.  The daemon's snapshot is of the creation;    *)
(* its log then tells of the run, and of the end.  The mock tells of a run    *)
(* and the end of its scenario, whatever has become of the job.               *)
MockEnd == CASE backend \in {"ok", "conflict"} -> "succeeded" [] OTHER -> backend
SnapshotStatus(j) == IF ~Mock THEN "queued" ELSE IF j \in Known THEN status[j] ELSE "running"

CanSnapshot(s) == streams[s].job # NoJob /\ streams[s].told = "nothing"
CanProgress(s) == streams[s].told = "snapshot" /\ (Mock \/ status[streams[s].job] # "queued")
CanEnd(s, end) ==
  \/ Mock /\ streams[s].told = "progress" /\ end = MockEnd
  \/ ~Mock /\ streams[s].told \in {"snapshot", "progress"} /\ end = status[streams[s].job]

(* applyEvent: the mock's job becomes what the event says.                    *)
Applied(j, st) == IF Mock /\ j \in Known THEN [status EXCEPT ![j] = st] ELSE status

(* The connection is given up, or the job is deleted under it.                *)
LoseStream(s) ==
  /\ ~Mock /\ streams[s].job # NoJob /\ streams[s].told # "lost"
  /\ streams' = [streams EXCEPT ![s].told = "lost"]
  /\ UNCHANGED <<backend, status, kind, present, timers>>

ClientNext == \E j \in Jobs : Advance(j) \/ CancelTimer(j)
==============================================================================
