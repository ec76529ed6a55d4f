------------------------------ MODULE AppEvents ------------------------------
(***************************************************************************)
(* The rest of the jobs in App: updateFromEvent, which applies an event to *)
(* the job of the card whatever job it is of, and goes on with the batch;  *)
(* and what the user does with the jobs there are.                         *)
(***************************************************************************)
EXTENDS AppJobs

-------------------------------------------------------------------------------
(* Events without an await.  (The screen that updateFromEvent compares with   *)
(* is the one of the click that subscribed, never main-generating.)           *)

Snapshot(s) ==
  /\ CanSnapshot(s)
  /\ streams' = [streams EXCEPT ![s].told = "snapshot"]
  /\ app' = Card(app, IF app.job = NoJob THEN streams[s].job ELSE app.job,
                 SnapshotStatus(streams[s].job))
  /\ UNCHANGED <<backend, status, kind, present, timers, config, ffmpeg, ops, clicks, faultVars>>

Progress(s) ==
  /\ CanProgress(s)
  /\ streams' = [streams EXCEPT ![s].told = "progress"]
  /\ status' = Applied(streams[s].job, "running")
  /\ app' = IF app.job = NoJob THEN app ELSE Card(app, app.job, "running")
  /\ UNCHANGED <<backend, kind, present, timers, config, ffmpeg, ops, clicks, faultVars>>

-------------------------------------------------------------------------------
(* The terminal event                                                         *)

Single == Len(app.batch) <= 1
Follow(h, at, j) == Wait(h, [IdleOp EXCEPT !.at = at, !.job = j, !.ids = app.batch])

(* The burn-in of a transcription, the rest of the batch, or the end.         *)
Succeeded(h, a, j) ==
  IF j # NoJob /\ config.burnIn /\ kind[j] = "transcribe" THEN Follow(h, "burn", j) /\ app' = a
  ELSE IF Single THEN Over(h) /\ app' = Show(a, "main-done")
  ELSE Follow(h, "listDone", j) /\ app' = a

(* A conflict of the output is for the user to resolve.                       *)
Broken(h, a, j, end) ==
  IF j # NoJob /\ ~Single THEN Follow(h, "list", j) /\ app' = a
  ELSE /\ Over(h)
       /\ \E s \in IF end = "canceled" THEN {"queue-detail"}
                   ELSE IF config.conflict = "ask" /\ ~Mock THEN {"queue-failed", "main-conflict"}
                   ELSE {"queue-failed"} : app' = Show(a, s)

Ended(h, s, end) ==
  /\ CanEnd(s, end) /\ FreeSlot(h)
  /\ streams' = [Unsubscribed(app.unsub) EXCEPT ![s] = Closed]
  /\ status' = Applied(streams[s].job, end)
  /\ LET a == [app EXCEPT !.unsub = NoStream,
                          !.shown = IF app.job = NoJob THEN @ ELSE end,
                          !.completed = IF end = "succeeded" THEN @ \cup ({app.job} \ {NoJob}) ELSE @]
     IN IF end = "succeeded" THEN Succeeded(h, a, app.job) ELSE Broken(h, a, app.job, end)
  /\ UNCHANGED <<backend, kind, present, timers, config, ffmpeg, clicks, astray>>

(* The burn-in is made: it joins the batch and is followed.                   *)
BurnMade(h) ==
  /\ ops[h].at = "burn" /\ ~(Mock /\ NeedsConfirmation(config.asr, providers))
  /\ CreateJob("burn_in")
  /\ LET b == NextId
         st == ReportAs(b, Made("burn_in"))
         a == [Card(app, b, st) EXCEPT !.batch = Append(@, b),
                                       !.completed = IF st = "succeeded" THEN @ \cup {b} ELSE @]
     IN IF st # "succeeded" THEN Over(h) /\ Subscribe(Show(a, "main-generating"), b, streams)
        ELSE IF Len(a.batch) <= 1 THEN Over(h) /\ app' = Show(a, "main-done") /\ UNCHANGED streams
        ELSE /\ Wait(h, [ops[h] EXCEPT !.at = "listDone", !.ids = a.batch])
             /\ app' = a /\ UNCHANGED streams
  /\ UNCHANGED <<backend, present, timers, config, ffmpeg, clicks, astray>>

(* What listJobs has answered of the batch, with what the event said of j.    *)
Listed(h, answer) == Range(ops[h].ids) \cap (answer \cup {ops[h].job})
Heard(h, k, end) == IF k = ops[h].job THEN end ELSE Report(k)

StillActive(h, answer) == {k \in Listed(h, answer) : Heard(h, k, "succeeded") \in Active}

(* Faulty: the rest is over, whatever has become of it.                       *)
NothingLeft(h, answer) == Listed(h, answer) = Range(ops[h].ids) /\ StillActive(h, answer) = {}

(* Every job of the batch has been seen to succeed, or is listed as such.     *)
AllDone(h, answer) ==
  \/ Range(ops[h].ids) \subseteq app.completed
  \/ /\ Listed(h, answer) = Range(ops[h].ids)
     /\ \A k \in Listed(h, answer) : Heard(h, k, "succeeded") = "succeeded"

GoOn(h, answer) ==
  \E k \in StillActive(h, answer) :
    Wait(h, [ops[h] EXCEPT !.at = "next", !.job = k]) /\ UNCHANGED app

(* The list after a success: the result, the failures, or the next job.       *)
ListedAfterSuccess(h, answer) ==
  /\ ops[h].at = "listDone"
  /\ CASE AllDone(h, answer) -> Wait(h, [ops[h] EXCEPT !.at = "details"]) /\ UNCHANGED app
       [] ~AllDone(h, answer) /\ StillActive(h, answer) # {} -> GoOn(h, answer)
       [] OTHER -> /\ Over(h)
                   /\ app' = Show(app, IF Listed(h, answer) = Range(ops[h].ids)
                                       THEN "queue-failed" ELSE "main-generating")

(* The list after a failure or a cancellation.                                *)
ListedAfterFailure(h, answer) ==
  /\ ops[h].at = "list"
  /\ IF StillActive(h, answer) # {} THEN GoOn(h, answer)
     ELSE /\ Over(h)
          /\ app' = IF Listed(h, answer) = Range(ops[h].ids) THEN Show(app, "queue-failed") ELSE app

(* listJobs answers nothing while the daemon is away.                         *)
JobsListed(h) ==
  /\ \E answer \in {Known, {}} :
       /\ answer # Known => ~Mock /\ ~astray
       /\ astray' = (astray \/ answer # Known)
       /\ ListedAfterSuccess(h, answer) \/ ListedAfterFailure(h, answer)
  /\ UNCHANGED <<clientVars, config, ffmpeg, clicks>>

(* The details of the batch: its first job is on the card of the result.      *)
DetailsLoaded(h) ==
  /\ ops[h].at = "details"
  /\ LET found == Listed(h, Known)
         a == [app EXCEPT !.completed = found]
     IN \/ found = {} /\ app' = Show(a, "main-done")
        \/ \E k \in Find(ops[h].ids, LAMBDA id : id \in found) :
             app' = Show(Card(a, k, IF k \in Known THEN Report(k) ELSE "succeeded"), "main-done")
  /\ Over(h)
  /\ UNCHANGED <<clientVars, config, ffmpeg, clicks, astray>>

(* Faulty: the next job is shown, and nobody listens to it.                   *)
NextShown(h) ==
  /\ ops[h].at = "next" /\ ops[h].job \in Known
  /\ app' = Show(Card(app, ops[h].job, Report(ops[h].job)), "main-generating")
  /\ Over(h)
  /\ UNCHANGED <<clientVars, config, ffmpeg, clicks, astray>>

(* The next job of the batch is followed.                                     *)
NextFollowed(h) ==
  /\ ops[h].at = "next" /\ ops[h].job \in Known
  /\ Subscribe(Show(Card(app, ops[h].job, Report(ops[h].job)), "main-generating"),
               ops[h].job, streams)
  /\ Over(h)
  /\ UNCHANGED <<backend, status, kind, present, timers, config, ffmpeg, clicks, astray>>

-------------------------------------------------------------------------------
(* What the user does with the jobs there are *)

Ask(h, at, j) == Wait(h, [IdleOp EXCEPT !.at = at, !.job = j, !.ids = <<app.job>>])
Answered(h, at) == ops[h].at = at /\ UNCHANGED <<config, ffmpeg, clicks>>
OnCard(h) == ops[h].ids = <<ops[h].job>>   \* the job was on the card at the click
CardCanceled(h) == Card(app, ops[h].job, ReportAs(ops[h].job, Canceled(ops[h].job)))

(* openJob: from the queue; the stream before is left.                        *)
OpenJob(h, j) ==
  /\ app.screen = "queue-list" /\ j \in Known /\ Click(h, "open")
  /\ Unsubscribe([Card(app, j, Report(j)) EXCEPT
       !.background = FALSE,
       !.screen = IF status[j] = "failed" THEN "queue-failed" ELSE "queue-detail"])
  /\ Ask(h, "open", j)
  /\ UNCHANGED <<backend, status, kind, present, timers, config, ffmpeg, astray>>

JobOpened(h) ==
  /\ Answered(h, "open") /\ ops[h].job \in Known
  /\ LET a == Card(app, ops[h].job, Report(ops[h].job))
     IN IF a.shown \in Active THEN Subscribe(a, a.job, streams) ELSE app' = a /\ UNCHANGED streams
  /\ Over(h)
  /\ UNCHANGED <<backend, status, kind, present, timers, astray>>

(* cancelActiveJob: no more events; its state is asked for after 860 ms, and  *)
(* put on the card whatever is there by then.                                 *)
CancelActiveJob(h) ==
  /\ \/ app.screen = "main-generating"
     \/ app.screen \in {"queue-detail", "queue-failed"} /\ app.shown \in Active
  /\ app.job # NoJob /\ Click(h, "cancel")
  /\ Unsubscribe(app) /\ Ask(h, "cancel", app.job)
  /\ UNCHANGED <<backend, status, kind, present, timers, config, ffmpeg, astray>>

ActiveJobCanceled(h) ==
  /\ Answered(h, "cancel") /\ ops[h].job \in Known /\ CancelJob(ops[h].job)
  /\ app' = [CardCanceled(h) EXCEPT !.screen = "queue-detail"]
  /\ Wait(h, [ops[h] EXCEPT !.at = "timer"])
  /\ UNCHANGED <<backend, kind, present, streams, astray>>

CancelSeen(h) ==
  /\ Answered(h, "timer") /\ ops[h].job \notin timers
  /\ app' = IF ops[h].job \in Known THEN Card(app, ops[h].job, Report(ops[h].job)) ELSE app
  /\ Over(h) /\ UNCHANGED <<clientVars, astray>>

(* cancelJobs and deleteJobs of the queue, one job at a time here.            *)
CancelJobs(h, j) ==
  /\ app.screen = "queue-list" /\ j \in Known /\ Report(j) \in Active /\ Click(h, "cancelMany")
  /\ Ask(h, "cancelMany", j) /\ UNCHANGED app /\ Unmoved

JobsCanceled(h) ==
  /\ Answered(h, "cancelMany")
  /\ IF ops[h].job \in Known THEN CancelJob(ops[h].job) ELSE UNCHANGED <<status, timers>>
  /\ app' = IF OnCard(h) /\ ops[h].job \in Known THEN CardCanceled(h) ELSE app
  /\ Over(h) /\ UNCHANGED <<backend, kind, present, streams, astray>>

DeleteJobs(h, j) ==
  /\ app.screen = "queue-list" /\ j \in Known /\ Report(j) \in Terminal /\ Click(h, "deleteMany")
  /\ Ask(h, "deleteMany", j) /\ UNCHANGED app /\ Unmoved

(* A job of the batch that goes is missing when the batch is counted.         *)
Deleted(h) ==
  /\ DeleteJob(ops[h].job)
  /\ astray' = (astray \/ ops[h].job \in Range(app.batch))
  /\ UNCHANGED <<backend, kind, present, timers, streams>>

JobsDeleted(h) ==
  /\ Answered(h, "deleteMany")
  /\ IF CanDelete(ops[h].job) THEN Deleted(h) ELSE UNCHANGED <<clientVars, astray>>
  /\ app' = IF OnCard(h) THEN Card(app, NoJob, "none") ELSE app
  /\ Over(h)

(* deleteActiveJob, of a failed or a canceled job.                            *)
DeleteActiveJob(h) ==
  /\ app.screen \in {"queue-detail", "queue-failed"} /\ app.shown \in {"failed", "canceled"}
  /\ app.job # NoJob /\ Click(h, "delete")
  /\ Ask(h, "delete", app.job) /\ UNCHANGED app /\ Unmoved

ActiveJobDeleted(h) ==
  /\ Answered(h, "delete") /\ CanDelete(ops[h].job) /\ Deleted(h)
  /\ app' = [Card(app, NoJob, "none") EXCEPT !.screen = "queue-list"]
  /\ Over(h)

CancelAll(h) ==
  /\ app.screen = "main-generating" /\ Click(h, "cancelAll")
  /\ Unsubscribe([Card(app, NoJob, "none") EXCEPT !.batch = <<>>])
  /\ Ask(h, "cancelAll", NoJob)
  /\ UNCHANGED <<backend, status, kind, present, timers, config, ffmpeg, astray>>

AllCanceled(h) ==
  /\ Answered(h, "cancelAll") /\ CancelAllJobs
  /\ app' = [app EXCEPT !.screen = "queue-list"]
  /\ Over(h) /\ UNCHANGED <<backend, kind, present, timers, streams, astray>>

(* "Run in background": the screens of the batch are not shown any more.      *)
OpenRunningQueue ==
  /\ app.screen = "main-generating" /\ Tap("background")
  /\ app' = [app EXCEPT !.background = TRUE, !.screen = "queue-list"]
  /\ UNCHANGED <<ops, overlap>> /\ Unmoved

(* The menu, and the buttons that only show another screen.                   *)
Navigate(s) ==
  /\ s # app.screen /\ Tap("go")
  /\ app' = [app EXCEPT !.screen = s]
  /\ UNCHANGED <<ops, overlap>> /\ Unmoved

-------------------------------------------------------------------------------
(* Faults, and the whole *)

MayFail == {"resolve", "ffmpeg", "create", "open", "cancel", "delete", "burn", "list",
            "listDone", "next"}

(* A request that cannot succeed: the store is full (a bound), the job is not *)
(* there or not in the state, or the mock asks for a confirmation.            *)
Refused(h) ==
  \/ ops[h].at \in {"create", "burn"} /\ ~CanCreate
  \/ ops[h].at \in {"open", "cancel", "next"} /\ ops[h].job \notin Known
  \/ ops[h].at = "delete" /\ ~CanDelete(ops[h].job)
  \/ ops[h].at = "burn" /\ Mock /\ NeedsConfirmation(config.asr, providers)

(* The function throws: nothing of the rest happens.  The daemon may fail at  *)
(* any request; one such failure at most (a bound).                           *)
RequestFails(h) ==
  /\ ops[h].at \in MayFail
  /\ Refused(h) \/ (~Mock /\ ~astray)
  /\ Over(h) /\ astray' = TRUE
  /\ UNCHANGED <<clientVars, config, ffmpeg, app, clicks>>

StreamLost(s) ==
  /\ ~astray /\ LoseStream(s) /\ astray' = TRUE
  /\ UNCHANGED <<config, ffmpeg, app, ops, clicks, overlap>>

JobMoves ==
  ClientNext /\ UNCHANGED <<config, ffmpeg, app, ops, clicks, faultVars>>

(* What goes on without the user.                                             *)
Continues(h) ==
  \/ LabelsSaved(h) \/ LookedAtFFmpeg(h) \/ JobMade(h) \/ ConflictResolved(h)
  \/ BurnMade(h) \/ JobsListed(h) \/ DetailsLoaded(h) \/ NextFollowed(h)
  \/ JobOpened(h) \/ ActiveJobCanceled(h) \/ CancelSeen(h) \/ JobsCanceled(h)
  \/ JobsDeleted(h) \/ ActiveJobDeleted(h) \/ AllCanceled(h)

Delivered(s) ==
  \/ Snapshot(s) \/ Progress(s)
  \/ \E h \in Slots, end \in Terminal : Ended(h, s, end)

Clicked(h) ==
  \/ \E n \in 1..2 : StartFiles(h, n)
  \/ \E type \in Kind \ {"transcribe"} : StartTool(h, type)
  \/ RetryJob(h) \/ ResolveConflict(h) \/ ConfirmRemote(h) \/ InstallFFmpeg(h)
  \/ CancelActiveJob(h) \/ DeleteActiveJob(h) \/ CancelAll(h)
  \/ \E j \in Jobs : OpenJob(h, j) \/ CancelJobs(h, j) \/ DeleteJobs(h, j)

JobsNext ==
  /\ \/ JobMoves
     \/ \E h \in Slots : Continues(h) \/ FFmpegInstalled(h) \/ RequestFails(h) \/ Clicked(h)
     \/ \E s \in Streams : Delivered(s) \/ StreamLost(s)
     \/ CloseDialog \/ OpenRunningQueue
     \/ \E s \in {"main-files", "queue-list"} : Navigate(s)
  /\ UNCHANGED settled

(* Answers, events and jobs keep coming; the user need do nothing.            *)
JobsProgress ==
  /\ \/ JobMoves
     \/ \E h \in Slots : Continues(h) \/ (Refused(h) /\ RequestFails(h))
     \/ \E s \in Streams : Delivered(s)
  /\ UNCHANGED settled

JobsSpec == AppJobsInit /\ [][JobsNext]_jobVars /\ WF_jobVars(JobsProgress)

-------------------------------------------------------------------------------
(* Properties *)

(* Unless two functions waited at a time, App listens to one job at most,     *)
(* holds the subscription, and it is the job of the card (or the card is      *)
(* empty): an event is applied to the job it is of.                           *)
OneStream ==
  ~overlap => \A s \in Streams : streams[s] # Closed =>
                /\ s = app.unsub
                /\ app.job \in {NoJob, streams[s].job}

(* The result is shown only of jobs that succeeded, and of a batch only when  *)
(* all of it did (AppShell.tsx:440).  Not when an output file is there from   *)
(* before: the daemon's client then reports an active job as succeeded.       *)
DoneIsDone ==
  app.screen = "main-done" /\ ~Mock /\ present = {} /\ ~overlap /\ ~astray =>
    \A j \in app.completed \cup (IF Single THEN {} ELSE Range(app.batch)) :
      status[j] \in {"succeeded", "gone"}

(* A job is made only of what can run: the provider is ready, a local one has *)
(* its model, a translation its translator; and its audio leaves only for a   *)
(* provider that the user was shown and agreed to in this very call, its text *)
(* too.  But a text whose audio leaves as well goes with the answer about the *)
(* audio: the translator is not shown (AppShell.tsx:733, 739).                *)
RunsAllowed(run, sel) ==
  /\ run.confirmed => run.agreed # {}
  /\ run.type = "transcribe" =>
       \E p \in Range(providers) :
         /\ p.id = sel.provider /\ ProviderCanRun(p)
         /\ Remote(p) => "audio" \in run.agreed
         /\ (~Remote(p) /\ p.needsModel) =>
              \E m \in Range(models) :
                m.id = sel.model /\ m.state = "ready" /\ ModelCompatible(m, p.id)
  /\ run.type = "translate_srt" \/ (run.type = "transcribe" /\ OutputTypeNeedsTranslation(config)) =>
       \E p \in TranslationProvider(config, providers) :
         ProviderCanRun(p) /\ (Remote(p) => "text" \in run.agreed \/ AudioLeaves(run, sel))

JobsAllowed ==
  [][\A h \in Slots : ops[h].at = "create" /\ status' # status /\ ops'[h] # ops[h]
       => RunsAllowed(ops[h].run, ops[h].sel)]_jobVars

(* The screen of a running job does not stay for ever: it is left when the    *)
(* job ends, unless two functions waited at a time or something failed.       *)
GenerationEnds ==
  app.screen = "main-generating" ~> (app.screen # "main-generating" \/ overlap \/ astray)
==============================================================================
