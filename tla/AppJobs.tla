------------------------------- MODULE AppJobs -------------------------------
(***************************************************************************)
(* The jobs in App (AppShell.tsx): making them, following one of them by   *)
(* its events, going on with the next of a batch, canceling, deleting and  *)
(* opening them, and the screen that shows it.                             *)
(*                                                                         *)
(* A click runs a function to its first await; the rest runs later, in any *)
(* order with other clicks, events and timers.  A function that waits has  *)
(* a slot of ops.  The handler of a terminal event waits as well.  The     *)
(* awaits of refreshJobs at the end of everything change only the list of  *)
(* the queue and are left out: the queue offers any job there is.          *)
(***************************************************************************)
EXTENDS FastSubClient, AppState

CONSTANTS Slots,      \* bound: functions that wait at a time, a set of numbers
          MaxClicks   \* bound: what the user does

VARIABLES
  ffmpeg,    \* the pair is ready
  app,       \* the state of App: see AppTypeOK
  ops,       \* [Slots -> Op]
  clicks,    \* clicks so far
  menu,      \* bound: the kinds of clicks of this behaviour
  overlap,   \* history: two functions have waited at a time
  astray     \* history: a request of a function failed, a stream was lost,
             \* or a job of the batch was deleted

jobVars == <<clientVars, config, providers, models, ffmpeg, app, ops, clicks, menu,
             overlap, astray>>
settled == <<providers, models, menu>>
faultVars == <<overlap, astray>>

Screen == {"main-files", "main-missing", "main-conflict", "main-generating", "main-done",
           "queue-list", "queue-detail", "queue-failed", "settings-providers"}

(* The options of startJob and startToolJob.  A dialog calls them again as    *)
(* they were: with the recognizer (asr, model) of the settings of that click. *)
(* named is the upload whose provider the dialog of this call shows, agreed   *)
(* is history: the uploads that the user was shown and has agreed to.         *)
Upload == {"audio", "text"}
Runs == [type : Kind, n : 0..2, resolved : BOOLEAN, asr : STRING, model : STRING,
         confirmed : BOOLEAN, named : Upload \cup {"none"}, agreed : SUBSET Upload]
NoRun == [type |-> "transcribe", n |-> 0, resolved |-> FALSE, asr |-> "", model |-> "",
          confirmed |-> FALSE, named |-> "none", agreed |-> {}]
NewRun == [NoRun EXCEPT !.asr = config.asr, !.model = config.asrModel]
NoSel == [provider |-> "", model |-> ""]
IdleOp == [at |-> "idle", run |-> NoRun, sel |-> NoSel, job |-> NoJob, ids |-> <<>>]

At == {"idle", "resolve", "labels", "ffmpeg", "install", "create", "open", "cancel", "timer",
       "cancelMany", "cancelAll", "delete", "deleteMany", "burn", "list", "listDone",
       "details", "next"}

AppTypeOK ==
  /\ app \in [screen : Screen,
              background : BOOLEAN,                     \* backgroundQueueOpenRef
              job : Jobs \cup {NoJob},                  \* activeJobRef and activeJob
              shown : Status,                           \* its status on the card
              batch : Seq(Jobs),                        \* activeBatchJobIdsRef
              completed : SUBSET Jobs,                  \* completedBatchJobsRef
              unsub : Streams \cup {NoStream},          \* unsubscribeRef
              remote : SUBSET Runs,                     \* remoteConfirmRequest
              gate : SUBSET Runs]                       \* nativeDependencyGate
  /\ \A h \in Slots : /\ ops[h].at \in At /\ ops[h].run \in Runs
                      /\ ops[h].job \in Jobs \cup {NoJob}
                      /\ ops[h].ids \in Seq(Jobs \cup {NoJob})
  /\ \A list \in {app.batch} \cup {ops[h].ids : h \in Slots} : Len(list) <= MaxJobs
  /\ clicks \in 0..MaxClicks /\ ffmpeg \in BOOLEAN /\ overlap \in BOOLEAN /\ astray \in BOOLEAN

AppJobsInit ==
  /\ ClientInit
  /\ app = [screen |-> "main-files", background |-> FALSE, job |-> NoJob, shown |-> "none",
            batch |-> <<>>, completed |-> {}, unsub |-> NoStream, remote |-> {}, gate |-> {}]
  /\ ops = [h \in Slots |-> IdleOp]
  /\ overlap = FALSE /\ astray = FALSE

-------------------------------------------------------------------------------
(* Helpers *)

Waiting == {h \in Slots : ops[h].at # "idle"}
FreeSlot(h) == h \notin Waiting /\ \A g \in Slots : g < h => g \in Waiting

Wait(h, op) ==
  /\ ops' = [ops EXCEPT ![h] = op]
  /\ overlap' = (overlap \/ Waiting \ {h} # {})
Over(h) == ops' = [ops EXCEPT ![h] = IdleOp] /\ UNCHANGED overlap

(* What an event changes of the screen, unless the queue is in front.         *)
Show(a, s) == IF a.background THEN a ELSE [a EXCEPT !.screen = s]
Card(a, j, st) == [a EXCEPT !.job = j, !.shown = st]

(* subscribeJobEvents into unsubscribeRef: what it held is not unsubscribed.  *)
Subscribe(a, j, strs) ==
  /\ HasFree(strs)
  /\ app' = [a EXCEPT !.unsub = FirstFree(strs)]
  /\ streams' = Opened(j, strs)

Unsubscribe(a) == /\ app' = [a EXCEPT !.unsub = NoStream]
                  /\ streams' = Unsubscribed(app.unsub)

Dialog == app.remote # {} \/ app.gate # {}
Tap(what) == what \in menu /\ clicks < MaxClicks /\ ~Dialog /\ clicks' = clicks + 1
Click(h, what) == Tap(what) /\ FreeSlot(h)

-------------------------------------------------------------------------------
(* startJob and startToolJob, from a state a of App.                          *)

Selection(run) == ResolveReadyProviderModel("stt", run.asr, run.model, providers, models)

(* The rest of startJob up to its look at ffmpeg.                             *)
AfterLabels(h, run, sel, a) ==
  IF OutputTypeNeedsTranslation(config) /\ ~TranslationOutputReady(config, providers, models)
  THEN Over(h) /\ app' = [a EXCEPT !.screen = "settings-providers"]
  ELSE IF backend = "conflict" /\ config.conflict = "ask" /\ ~run.resolved
  THEN Over(h) /\ app' = [a EXCEPT !.screen = "main-conflict"]
  ELSE IF run.n = 0 THEN Over(h) /\ app' = [a EXCEPT !.screen = "main-files"]
  ELSE Wait(h, [IdleOp EXCEPT !.at = "ffmpeg", !.run = run, !.sel = sel]) /\ app' = a

(* A provider and a model that can run, or none; another pair than the one of *)
(* the settings is saved there first.                                         *)
StartJob(h, run, a) ==
  IF Selection(run) = {} THEN Over(h) /\ app' = [a EXCEPT !.screen = "main-missing"]
  ELSE \E sel \in Selection(run) :
         IF sel = [provider |-> run.asr, model |-> run.model]
         THEN AfterLabels(h, run, sel, a)
         ELSE Wait(h, [IdleOp EXCEPT !.at = "labels", !.run = run, !.sel = sel]) /\ app' = a

(* updateConfig has answered, or failed: the pair is kept either way.         *)
LabelsSaved(h) ==
  /\ ops[h].at = "labels"
  /\ config' = [config EXCEPT !.asr = ops[h].sel.provider, !.asrModel = ops[h].sel.model]
  /\ AfterLabels(h, ops[h].run, ops[h].sel, app)
  /\ UNCHANGED <<clientVars, ffmpeg, clicks, astray>>

(* The audio, or the text, leaves the computer: the user is to agree first.   *)
AudioLeaves(run, sel) == run.type = "transcribe" /\ NeedsConfirmation(sel.provider, providers)
TextLeaves(run) ==
  /\ run.type = "translate_srt" \/ (run.type = "transcribe" /\ OutputTypeNeedsTranslation(config))
  /\ NeedsConfirmation(config.tr, providers)

(* Faulty: a remote translator does not count.                                *)
MustAskForAudio(run, sel) == AudioLeaves(run, sel)
MustAsk(run, sel) == AudioLeaves(run, sel) \/ TextLeaves(run)

(* The dialog of the upload, or on to the jobs.  The dialog shows one         *)
(* provider, that of the audio first; its answer is good for both.            *)
Names(run, sel) == IF AudioLeaves(run, sel) THEN "audio" ELSE "text"

AskOrCreate(h, run, sel, a) ==
  IF MustAsk(run, sel) /\ ~run.confirmed
  THEN Over(h) /\ app' = [a EXCEPT !.remote = {[run EXCEPT !.named = Names(run, sel)]}]
  ELSE Wait(h, [IdleOp EXCEPT !.at = "create", !.run = run, !.sel = sel]) /\ app' = a

StartToolJob(h, run, a) ==
  IF run.type = "burn_in"
  THEN Wait(h, [IdleOp EXCEPT !.at = "ffmpeg", !.run = run]) /\ app' = a
  ELSE AskOrCreate(h, run, NoSel, a)

Start(h, run, a) ==
  IF run.type = "transcribe" THEN StartJob(h, run, a) ELSE StartToolJob(h, run, a)

(* checkNativeDependencies has answered: go on, or open the dialog.           *)
LookedAtFFmpeg(h) ==
  /\ ops[h].at = "ffmpeg"
  /\ IF ffmpeg THEN AskOrCreate(h, ops[h].run, ops[h].sel, app)
     ELSE Over(h) /\ app' = [app EXCEPT !.gate = {ops[h].run}]
  /\ UNCHANGED <<clientVars, config, ffmpeg, clicks, astray>>

(* Faulty: the subscription to the job before is left.                        *)
BatchBeginsLeaving(ids) ==
  Subscribe([Card(app, ids[1], "queued") EXCEPT !.background = FALSE, !.batch = ids,
               !.completed = {}, !.screen = "main-generating"], ids[1], streams)

(* The jobs are made: the batch begins with its first job on the card.        *)
BatchBegins(ids) ==
  Subscribe([Card(app, ids[1], "queued") EXCEPT !.background = FALSE, !.batch = ids,
               !.completed = {}, !.screen = "main-generating"], ids[1], Unsubscribed(app.unsub))

(* A tool's job may be over by the time it is made.                           *)
ToolBegins(j, st) ==
  LET done == st = "succeeded"
      a == [Card(app, j, st) EXCEPT !.background = FALSE, !.batch = <<j>>,
              !.completed = IF done THEN {j} ELSE {},
              !.screen = IF done THEN "main-done" ELSE "main-generating"]
  IN IF done THEN Unsubscribe(a) ELSE Subscribe(a, j, Unsubscribed(app.unsub))

(* createJob has answered for one path of the row.                            *)
JobMade(h) ==
  /\ ops[h].at = "create" /\ CreateJob(ops[h].run.type)
  /\ LET ids == Append(ops[h].ids, NextId) IN
     IF ops[h].run.type = "transcribe" /\ Len(ids) < ops[h].run.n
     THEN Wait(h, [ops[h] EXCEPT !.ids = ids]) /\ UNCHANGED <<app, streams>>
     ELSE /\ Over(h)
          /\ IF ops[h].run.type = "transcribe" THEN BatchBegins(ids)
             ELSE ToolBegins(NextId, ReportAs(NextId, Made(ops[h].run.type)))
  /\ UNCHANGED <<backend, present, timers, config, ffmpeg, clicks, astray>>

-------------------------------------------------------------------------------
(* The user starts jobs *)

Unmoved == UNCHANGED <<clientVars, config, ffmpeg, astray>>

(* main-files stands for the empty screen, the advanced one and the tools.    *)
StartFiles(h, n) ==
  /\ app.screen = "main-files" /\ Click(h, IF n = 1 THEN "start" ELSE "startBatch")
  /\ StartJob(h, [NewRun EXCEPT !.n = n], app) /\ Unmoved

(* The tool offers a translation only when its provider can run.              *)
StartTool(h, type) ==
  /\ app.screen = "main-files" /\ Click(h, "tool")
  /\ type = "translate_srt" => TranslationProviderRunnable(config, providers)
  /\ StartToolJob(h, [NewRun EXCEPT !.type = type, !.n = 1], app) /\ Unmoved

(* The card's first path again.                                               *)
RetryJob(h) ==
  /\ app.screen \in {"queue-detail", "queue-failed"} /\ app.shown \in {"failed", "canceled"}
  /\ Click(h, "retry") /\ StartJob(h, [NewRun EXCEPT !.n = 1, !.resolved = TRUE], app) /\ Unmoved

(* Overwrite, or save as: the choice is saved first.                          *)
ResolveConflict(h) ==
  /\ app.screen = "main-conflict" /\ Click(h, "resolve")
  /\ Wait(h, [IdleOp EXCEPT !.at = "resolve", !.run = [NewRun EXCEPT !.n = 1, !.resolved = TRUE]])
  /\ UNCHANGED app /\ Unmoved

ConflictResolved(h) ==
  /\ ops[h].at = "resolve" /\ StartJob(h, ops[h].run, app)
  /\ UNCHANGED <<clientVars, config, ffmpeg, clicks, astray>>

(* The dialog of the upload: the same call begins anew, confirmed.            *)
ConfirmRemote(h) ==
  /\ FreeSlot(h)
  /\ \E run \in app.remote : Start(h, [run EXCEPT !.confirmed = TRUE, !.agreed = {run.named}],
                                   [app EXCEPT !.remote = {}])
  /\ UNCHANGED clicks /\ Unmoved

(* The dialog of ffmpeg: an installation, or a directory with the pair.  The  *)
(* dialog may be closed meanwhile: the installation goes on, and the call     *)
(* begins anew after it, or the dialog is back.                               *)
InstallFFmpeg(h) ==
  /\ FreeSlot(h) /\ \A g \in Slots : ops[g].at # "install"
  /\ \E run \in app.gate : Wait(h, [IdleOp EXCEPT !.at = "install", !.run = run])
  /\ UNCHANGED <<app, clicks>> /\ Unmoved

FFmpegInstalled(h) ==
  /\ ops[h].at = "install"
  /\ \/ ffmpeg' = TRUE /\ Start(h, ops[h].run, [app EXCEPT !.gate = {}])
     \/ UNCHANGED ffmpeg /\ Over(h) /\ app' = [app EXCEPT !.gate = {ops[h].run}]
  /\ UNCHANGED <<clientVars, config, clicks, astray>>

CloseDialog ==
  /\ Dialog /\ app' = [app EXCEPT !.remote = {}, !.gate = {}]
  /\ UNCHANGED <<ops, clicks, overlap>> /\ Unmoved

==============================================================================
