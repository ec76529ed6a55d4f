----------------------------- MODULE MCRenderer -----------------------------
(***************************************************************************)
(* The renderer for TLC, in scenes: the jobs of App with fixed providers   *)
(* and models, its settings with no job, the path of one output, the media *)
(* files, the queue and its log panel, the history of the pages.           *)
(* A setup of the jobs fixes the client, the configuration and the kinds   *)
(* of clicks, so that each interplay is met in a small graph.              *)
(***************************************************************************)
EXTENDS AppEvents, AppSettings, OutputPaths, MediaFiles, QueueScreens, PageHistory, TLC

VARIABLE scene

SettingScenes == {"config", "cards", "keys", "models"}

Provider(id, cap, kd, st, lv, nm) ==
  [id |-> id, capability |-> cap, kind |-> kd, enabled |-> st = "available", state |-> st,
   live |-> lv, confirm |-> kd \in {"api", "web"}, needsModel |-> nm]
Model(id, kd, st, fit, mn) ==
  [id |-> id, kind |-> kd, state |-> st, fits |-> fit, main |-> mn, defaultFor |-> {}]

Base == Defaults

JobProviders ==
  <<Provider("local-faster-whisper", "stt", "local", "available", FALSE, TRUE),
    Provider("api-asr", "stt", "api", "available", TRUE, FALSE),
    Provider("local-nllb-ct2", "translation", "local", "missing", FALSE, TRUE),
    Provider("web-bing", "translation", "web", "available", FALSE, FALSE)>>
JobModels ==
  <<Model("small", "asr", "ready", {"local-faster-whisper"}, TRUE),
    Model("turbo", "asr", "missing", {"local-faster-whisper"}, FALSE)>>

Burn == [Base EXCEPT !.burnIn = TRUE]
Bing == [Base EXCEPT !.output = "translated_srt", !.tr = "web-bing"]
Setup(b, c, f, pr, n, m) ==
  [backend |-> b, config |-> c, ffmpeg |-> f, present |-> pr, clicks |-> MaxClicks - n, menu |-> m]
Setups == {
  Setup("daemon", Base, TRUE, {}, 3, {"startBatch", "background", "open"}),
  Setup("daemon", Base, TRUE, {}, 2, {"start", "startBatch", "go", "cancel", "retry", "delete"}),
  Setup("daemon", Base, TRUE, {}, 3, {"startBatch", "background", "cancelMany", "deleteMany"}),
  Setup("daemon", Base, TRUE, {1}, 2, {"start", "startBatch", "background", "cancelAll"}),
  Setup("daemon", [Base EXCEPT !.asrModel = "turbo"], TRUE, {}, 2, {"start", "startBatch"}),
  Setup("daemon", [Base EXCEPT !.output = "translated_srt"], TRUE, {}, 2, {"start"}),
  Setup("daemon", Burn, TRUE, {}, 2, {"start", "startBatch", "background"}),
  Setup("daemon", [Bing EXCEPT !.asr = "api-asr"], FALSE, {}, 2, {"start", "tool"}),
  Setup("daemon", [Bing EXCEPT !.asr = "gone", !.output = "bilingual_srt"], FALSE, {}, 2, {"start"}),
  Setup("ok", [Burn EXCEPT !.asr = "api-asr"], TRUE, {}, 3, {"start", "startBatch", "tool"}),
  Setup("conflict", Base, TRUE, {}, 3, {"start", "startBatch", "resolve", "cancelAll"}),
  Setup("failed", Base, TRUE, {}, 3, {"start", "startBatch", "retry", "delete"}),
  Setup("canceled", Base, TRUE, {}, 3, {"start", "startBatch", "cancel"})}

(* The settings begin with an API that has not been asked live, a provider    *)
(* without its runtime, and a model that is not there; on the cards, the      *)
(* local translation and its model are there.                                 *)
Chat == Provider("api-chat", "translation", "api", "available", FALSE, FALSE)
StoredProviders ==
  IF scene = "cards"
  THEN <<Provider("local-nllb-ct2", "translation", "local", "available", FALSE, TRUE), Chat>>
  ELSE <<Provider("local-faster-whisper", "stt", "local", "missing_dependency", FALSE, TRUE), Chat>>
StoredModels ==
  IF scene = "cards" THEN <<Model("nllb", "translation", "ready", {"local-nllb-ct2"}, FALSE)>>
  ELSE <<Model("turbo", "asr", "missing", {"local-faster-whisper"}, FALSE)>>
SettingRows == {[output |-> "translated_srt"], [device |-> "gpu", place |-> "custom"]}

(* In the other scenes nothing is said of the settings.                       *)
NoSettings ==
  /\ providers = JobProviders /\ models = JobModels
  /\ installJobs = [m \in Range(Ids(JobModels)) |-> "none"]
  /\ stored = [config |-> DefaultView, file |-> [lang |-> "auto"], key |-> FALSE,
               providers |-> JobProviders, models |-> JobModels, installs |-> installJobs]
  /\ calls = [h \in Calls |-> IdleCall] /\ following = {} /\ asking = <<>> /\ checked = {}
  /\ drafts = NoPage /\ acts = 0 /\ mixed = TRUE /\ failed = FALSE /\ unwritten = FALSE

(* The files and the output of a job have scenes of their own.                *)
Video(dir, stem, ext) == [dir |-> dir, stem |-> stem, ext |-> ext]
Orders ==
  {[type |-> "transcribe", input |-> Video("videos", s, "mp4"), format |-> f] :
     s \in {<<"talk", "part">>, <<"bad">>}, f \in {"vtt", "txt"}}
  \cup {[type |-> "transcribe", input |-> Video("root", <<"talk">>, "mp4"), format |-> "srt"]}
  \cup {[type |-> t, input |-> Video("videos", <<"talk">>, e), format |-> "srt"] :
          t \in {"translate_srt", "burn_in"}, e \in {"srt", "md"}}
Places == [location : {"source", "custom"}, selected : {"mock", "chosen"}]
NoPaths == PathsInit({[type |-> "burn_in", input |-> Video("videos", <<"talk">>, "mp4"), format |-> "srt"]},
                     {[location |-> "source", selected |-> "mock"]})

Trees == {
  <<1>> :> "media" @@ <<2>> :> "dir" @@ <<2, 1>> :> "media" @@ <<2, 2>> :> "locked"
    @@ <<2, 2, 1>> :> "media" @@ <<2, 3>> :> "media" @@ <<3>> :> "other" @@ <<4>> :> "media",
  <<1>> :> "skipped" @@ <<1, 1>> :> "media" @@ <<2>> :> "dir" @@ <<2, 1>> :> "link" @@ <<2, 2>> :> "other"}
NoFiles == FilesInit({<<1>> :> "media"})
NoQueue == QueueInit /\ filter = "all"
NoPages == PagesInit /\ onboarded

Fixed ==
  /\ NoSettings /\ config = Base /\ backend = "daemon" /\ ffmpeg = TRUE /\ present = {} /\ menu = {}
  /\ clicks = MaxClicks

MCInit ==
  /\ AppJobsInit
  /\ \/ /\ scene = "jobs" /\ NoSettings /\ NoPaths /\ NoFiles /\ NoQueue /\ NoPages
        /\ providers = JobProviders /\ models = JobModels
        /\ \E s \in Setups : /\ backend = s.backend /\ config = s.config /\ ffmpeg = s.ffmpeg
                             /\ present = s.present /\ menu = s.menu /\ clicks = s.clicks
     \/ /\ scene \in SettingScenes /\ NoPaths /\ NoFiles /\ NoQueue /\ NoPages
        /\ AppSettingsInit([tr |-> "api-chat", output |-> "burned_video"], StoredProviders, StoredModels)
        /\ backend \in (IF scene \in {"cards", "config"} THEN {"daemon"} ELSE {"daemon", "ok"})
        /\ ffmpeg = TRUE /\ present = {} /\ menu = {} /\ clicks = MaxClicks
     \/ scene = "paths" /\ Fixed /\ PathsInit(Orders, Places) /\ NoFiles /\ NoQueue /\ NoPages
     \/ scene = "files" /\ Fixed /\ NoPaths /\ FilesInit(Trees) /\ NoQueue /\ NoPages
     \/ scene \in {"queue", "logs"} /\ Fixed /\ NoPaths /\ NoFiles /\ QueueInit /\ NoPages
     \/ scene = "pages" /\ Fixed /\ NoPaths /\ NoFiles /\ NoQueue /\ PagesInit

settingsOnly == <<stored, calls, installJobs, following, asking, checked, drafts, acts, mixed, failed, unwritten>>
jobsOnly == <<clientVars, ffmpeg, app, ops, clicks, menu, overlap, astray>>

OfJobs(A) == scene = "jobs" /\ A /\ UNCHANGED <<settingsOnly, pathVars, fileVars, queueVars, pageVars, scene>>
OfSettings(A) == scene \in SettingScenes /\ A /\ UNCHANGED <<jobsOnly, pathVars, fileVars, queueVars, pageVars, scene>>
OfPaths(A) == scene = "paths" /\ A /\ UNCHANGED <<jobVars, settingVars, fileVars, queueVars, pageVars, scene>>
OfFiles(A) == scene = "files" /\ A /\ UNCHANGED <<jobVars, settingVars, pathVars, queueVars, pageVars, scene>>
OfQueue(A) == scene = "queue" /\ A /\ UNCHANGED <<jobVars, settingVars, pathVars, fileVars, pageVars, scene>>
OfLogs(A) == scene = "logs" /\ A /\ UNCHANGED <<jobVars, settingVars, pathVars, fileVars, pageVars, scene>>
OfPages(A) == scene = "pages" /\ A /\ UNCHANGED <<jobVars, settingVars, pathVars, fileVars, queueVars, scene>>

(* The scenes of the settings are the kinds of what the user does.            *)
SceneNext ==
  \/ SettingsGoOn
  \/ scene \in {"cards", "keys"} /\ OpenPage
  \/ \E h \in Calls :
       \/ scene = "config" /\ (ActsOnConfig(h) \/ Unreachable(h))
       \/ scene = "cards" /\ ActsOnCards(h)
       \/ scene = "keys" /\ ActsOnKeys(h)
       \/ scene = "models" /\ ActsOnModels(h)

(* JobsSpec with its fairness, or another scene.                              *)
MCSpec ==
  /\ MCInit
  /\ [][OfJobs(JobsNext) \/ OfSettings(SceneNext) \/ OfPaths(PathsNext) \/ OfFiles(FilesNext)
       \/ OfQueue(ListNext) \/ OfLogs(PanelNext)
       \/ OfPages(PagesNext)]_
       <<jobVars, settingVars, pathVars, fileVars, queueVars, pageVars, scene>>
  /\ WF_jobVars(OfJobs(JobsProgress))

(* Every variable of the modules keeps its type, and the lists are of the     *)
(* form that the proofs take.                                                 *)
TypesOK == ListsOK /\ ClientTypeOK /\ AppTypeOK /\ SettingsTypeOK /\ PathsTypeOK /\ FilesTypeOK /\ QueueTypeOK
           /\ PagesTypeOK
==============================================================================
