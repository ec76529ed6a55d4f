----------------------------- MODULE AppSettings -----------------------------
(***************************************************************************)
(* The settings of App (AppShell.tsx) and their screens (settings.tsx,     *)
(* setup.tsx): the configuration, the providers and the models as the      *)
(* daemon (or the mock) stores them, and as App shows them.                *)
(*                                                                         *)
(* App reads them again after most changes.  A request is served at one    *)
(* moment and answered at a later one; requests overtake each other.  What *)
(* App shows is changed by answers, by the events of an installation, by   *)
(* the live check that App makes by itself, and for a patch of the         *)
(* configuration already before the request.                               *)
(***************************************************************************)
EXTENDS AppState, Configuration, FastSubClient

CONSTANTS Calls,     \* bound: functions that wait at a time, a set of numbers
          MaxActs,   \* bound: what the user does
          Rows       \* the patches of the plain rows of the settings

ASSUME CallsAssumption == Calls \subseteq Nat /\ Calls # {}

VARIABLES
  stored,       \* [config, file, key, providers, models, installs], behind the client
  calls,        \* [Calls -> [at, arg, id, after, got]]: functions of App that wait
  installJobs,  \* the status of the installation of a model, or "none"
  following,    \* modelInstallUnsubscribeRef: the models whose events App hears
  asking,       \* autoTranslationProviderChecksInFlightRef, one key per request
  checked,      \* autoTranslationProviderChecksRef
  drafts,       \* providerDrafts of the page of the providers; NoPage while it is not open
  acts,         \* clicks so far
  mixed,        \* history: two functions have waited at a time
  failed,       \* history: a request did not reach the daemon
  unwritten     \* history: the view in the daemon's memory is not in its file

settingVars == <<config, providers, models, stored, calls, installJobs, following, asking,
                 checked, drafts, acts, mixed, failed, unwritten>>
shownVars == <<config, providers, models>>

ActiveInstall == {"queued", "running", "canceling"}
EndOfInstall == {"succeeded", "failed", "canceled"}
ModelIds == DOMAIN installJobs
IdleCall == [at |-> "idle", arg |-> <<>>, id |-> "", after |-> "", got |-> {}]
CallAt == {"idle", "load", "providers", "update", "persist", "restart", "reread", "save", "delete",
           "secretProviders", "live", "static", "refresh", "dependency", "install", "remove", "cleanup"}
NoPage == [none |-> "none"]

SettingsTypeOK ==
  /\ DOMAIN calls = Calls
  /\ \A h \in Calls : calls[h].at \in CallAt /\ Cardinality(calls[h].got) <= 1
  /\ DOMAIN config = DOMAIN Defaults /\ DOMAIN stored.config = DOMAIN DefaultView
  /\ DOMAIN stored.file \subseteq PlainFields \cup {"alias"} /\ stored.key \in BOOLEAN
  /\ \A m \in ModelIds : /\ installJobs[m] \in ActiveInstall \cup EndOfInstall \cup {"none"}
                         /\ stored.installs[m] \in ActiveInstall \cup EndOfInstall \cup {"none"}
  /\ following \subseteq ModelIds
  /\ acts \in 0..MaxActs /\ {mixed, failed, unwritten} \subseteq BOOLEAN

(* Mounted: loadBaseData is on its way.                                       *)
AppSettingsInit(file, ps, ms) ==
  /\ config = Defaults /\ providers = <<>> /\ models = <<>>
  /\ installJobs = [m \in Range(Ids(ms)) |-> "none"]
  /\ stored = [config |-> Loaded(file), file |-> file, key |-> FALSE,
               providers |-> ps, models |-> ms, installs |-> installJobs]
  /\ calls = [h \in Calls |-> IF \A g \in Calls : h <= g THEN [IdleCall EXCEPT !.at = "load"] ELSE IdleCall]
  /\ following = {} /\ asking = <<>> /\ checked = {} /\ drafts = NoPage
  /\ acts = 0 /\ mixed = FALSE /\ failed = FALSE /\ unwritten = FALSE

-------------------------------------------------------------------------------
(* Requests *)

Change(list, id, New(_)) ==
  [i \in DOMAIN list |-> IF list[i].id = id THEN New(list[i]) ELSE list[i]]
WithState(list, id, st) == Change(list, id, LAMBDA x : [x EXCEPT !.state = st])

(* The key of an API provider at the mock: its state goes by it, but the mode *)
(* of its last check only with a key that is saved.                           *)
MockKey(saved, id) ==
  [stored EXCEPT !.key = saved,
     !.config.api = IF saved THEN "configured" ELSE "missing",
     !.providers = Change(@, id, LAMBDA p :
        [p EXCEPT !.state = IF saved THEN "available" ELSE "missing_api_key",
                  !.enabled = saved, !.live = ~saved /\ p.live])]

(* What a request may do at the other side.  An installation answers as a     *)
(* queued job, or (the mock) as one that is over.  Removing a model leaves    *)
(* its installation in the daemon.                                            *)
Effects(c) ==
  CASE c.at = "update" -> {[stored EXCEPT !.config = MergeConfigView(@, ConfigPatch(c.arg))]}
    [] c.at = "save" -> {MockKey(TRUE, c.id)}
    [] c.at = "delete" -> {MockKey(FALSE, c.id)}
    [] c.at = "dependency" ->
         {stored, [stored EXCEPT !.providers =
                     Change(@, c.id, LAMBDA p : [p EXCEPT !.state = "available", !.enabled = TRUE])]}
    [] c.at = "install" ->
         {[stored EXCEPT !.installs[c.id] = st,
             !.models = IF st = "queued" THEN @
                        ELSE WithState(@, c.id, IF st = "failed" THEN "failed" ELSE "ready")] :
            st \in IF Mock THEN {"succeeded", "failed"} ELSE {"queued"}}
    [] c.at = "remove" -> {[stored EXCEPT !.models = WithState(@, c.id, "missing")]}
    [] OTHER -> {stored}

(* Requests that are served in one step; the daemon's patch and keys are not. *)
Serve(h) ==
  /\ calls[h].at \notin {"idle", "persist", "restart"} /\ calls[h].got = {}
  /\ Mock \/ calls[h].at \notin {"update", "save", "delete"}
  /\ \E s \in Effects(calls[h]) : stored' = s /\ calls' = [calls EXCEPT ![h].got = {s}]
  /\ UNCHANGED <<shownVars, installJobs, following, asking, checked, drafts, acts, mixed, failed, unwritten>>

-------------------------------------------------------------------------------
(* The daemon's configuration and the keys in the main process                *)

Apart == UNCHANGED <<shownVars, installJobs, following, asking, checked, drafts, acts, mixed, failed>>

(* saveProviderSecret and deleteProviderSecret of ipc.ts: the key, then a     *)
(* patch of its alias, then a restart of the daemon.                          *)
KeyWritten(h) ==
  LET c == calls[h] IN
  /\ ~Mock /\ c.at \in {"save", "delete"} /\ c.got = {}
  /\ stored' = [stored EXCEPT !.key = c.at = "save"]
  /\ calls' = [calls EXCEPT ![h].at = "update", ![h].after = c.at, ![h].arg = [alias |-> c.at = "save"]]
  /\ Apart /\ UNCHANGED unwritten

(* The system keeps no secrets.                                               *)
KeyRefused(h) ==
  /\ ~Mock /\ calls[h].at = "save" /\ calls[h].got = {}
  /\ calls' = [calls EXCEPT ![h] = IdleCall]
  /\ UNCHANGED stored /\ Apart /\ UNCHANGED unwritten

(* handleConfig: merged under the lock,                                       *)
Merge(h) ==
  LET c == calls[h]
      view == MergeConfigView(stored.config, ConfigPatch(c.arg))
  IN /\ ~Mock /\ c.at = "update" /\ c.got = {} /\ ValidConfigPatch(ConfigPatch(c.arg))
     /\ stored' = [stored EXCEPT !.config = view]
     /\ calls' = [calls EXCEPT ![h].at = "persist", ![h].arg = view]
     /\ Apart /\ UNCHANGED unwritten

(* and written to the file outside of it: the view of this patch, not of now. *)
Persist(h) ==
  LET c == calls[h]
      s == [stored EXCEPT !.file = ConfigFile(c.arg)]
  IN /\ c.at = "persist" /\ stored' = s /\ unwritten' = FALSE
     /\ calls' = [calls EXCEPT ![h] =
          IF c.after \in {"save", "delete"} THEN [c EXCEPT !.at = "restart"]
          ELSE [c EXCEPT !.at = "update", !.got = {[s EXCEPT !.config = c.arg]}]]
     /\ Apart

(* The file cannot be written: the patch stays in the daemon's memory.        *)
NotPersisted(h) ==
  LET c == calls[h] IN
  /\ c.at = "persist" /\ unwritten' = TRUE
  /\ calls' = [calls EXCEPT ![h] =
       IF c.after \in {"save", "delete"} THEN IdleCall ELSE [IdleCall EXCEPT !.at = "reread"]]
  /\ UNCHANGED stored /\ Apart

(* repairDaemon after a key: the view of the file, and an installation that   *)
(* ran is interrupted, which App is told as a failure; a queued one is queued *)
(* again.  What is answered is the view from before; a failed repair is       *)
(* nothing.                                                                   *)
Restart(h) ==
  LET c == calls[h]
      s == [stored EXCEPT !.config = Loaded(stored.file),
              !.installs = [m \in ModelIds |->
                 IF stored.installs[m] = "running" THEN "failed" ELSE stored.installs[m]]]
  IN /\ c.at = "restart"
     /\ \E after \in {s, stored} :
          /\ stored' = after
          /\ calls' = [calls EXCEPT ![h] =
               [c EXCEPT !.at = c.after, !.got = {[after EXCEPT !.config = c.arg]}]]
     /\ Apart /\ UNCHANGED unwritten

(* The installation of a model goes on behind the client.  The daemon lists a *)
(* model by what is on the disk: nothing but a success makes one ready, and   *)
(* what is there is left as it is.                                            *)
InstallMoves(m) ==
  /\ stored.installs[m] \in ActiveInstall
  /\ \E st \in {"running", "succeeded", "failed", "canceled"} \ {stored.installs[m]} :
       stored' = [stored EXCEPT !.installs[m] = st,
                    !.models = IF st = "succeeded" THEN WithState(@, m, "ready") ELSE @]
  /\ UNCHANGED <<shownVars, calls, installJobs, following, asking, checked, drafts, acts, mixed, failed, unwritten>>

-------------------------------------------------------------------------------
(* Functions that wait *)

FreeCall(h) == calls[h].at = "idle" /\ \A g \in Calls : g < h => calls[g].at # "idle"
Await(h, call) ==
  /\ calls' = [calls EXCEPT ![h] = call]
  /\ mixed' = (mixed \/ \E g \in Calls \ {h} : calls[g].at # "idle")
Returns(h) == calls' = [calls EXCEPT ![h] = IdleCall] /\ UNCHANGED mixed
Answer(h, at) == calls[h].at = at /\ calls[h].got # {}
Got(h) == CHOOSE s \in calls[h].got : TRUE
Load == [IdleCall EXCEPT !.at = "load"]

Quiet == UNCHANGED <<stored, installJobs, following, asking, checked, drafts, acts, failed, unwritten>>

(* Faulty: a request in flight is asked for again.                            *)
KeysNotChecked(cfg, ps) ==
  {TranslationProviderCheckKey(cfg, p.id) :
     p \in {q \in TranslationProvider(cfg, ps) : ShouldAutoCheckTranslationProvider(q)}} \ checked

(* The key of the live check that App is to make by itself: once for the      *)
(* settings of an API, whatever comes of it.                                  *)
KeysToCheck(cfg, ps) ==
  {TranslationProviderCheckKey(cfg, p.id) :
     p \in {q \in TranslationProvider(cfg, ps) : ShouldAutoCheckTranslationProvider(q)}}
    \ (checked \cup Range(asking))

(* loadBaseData: the configuration and the models together, then the          *)
(* providers, which may be checked at once.                                   *)
BaseLoaded(h) ==
  /\ Answer(h, "load")
  /\ config' = MapConfig(Got(h).config) /\ models' = Got(h).models
  /\ Await(h, [IdleCall EXCEPT !.at = "providers", !.arg = MapConfig(Got(h).config)])
  /\ Quiet /\ UNCHANGED providers

ProvidersListed(h) ==
  /\ Answer(h, "providers") /\ providers' = Got(h).providers
  /\ asking' = asking \o SetToSeq(KeysToCheck(calls[h].arg, Got(h).providers))
  /\ Returns(h)
  /\ UNCHANGED <<config, models, stored, installJobs, following, checked, drafts, acts, failed, unwritten>>

(* The effect on [config, providers].                                         *)
AutoCheck ==
  /\ \E key \in KeysToCheck(config, providers) : asking' = Append(asking, key)
  /\ UNCHANGED <<shownVars, stored, calls, installJobs, following, checked, drafts, acts, mixed, failed, unwritten>>

(* The live check ends: with a provider, or with an error, which is dropped.  *)
Lived(id, ps, st) ==
  Change(ps, id, LAMBDA p : [p EXCEPT !.state = st, !.enabled = st = "available", !.live = TRUE])

AutoChecked(i) ==
  /\ checked' = checked \cup {asking[i]} /\ asking' = RemoveAt(asking, i)
  /\ \/ UNCHANGED providers
     \/ \E st \in {"available", "missing_api_key"} : providers' = Lived(asking[i][1], providers, st)
  /\ UNCHANGED <<config, models, stored, calls, installJobs, following, drafts, acts, mixed, failed, unwritten>>

(* updateConfig: what the daemon has made of it is shown, and the check of    *)
(* the card goes on.                                                          *)
ConfigUpdated(h) ==
  /\ Answer(h, "update") /\ config' = MapConfig(Got(h).config)
  /\ IF calls[h].after = "live" THEN Await(h, [IdleCall EXCEPT !.at = "live", !.id = calls[h].id])
     ELSE Returns(h)
  /\ Quiet /\ UNCHANGED <<providers, models>>

(* Faulty: the patch that was refused stays.                                  *)
UpdateDropped(h) ==
  /\ calls[h].at = "update" /\ calls[h].got = {} /\ Returns(h)
  /\ Quiet /\ UNCHANGED shownVars

(* The daemon refuses the patch, or the request is lost: App asks for what is *)
(* stored.  The patch after a key is the main process's: its function throws. *)
UpdateRefused(h) ==
  /\ calls[h].at = "update" /\ calls[h].got = {}
  /\ IF calls[h].after \in {"save", "delete"} THEN Returns(h)
     ELSE Await(h, [IdleCall EXCEPT !.at = "reread"])
  /\ Quiet /\ UNCHANGED shownVars

ConfigReread(h) ==
  /\ Answer(h, "reread") /\ config' = MapConfig(Got(h).config) /\ Returns(h)
  /\ Quiet /\ UNCHANGED <<providers, models>>

(* saveProviderSecret and deleteProviderSecret.                               *)
SecretStored(h) ==
  /\ Answer(h, "save") \/ Answer(h, "delete")
  /\ config' = MapConfig(Got(h).config)
  /\ Await(h, [IdleCall EXCEPT !.at = "secretProviders"])
  /\ Quiet /\ UNCHANGED <<providers, models>>

SecretProvidersListed(h) ==
  /\ Answer(h, "secretProviders") /\ providers' = Got(h).providers /\ Returns(h)
  /\ Quiet /\ UNCHANGED <<config, models>>

(* testProvider: live of an API, static of the others.                        *)
ProviderTested(h) ==
  /\ \/ /\ Answer(h, "live")
        /\ \E st \in {"available", "missing_api_key"} : providers' = Lived(calls[h].id, providers, st)
     \/ /\ Answer(h, "static")
        /\ \E p \in Range(Got(h).providers) :
             p.id = calls[h].id /\ providers' = Change(providers, p.id, LAMBDA q : p)
  /\ Returns(h) /\ Quiet /\ UNCHANGED <<config, models>>

(* refreshProviders: a static check of each, which takes an API's live one    *)
(* away from it.                                                              *)
ProvidersRefreshed(h) ==
  /\ Answer(h, "refresh")
  /\ providers' = [i \in DOMAIN providers |->
        CHOOSE p \in Range(Got(h).providers) : p.id = providers[i].id]
  /\ Returns(h) /\ Quiet /\ UNCHANGED <<config, models>>

(* installProviderDependency, removeModel and cleanupLocalData: then all anew.*)
DependencyInstalled(h) ==
  /\ Answer(h, "dependency")
  /\ \E p \in Range(Got(h).providers) :
       p.id = calls[h].id /\ providers' = Change(providers, p.id, LAMBDA q : p)
  /\ Await(h, Load) /\ Quiet /\ UNCHANGED <<config, models>>

ModelRemoved(h) ==
  /\ Answer(h, "remove")
  /\ models' = WithState(models, calls[h].id, "missing")
  /\ Await(h, Load) /\ Quiet /\ UNCHANGED <<config, providers>>

CleanedUp(h) ==
  /\ Answer(h, "cleanup") /\ Await(h, Load) /\ Quiet /\ UNCHANGED shownVars

(* installModel: its job is followed, unless it is over.                      *)
InstallState(st) ==
  CASE st = "failed" -> "failed" [] st = "succeeded" -> "ready" [] OTHER -> "installing"
ModelInstalls(h) ==
  LET m == calls[h].id
      st == Got(h).installs[m]
  IN /\ Answer(h, "install")
     /\ installJobs' = [installJobs EXCEPT ![m] = st]
     /\ models' = WithState(models, m, InstallState(st))
     /\ IF st \in ActiveInstall THEN following' = following \cup {m} /\ Returns(h)
        ELSE following' = following \ {m} /\ Await(h, Load)
     /\ UNCHANGED <<config, providers, stored, asking, checked, drafts, acts, failed, unwritten>>

(* updateModelInstallFromEvent: first the job as it was queued, then what it  *)
(* does, which may be over by then.  A success is read back; a cancellation   *)
(* does not touch the model, which stays "installing" on its card.            *)
InstallSnapshot(m) ==
  /\ m \in following /\ installJobs' = [installJobs EXCEPT ![m] = "queued"]
  /\ UNCHANGED <<shownVars, stored, calls, following, asking, checked, drafts, acts, mixed, failed, unwritten>>

InstallProgress(m) ==
  /\ m \in following /\ stored.installs[m] # "queued"
  /\ installJobs' = [installJobs EXCEPT ![m] = "running"]
  /\ models' = WithState(models, m, "installing")
  /\ UNCHANGED <<config, providers, stored, calls, following, asking, checked, drafts, acts, mixed, failed, unwritten>>

InstallEnded(m, h) ==
  LET st == stored.installs[m] IN
  /\ m \in following /\ st \in EndOfInstall /\ FreeCall(h)
  /\ installJobs' = [installJobs EXCEPT ![m] = st]
  /\ models' = IF st = "canceled" THEN models ELSE WithState(models, m, InstallState(st))
  /\ following' = following \ {m}
  /\ IF st = "succeeded" THEN Await(h, Load) ELSE Returns(h)
  /\ UNCHANGED <<config, providers, stored, asking, checked, drafts, acts, failed, unwritten>>

(* The daemon is away: getConfig answers the defaults, the lists are empty,   *)
(* a check finds "not_implemented", and any other function throws.  Once (a   *)
(* bound).                                                                    *)
Unreachable(h) ==
  /\ ~failed /\ calls[h].at \notin {"idle", "persist", "restart"} /\ calls[h].got = {}
  /\ failed' = TRUE
  /\ config' = IF \/ calls[h].at \in {"load", "reread"}
                  \/ (calls[h].at = "update" /\ calls[h].after \in {"", "live"})
               THEN Defaults ELSE config
  /\ models' = IF calls[h].at = "load" THEN <<>> ELSE models
  /\ providers' = CASE calls[h].at \in {"providers", "secretProviders"} -> <<>>
                    [] calls[h].at = "refresh" ->
                         [i \in DOMAIN providers |->
                           [providers[i] EXCEPT !.state = "not_implemented", !.enabled = FALSE, !.live = FALSE]]
                    [] calls[h].at \in {"live", "static"} ->
                         Change(providers, calls[h].id, LAMBDA p :
                           [p EXCEPT !.state = "not_implemented", !.enabled = FALSE, !.live = FALSE])
                    [] OTHER -> providers
  /\ IF calls[h].at = "load"
     THEN Await(h, [IdleCall EXCEPT !.at = "providers", !.arg = Defaults]) ELSE Returns(h)
  /\ UNCHANGED <<stored, installJobs, following, asking, checked, drafts, acts, unwritten>>

-------------------------------------------------------------------------------
(* The user *)

Act(h) == acts < MaxActs /\ FreeCall(h) /\ acts' = acts + 1
Unheard == UNCHANGED <<stored, installJobs, following, asking, checked, failed, unwritten>>
Request(h, at, id) ==
  /\ Act(h) /\ Await(h, [IdleCall EXCEPT !.at = at, !.id = id]) /\ Unheard

(* Faulty: the patch takes the place of the whole configuration.              *)
UpdateConfigReplacing(h, patch, after, id) ==
  \E p \in NormalizeConfigPatch(patch, config, providers, models) :
    /\ Act(h) /\ config' = p
    /\ Await(h, [IdleCall EXCEPT !.at = "update", !.arg = p, !.after = after, !.id = id])
    /\ Unheard /\ UNCHANGED <<providers, models>>

(* updateConfig of App: shown at once.                                        *)
UpdateConfig(h, patch, after, id) ==
  \E p \in NormalizeConfigPatch(patch, config, providers, models) :
    /\ Act(h) /\ config' = Patched(config, p)
    /\ Await(h, [IdleCall EXCEPT !.at = "update", !.arg = p, !.after = after, !.id = id])
    /\ Unheard /\ UNCHANGED <<providers, models>>

ChangeRow(h) == \E patch \in Rows : UpdateConfig(h, patch, "", "")

(* ProviderDropdown: an enabled and available one.                            *)
SelectProvider(h, p) ==
  /\ p.enabled /\ p.state = "available"
  /\ UpdateConfig(h, IF p.capability = "stt" THEN [asr |-> p.id] ELSE [tr |-> p.id], "", "")

(* The page of the providers.  A card keeps a draft of what it will set when  *)
(* it becomes the default: the configuration as it was when the page was      *)
(* opened, or when the provider first came to the list.                       *)
Page == drafts # NoPage
ProviderDraftFromConfig(cfg) ==
  [model |-> "", device |-> cfg.device, words |-> cfg.words, lang |-> cfg.lang, url |-> cfg.url]
Draft(p) == IF p.id \in DOMAIN drafts THEN drafts[p.id] ELSE ProviderDraftFromConfig(config)
Drafted == {p.id : p \in Range(providers)} \cup (IF Page THEN DOMAIN drafts ELSE {})

OpenPage ==
  /\ ~Page
  /\ drafts' = [id \in {p.id : p \in Range(providers)} |-> ProviderDraftFromConfig(config)]
  /\ UNCHANGED <<shownVars, stored, calls, installJobs, following, asking, checked, acts, mixed, failed, unwritten>>

(* The effect on [config, providers].                                         *)
DraftsFollow ==
  /\ Page /\ Drafted # DOMAIN drafts
  /\ drafts' = [id \in Drafted |->
       IF id \in DOMAIN drafts THEN drafts[id] ELSE ProviderDraftFromConfig(config)]
  /\ UNCHANGED <<shownVars, stored, calls, installJobs, following, asking, checked, acts, mixed, failed, unwritten>>

IsDefault(p) == p.id = IF p.capability = "stt" THEN config.asr ELSE config.tr
CompatibleModels(p) ==
  SelectSeq(models, LAMBDA m : m.kind = ModelKind[p.capability] /\ ModelCompatible(m, p.id))

(* The model that the select of the card shows.                               *)
ProviderControlValue(active, drafted, fitting) ==
  IF drafted \in Range(Ids(fitting)) THEN drafted
  ELSE IF active \in Range(Ids(fitting)) THEN active
  ELSE IF fitting = <<>> THEN "" ELSE fitting[1].id

(* What the controls of a card may be set to, and the field of the            *)
(* configuration that each stands for.                                        *)
Controls(p) ==
  IF p.kind = "api" THEN {<<"url", "url", "other">>}
  ELSE IF p.capability = "stt"
  THEN {<<"device", "device", "gpu">>, <<"words", "words", TRUE>>}
         \cup {<<"model", "asrModel", m>> : m \in Range(Ids(CompatibleModels(p)))}
  ELSE {<<"lang", "lang", "en">>} \cup {<<"model", "trModel", m>> : m \in Range(Ids(CompatibleModels(p)))}

(* The draft is set; a card that is the default, and the base URL of any,     *)
(* changes the configuration too.                                             *)
ChangeDraft(h, p, control) ==
  /\ drafts' = (p.id :> [Draft(p) EXCEPT ![control[1]] = control[3]]) @@ drafts
  /\ IF IsDefault(p) \/ p.kind = "api" THEN UpdateConfig(h, control[2] :> control[3], "", "")
     ELSE Act(h) /\ UNCHANGED <<shownVars, calls, mixed>> /\ Unheard

(* What a card sets: its provider, the model it shows, and its draft.  The    *)
(* local translation knows no "auto".                                         *)
DefaultPatch(p) ==
  LET active == IF p.capability = "stt" THEN config.asrModel ELSE config.trModel
      value == ProviderControlValue(active, Draft(p).model, CompatibleModels(p))
      model == IF value = "" THEN active ELSE value
      language == IF p.id = "local-nllb-ct2" /\ Draft(p).lang = "auto" THEN "en" ELSE Draft(p).lang
      own == IF p.kind = "api" THEN [url |-> Draft(p).url, alias |-> TRUE] ELSE [a \in {} |-> a]
  IN own @@ (IF p.capability = "stt"
             THEN [asr |-> p.id, asrModel |-> model, device |-> Draft(p).device, words |-> Draft(p).words]
             ELSE [tr |-> p.id, trModel |-> model, lang |-> language])

SelectAsDefault(h, p) ==
  /\ ~IsDefault(p) /\ ProviderCanRun(p)
  /\ UpdateConfig(h, DefaultPatch(p), "", "") /\ UNCHANGED drafts

(* The card of a model.                                                       *)
CardInstalling(m) == installJobs[m.id] \in ActiveInstall \/ m.state = "installing"
CardFailed(m) == installJobs[m.id] = "failed" \/ m.state = "failed"
CardReady(m) == installJobs[m.id] = "succeeded" \/ m.state = "ready"
CardMissing(m) == ~CardInstalling(m) /\ ~CardFailed(m) /\ ~CardReady(m)

SelectModel(h, m) ==
  /\ CardReady(m)
  /\ UpdateConfig(h, IF m.kind = "asr" THEN [asrModel |-> m.id] ELSE [trModel |-> m.id], "", "")

InstallModel(h, m) ==
  (CardMissing(m) \/ CardFailed(m)) /\ Request(h, "install", m.id) /\ UNCHANGED shownVars

RemoveModel(h, m) ==
  /\ ~CardMissing(m) /\ Act(h)
  /\ Await(h, [IdleCall EXCEPT !.at = "remove", !.id = m.id])
  /\ following' = following \ {m.id} /\ installJobs' = [installJobs EXCEPT ![m.id] = "none"]
  /\ UNCHANGED <<shownVars, stored, asking, checked, failed, unwritten>>

(* isProviderSecretConfigured: by the status, since the alias is never empty. *)
KeyConfigured == config.api = "configured"

(* The key of an API provider: its buttons are off while they work.           *)
SaveSecret(h, p) ==
  /\ p.kind = "api" /\ \A g \in Calls : calls[g].at # "save"
  /\ Request(h, "save", p.id) /\ UNCHANGED shownVars

DeleteSecret(h, p) ==
  /\ p.kind = "api" /\ KeyConfigured /\ \A g \in Calls : calls[g].at # "delete"
  /\ Request(h, "delete", p.id) /\ UNCHANGED shownVars

(* runProviderCheck: an API's draft is saved first, and then checked live.    *)
(* The alias goes with it, whether there is a key or not.                     *)
CheckProvider(h, p) ==
  IF p.kind = "api" THEN UpdateConfig(h, [url |-> Draft(p).url, alias |-> TRUE], "live", p.id)
  ELSE Request(h, "static", p.id) /\ UNCHANGED shownVars

InstallDependency(h, p) ==
  /\ p.state = "missing_dependency" /\ \A g \in Calls : calls[g].at # "dependency"
  /\ Request(h, "dependency", p.id) /\ UNCHANGED shownVars

RefreshProviders(h) == Request(h, "refresh", "") /\ UNCHANGED shownVars

CleanUp(h) == Request(h, "cleanup", "") /\ UNCHANGED shownVars

(* What the user does, in kinds.                                              *)
ActsOnConfig(h) ==
  /\ UNCHANGED drafts
  /\ \/ ChangeRow(h) \/ \E m \in Range(models) : SelectModel(h, m)
     \/ \E p \in Range(providers) : SelectProvider(h, p)

ActsOnCards(h) ==
  Page /\ \E p \in Range(providers) :
    SelectAsDefault(h, p) \/ \E c \in Controls(p) : ChangeDraft(h, p, c)

ActsOnKeys(h) ==
  /\ Page /\ UNCHANGED drafts
  /\ \/ RefreshProviders(h)
     \/ \E p \in Range(providers) : \/ SaveSecret(h, p) \/ DeleteSecret(h, p)
                                   \/ CheckProvider(h, p) \/ InstallDependency(h, p)

ActsOnModels(h) ==
  /\ UNCHANGED drafts
  /\ \/ CleanUp(h)
     \/ \E m \in Range(models) : InstallModel(h, m) \/ RemoveModel(h, m)

(* What follows by itself.                                                    *)
GoesOn(h) ==
  \/ Serve(h) \/ KeyWritten(h) \/ KeyRefused(h) \/ Merge(h) \/ Persist(h) \/ NotPersisted(h)
  \/ Restart(h) \/ BaseLoaded(h) \/ ProvidersListed(h) \/ ConfigUpdated(h) \/ UpdateRefused(h)
  \/ ConfigReread(h) \/ SecretStored(h) \/ SecretProvidersListed(h) \/ ProviderTested(h)
  \/ ProvidersRefreshed(h) \/ DependencyInstalled(h) \/ ModelRemoved(h) \/ CleanedUp(h)
  \/ ModelInstalls(h) \/ \E m \in ModelIds : InstallEnded(m, h)

SettingsGoOn ==
  \/ \E h \in Calls : GoesOn(h)
  \/ AutoCheck \/ DraftsFollow \/ \E i \in DOMAIN asking : AutoChecked(i)
  \/ \E m \in ModelIds : InstallMoves(m) \/ InstallSnapshot(m) \/ InstallProgress(m)

SettingsNext ==
  \/ SettingsGoOn \/ OpenPage
  \/ \E h \in Calls : \/ Unreachable(h) \/ ActsOnConfig(h) \/ ActsOnCards(h)
                      \/ ActsOnKeys(h) \/ ActsOnModels(h)

(* Whatever the daemon has at first; the client is given.                     *)
SettingsSpec(file, ps, ms) ==
  AppSettingsInit(file, ps, ms) /\ [][SettingsNext /\ UNCHANGED clientVars]_<<settingVars, clientVars>>

-------------------------------------------------------------------------------
(* Properties *)

(* The live check that App makes by itself costs the user's money: it is made *)
(* once for the settings of an API, however the loads, the effects and the    *)
(* answers interleave (AppShell.tsx:140).                                     *)
AutoCheckOnce == IsInjective(asking) /\ Range(asking) \cap checked = {}

(* When nothing waits, and no two functions have waited at a time: what App   *)
(* shows is what the daemon has, after a refused patch and after one that     *)
(* could not be written too (AppShell.tsx:1164), and unless it could not be   *)
(* written, what the next daemon will have (config_handlers.go:322); no card  *)
(* offers a model that is not there.  The status of an API's key is left out: *)
(* it is older than the key until the configuration is read again (ipc.ts:46).*)
Agree(view) == \A f \in DOMAIN config \ {"api"} : config[f] = MapConfig(view)[f]
SettingsAgree ==
  (\A h \in Calls : calls[h].at = "idle") /\ ~mixed /\ ~failed =>
    /\ Agree(stored.config)
    /\ ~Mock /\ ~unwritten => Agree(Loaded(stored.file))
    /\ \A m \in Range(models) : CardReady(m) =>
         \E s \in Range(stored.models) : s.id = m.id /\ s.state = "ready"
==============================================================================
