------------------------------ MODULE AppState ------------------------------
(***************************************************************************)
(* What every part of the renderer (AppShell.tsx) reads: the configuration *)
(* and the lists of providers and models as App keeps them, and the        *)
(* functions that choose a provider and a model by them.  An option is a   *)
(* set of at most one element, {} for null; a list keeps its order.        *)
(*                                                                         *)
(* The fields of a configuration are those of the module Configuration.    *)
(***************************************************************************)
EXTENDS Naturals, Sequences, SequencesExt

VARIABLES
  config,     \* the state of App of the same name
  providers,  \* a sequence of [id, capability, kind, enabled, state, live, ...]
  models      \* a sequence of [id, kind, state, fits, main, defaultFor]

LocalDefault == [stt |-> "local-faster-whisper", translation |-> "local-nllb-ct2"]
ModelKind == [stt |-> "asr", translation |-> "translation"]

(* Array.find and filter.                                                     *)
Find(list, Test(_)) ==
  LET i == SelectInSeq(list, Test) IN IF i = 0 THEN {} ELSE {list[i]}
OrElse(option, other) == IF option = {} THEN other ELSE option
Ids(list) == [i \in DOMAIN list |-> list[i].id]

(* kind "api" and "web": the input leaves the computer.                       *)
Remote(p) == p.kind \in {"api", "web"}

(* What the lists and the configuration always have: a provider whose input   *)
(* leaves the computer asks the user for it (mapProvider), and config has the *)
(* fields that the choice of a translator reads.                              *)
ListsOK ==
  /\ providers \in Seq(Range(providers)) /\ models \in Seq(Range(models))
  /\ \A p \in Range(providers) : Remote(p) => p.confirm
  /\ {"tr", "output"} \subseteq DOMAIN config

(* A provider that is enabled and available; an API one after a live check.   *)
ProviderCanRun(p) ==
  p.enabled /\ p.state = "available" /\ (p.kind = "api" => p.live)

ModelCompatible(m, id) == m.fits = {} \/ id \in m.fits

(* The user's model, unless it is of another provider; none when it is not    *)
(* ready.  Else the main one, the provider's default, or the first.           *)
SelectReadyCompatibleModel(id, kind, wanted, ms) ==
  LET preferred == Find(ms, LAMBDA m : m.id = wanted /\ m.kind = kind)
      Fits(m) == m.kind = kind /\ m.state = "ready" /\ ModelCompatible(m, id)
  IN IF \E m \in preferred : ModelCompatible(m, id)
     THEN {m \in preferred : m.state = "ready"}
     ELSE OrElse(Find(ms, LAMBDA m : Fits(m) /\ m.id = wanted),
          OrElse(Find(ms, LAMBDA m : Fits(m) /\ m.main),
          OrElse(Find(ms, LAMBDA m : Fits(m) /\ id \in m.defaultFor),
                 Find(ms, Fits))))

(* What one of the providers offers: the ids of a provider and a model.       *)
Offer(id, capability, asked, modelId, ps, ms) ==
  UNION {IF Remote(p) \/ ~p.needsModel THEN {[provider |-> id, model |-> modelId]}
         ELSE {[provider |-> id, model |-> m.id] :
                 m \in SelectReadyCompatibleModel(id, ModelKind[capability], modelId, ms)} :
           p \in {q \in Find(ps, LAMBDA q : q.id = id /\ q.capability = capability) :
                    ProviderCanRun(q) /\ (Remote(q) => id = asked)}}

(* The provider asked for, then the local default, then any other local one;  *)
(* a remote provider is never substituted.                                    *)
ResolveReadyProviderModel(capability, asked, modelId, ps, ms) ==
  LET others == SelectSeq(ps, LAMBDA p : p.capability = capability /\ ~Remote(p))
      preferred == <<asked, LocalDefault[capability]>> \o Ids(others)
      first == Find(preferred, LAMBDA id : Offer(id, capability, asked, modelId, ps, ms) # {})
  IN UNION {Offer(id, capability, asked, modelId, ps, ms) : id \in first}

OutputTypeNeedsTranslation(cfg) == cfg.output \in {"translated_srt", "bilingual_srt"}
TranslationProvider(cfg, ps) ==
  Find(ps, LAMBDA p : p.id = cfg.tr /\ p.capability = "translation")

TranslationProviderRunnable(cfg, ps) ==
  \E p \in TranslationProvider(cfg, ps) : ProviderCanRun(p)

(* translationProviderReady, and translationOutputReady which asks it again.  *)
TranslationOutputReady(cfg, ps, ms) ==
  \E p \in TranslationProvider(cfg, ps) :
    /\ ProviderCanRun(p)
    /\ \/ Remote(p) \/ ~p.needsModel
       \/ SelectReadyCompatibleModel(p.id, "translation", cfg.trModel, ms) # {}

(* An enabled translation API that has not been asked live.                   *)
ShouldAutoCheckTranslationProvider(p) ==
  /\ p.enabled /\ p.capability = "translation" /\ p.kind = "api" /\ ~p.live
  /\ p.state \in {"available", "missing_api_key", "invalid_config"}

TranslationProviderCheckKey(cfg, id) == <<id, cfg.url, cfg.api>>

(* The upload to a provider of the list needs the user's confirmation.        *)
NeedsConfirmation(id, ps) == \E p \in Range(ps) : p.id = id /\ p.confirm

-------------------------------------------------------------------------------
(* A change of the configuration is a record of the fields it sets.           *)
Patched(cfg, patch) == [f \in DOMAIN cfg |-> IF f \in DOMAIN patch THEN patch[f] ELSE cfg[f]]

(* Half of normalizeConfigPatch, for the fields of one capability: a provider *)
(* that is chosen without a model brings one, when it can run; a model that   *)
(* does not fit its provider brings another pair.  The patch that comes of it,*)
(* as a set of one.                                                           *)
ModelFits(id, capability, modelId, ms) ==
  \E m \in Range(ms) : m.id = modelId /\ m.kind = ModelKind[capability] /\ ModelCompatible(m, id)

NormalizePatch(patch, cfg, capability, pf, mf, ps, ms) ==
  UNION {
    UNION {
      LET taken == {c \in chosen :
            \/ pf \in DOMAIN patch /\ mf \notin DOMAIN patch /\ c.provider = next[pf]
            \/ mf \in DOMAIN patch /\ ~ModelFits(next[pf], capability, next[mf], ms)}
      IN OrElse({[f \in DOMAIN patch \cup {pf, mf} |->
                    IF f = pf THEN c.provider ELSE IF f = mf THEN c.model ELSE patch[f]] : c \in taken},
                {patch})
      : chosen \in {ResolveReadyProviderModel(capability, next[pf], next[mf], ps, ms)}}
    : next \in {Patched(cfg, patch)}}

NormalizeConfigPatch(patch, cfg, ps, ms) ==
  UNION {NormalizePatch(p, cfg, "translation", "tr", "trModel", ps, ms) :
           p \in NormalizePatch(patch, cfg, "stt", "asr", "asrModel", ps, ms)}

==============================================================================
