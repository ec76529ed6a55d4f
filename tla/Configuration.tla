---------------------------- MODULE Configuration ----------------------------
(***************************************************************************)
(* The configuration on its way between the file, the daemon and App:      *)
(* config_handlers.go keeps a view of the file and merges patches into it, *)
(* daemonClient.ts turns the daemon's values into the renderer's and back. *)
(*                                                                         *)
(* A field has one name everywhere; what differs is its values.  The       *)
(* settings of an API provider are its base URL (url), whether the alias   *)
(* of its key is written down (alias) and the status of the key (api).     *)
(***************************************************************************)
EXTENDS Integers

(* The fields that are written to the file, and given back as they are.       *)
PlainFields == {"asr", "asrModel", "tr", "trModel", "lang", "output", "burnIn", "conflict", "device",
                "place", "words", "maxFiles", "url"}

(* defaultConfigView of an empty file.                                        *)
DefaultView ==
  [asr |-> "local-faster-whisper", asrModel |-> "small", tr |-> "local-nllb-ct2", trModel |-> "nllb",
   lang |-> "auto", output |-> "original_srt", burnIn |-> FALSE, conflict |-> "ask",
   device |-> "auto", place |-> "source", words |-> FALSE, maxFiles |-> 100, url |-> "openai",
   alias |-> TRUE, api |-> "missing"]

(* The daemon starts: what the file leaves out is the default.  The status of *)
(* a key goes by its alias being in the file; a key itself is not looked for. *)
Loaded(file) ==
  [f \in DOMAIN DefaultView |->
     IF f = "api" THEN IF "alias" \in DOMAIN file /\ file.alias THEN "configured" ELSE "missing"
     ELSE IF f = "alias" THEN TRUE
     ELSE IF f \in DOMAIN file THEN file[f] ELSE DefaultView[f]]

(* validateConfigPatch, for the values that the renderer could send.          *)
ValidConfigPatch(patch) ==
  /\ "device" \in DOMAIN patch => patch.device \in {"auto", "cpu", "cuda", "gpu"}
  /\ "output" \in DOMAIN patch =>
       patch.output \in {"original_srt", "translated_srt", "bilingual_srt", "burned_video"}
  /\ "maxFiles" \in DOMAIN patch => patch.maxFiles \in 1..500

MergeConfigView(view, patch) ==
  [f \in DOMAIN view |-> IF f \in DOMAIN patch THEN patch[f] ELSE view[f]]

(* Faulty: the settings of the user interface are forgotten.                  *)
ConfigFileOfKeys(view) == [f \in {"url", "alias"} |-> view[f]]

(* persistConfigView: all of the view but the status of the key.              *)
ConfigFile(view) == [f \in PlainFields \cup {"alias"} |-> view[f]]

-------------------------------------------------------------------------------
(* daemonClient.ts *)

(* The status of a key is never sent.                                         *)
ConfigPatch(patch) ==
  [f \in DOMAIN patch \ {"api"} |->
     CASE f = "device" /\ patch[f] = "gpu" -> "cuda"
       [] f = "place" /\ patch[f] # "source" -> "custom"
       [] OTHER -> patch[f]]

NormalizeDevice(value) ==
  CASE value \in {"cuda", "gpu"} -> "gpu" [] value = "cpu" -> "cpu" [] OTHER -> "auto"

(* An older "burned_video" is a burn-in, unless the view says something of    *)
(* it, which the daemon's always does; an alias that is empty is the default. *)
MapConfig(view) ==
  [f \in DOMAIN DefaultView \ {"alias"} |->
     CASE f = "device" -> NormalizeDevice(view[f])
       [] f = "place" /\ view[f] # "source" -> "custom"
       [] f = "output" /\ view[f] = "burned_video" -> "original_srt"
       [] OTHER -> view[f]]

(* defaultConfig of the renderer, and mapConfig of nothing.                   *)
Defaults == MapConfig(DefaultView)
==============================================================================
