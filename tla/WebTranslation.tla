--------------------------- MODULE WebTranslation ---------------------------
(***************************************************************************)
(* A translation job by a web provider, from the outside in: the daemon's  *)
(* job with its deadline (runner_translate.go), the Python process that    *)
(* goes through the cues with retries (translation/service.py and          *)
(* clients/web_translation.py), and the helper, one Node process for each  *)
(* attempt (desktop/web-translate-helper), whose request to the provider   *)
(* races a timer and goes on when it has lost.                             *)
(*                                                                         *)
(* A cue is the length of its text.  A failed request is the set of the    *)
(* signs that mapProviderError looks for in it.                            *)
(***************************************************************************)
EXTENDS Naturals, Sequences, SequencesExt

CONSTANTS Retries,   \* of a cue, 2 in the code
          Failures   \* bound: what a request may fail with, sets of signs

ASSUME RetriesAssumption == Retries \in Nat

VARIABLES
  order,    \* [provider, from, to, packaged, cues]: the job
  job,      \* "new", "running", "done", "refused" or "stopped"
  cue,      \* the one at work
  try,      \* the attempt at it, from 0
  result,   \* [cues -> "none", "good" or "blank"]: segment.translation
  errors,   \* the cues given up
  helper,   \* [at, host, timer, out]: the helper of the attempt
  sent      \* history: the requests of this helper, with what came of them

webVars == <<order, job, cue, try, result, errors, helper, sent>>

Codes == {"invalid_input", "missing_dependency", "provider_timeout", "rate_limited",
          "region_blocked", "provider_response_changed", "provider_failed"}
NoHelper == [at |-> "gone", host |-> 0, timer |-> FALSE, out |-> "none"]

WebTypeOK ==
  /\ job \in {"new", "running", "done", "refused", "stopped"}
  /\ cue \in 1..(Len(order.cues) + 1) /\ try \in 0..Retries
  /\ result \in [DOMAIN order.cues -> {"none", "good", "blank"}]
  /\ errors \subseteq DOMAIN order.cues
  /\ helper \in [at : {"gone", "read", "import", "request"}, host : 0..2, timer : BOOLEAN,
                 out : {"none", "good", "blank"} \cup Codes]

WebInit(orders) ==
  /\ order \in orders
  /\ job = "new" /\ cue = 1 /\ try = 0 /\ result = [c \in DOMAIN order.cues |-> "none"]
  /\ errors = {} /\ helper = NoHelper /\ sent = <<>>

-------------------------------------------------------------------------------
(* The helper: pure parts *)

MaxChars == [bing |-> 1000, google |-> 4000]
Hosts == [bing |-> <<"bing">>, google |-> <<"translate.google.com", "translate.google.com.hk">>]

Chinese == {"zh", "zh-cn", "zh-hans"}
IsLanguage(value, allowAuto) ==
  value \in Chinese \cup {"en", "ja", "ko"} \/ (allowAuto /\ value = "auto")

(* The names of the two providers for the same languages.                     *)
NormalizeLanguage(value) ==
  CASE value = "auto"   -> IF order.provider = "bing" THEN "auto-detect" ELSE "auto"
    [] value \in Chinese -> IF order.provider = "bing" THEN "zh-Hans" ELSE "zh-CN"
    [] OTHER            -> value

(* What the Python side may get wrong: it knows no limit on the length.       *)
ValidatePayload(length) ==
  /\ 0 < length /\ length <= MaxChars[order.provider]
  /\ IsLanguage(order.from, TRUE) /\ IsLanguage(order.to, FALSE)

(* The first sign of an error, in this order, names the failure.              *)
Signs == <<[sign |-> "module",  code |-> "missing_dependency"],
           [sign |-> "shape",   code |-> "provider_response_changed"],
           [sign |-> "time",    code |-> "provider_timeout"],
           [sign |-> "network", code |-> "region_blocked"],
           [sign |-> "429",     code |-> "rate_limited"],
           [sign |-> "403",     code |-> "region_blocked"],
           [sign |-> "parse",   code |-> "provider_response_changed"]>>
MapProviderError(signs) ==
  LET i == SelectInSeq(Signs, LAMBDA s : s.sign \in signs)
  IN IF i = 0 THEN "provider_failed" ELSE Signs[i].code

-------------------------------------------------------------------------------
(* The helper: its process.  The answer is written once; the process ends     *)
(* when it has nothing left to wait for.                                      *)

Helper(at) == helper.at = at
Respond(out, at) == helper' = [helper EXCEPT !.out = out, !.timer = FALSE, !.at = at]
HelperOnly == UNCHANGED <<order, job, cue, try, result, errors>>

(* parseAndTranslate, and the start of the race.                              *)
ReadRequest ==
  /\ Helper("read")
  /\ IF ValidatePayload(order.cues[cue])
     THEN helper' = [helper EXCEPT !.at = "import", !.timer = TRUE]
     ELSE Respond("invalid_input", "gone")
  /\ HelperOnly /\ UNCHANGED sent

RequestTo(h) == [host |-> Hosts[order.provider][h], from |-> NormalizeLanguage(order.from),
               to |-> NormalizeLanguage(order.to), came |-> "nothing"]

(* The import of the provider's module, and the request to the first host.    *)
Import ==
  /\ Helper("import")
  /\ helper' = [helper EXCEPT !.at = "request", !.host = 1] /\ sent' = <<RequestTo(1)>>
  /\ HelperOnly

(* It is away, lacks translate(), or fails while it is loaded: an error like   *)
(* any other, answered as one of a provider nobody has asked.                 *)
ImportFails(signs) ==
  /\ Helper("import")
  /\ IF helper.out = "none" THEN Respond(MapProviderError(signs), "gone")
     ELSE helper' = [helper EXCEPT !.at = "gone"]
  /\ HelperOnly /\ UNCHANGED sent

Came(what) == [sent EXCEPT ![Len(sent)].came = what]

(* The provider answers with a text; too late, when the timer was first.      *)
HostAnswers(text) ==
  /\ Helper("request") /\ sent' = Came(text)
  /\ IF helper.out = "none" THEN Respond(text, "gone")
     ELSE helper' = [helper EXCEPT !.at = "gone"]
  /\ HelperOnly

(* Faulty: an error of the first host is the answer.                          *)
HostFailsFirst(signs) ==
  /\ Helper("request") /\ sent' = Came("failure")
  /\ IF helper.out = "none" THEN Respond(MapProviderError(signs), "gone")
     ELSE helper' = [helper EXCEPT !.at = "gone"]
  /\ HelperOnly

(* The next host is asked, after the answer "timed out" too; or the last      *)
(* error is the answer.                                                       *)
HostFails(signs) ==
  LET next == helper.host + 1 IN
  /\ Helper("request")
  /\ IF next \in DOMAIN Hosts[order.provider]
     THEN /\ helper' = [helper EXCEPT !.host = next]
          /\ sent' = Append(Came("failure"), RequestTo(next))
     ELSE /\ sent' = Came("failure")
          /\ IF helper.out = "none" THEN Respond(MapProviderError(signs), "gone")
             ELSE helper' = [helper EXCEPT !.at = "gone"]
  /\ HelperOnly

(* withTimeout: the answer is there, and the process waits for the provider.  *)
HelperTimesOut ==
  /\ helper.timer /\ helper.at # "gone"
  /\ Respond("provider_timeout", helper.at) /\ HelperOnly /\ UNCHANGED sent

-------------------------------------------------------------------------------
(* The Python process *)

Running == job = "running"
Started == helper.at # "gone" \/ helper.out # "none"

(* The runner of the daemon looks for the helper before it starts anything.   *)
StartJob ==
  /\ job = "new"
  /\ job' = IF order.packaged THEN "running" ELSE "refused"
  /\ UNCHANGED <<order, cue, try, result, errors, helper, sent>>

StartHelper ==
  /\ Running /\ ~Started
  /\ helper' = [NoHelper EXCEPT !.at = "read"] /\ sent' = <<>>
  /\ HelperOnly

(* The attempt is over: a text that is not blank is the translation; else     *)
(* once more, or the cue is given up and the next one begins.                 *)
AttemptOver(out) ==
  LET good == out = "good"
      again == ~good /\ try < Retries
  IN /\ result' = IF out \in {"good", "blank"} THEN [result EXCEPT ![cue] = out] ELSE result
     /\ try' = IF again THEN try + 1 ELSE 0
     /\ errors' = IF good \/ again THEN errors ELSE errors \cup {cue}
     /\ cue' = IF again THEN cue ELSE cue + 1
     /\ job' = IF ~again /\ cue = Len(order.cues) THEN "done" ELSE job
     /\ helper' = NoHelper /\ sent' = <<>> /\ UNCHANGED order

(* subprocess.run returns when the process has ended.                         *)
HelperExited == Running /\ Started /\ helper.at = "gone" /\ AttemptOver(helper.out)

(* Or when its own, longer timeout is over: the process is killed, and what   *)
(* it wrote is dropped.                                                       *)
HelperKilled == Running /\ helper.at # "gone" /\ AttemptOver("provider_timeout")

HelperDoesNotStart == Running /\ ~Started /\ AttemptOver("helper_start_failed")

(* The three minutes of the job are over, or the user cancels it: Python is   *)
(* killed, and a helper at work is not.                                       *)
StopJob == /\ Running /\ job' = "stopped"
           /\ UNCHANGED <<order, cue, try, result, errors, helper, sent>>

WebNext ==
  \/ StartJob \/ StartHelper \/ HelperExited \/ HelperKilled \/ HelperDoesNotStart \/ StopJob
  \/ ReadRequest \/ Import \/ HelperTimesOut
  \/ \E text \in {"good", "blank"} : HostAnswers(text)
  \/ \E signs \in Failures : HostFails(signs)
  \/ \E signs \in Failures \cup {{"module"}} : ImportFails(signs)

WebSpec(orders) == WebInit(orders) /\ [][WebNext]_webVars

-------------------------------------------------------------------------------
(* Properties *)

(* What the helper answers is what the hosts said: a text is of the host      *)
(* asked last, and once a host was asked, a failure of the provider means     *)
(* that every host it has was asked, in its own names of the languages, and   *)
(* failed, whatever came after the timer (helper.mjs:79).  (A failure with    *)
(* no host asked is one of the module that was to ask.)                       *)
AnswerIsTrue ==
  /\ helper.out \in {"good", "blank"} => sent # <<>> /\ Last(sent).came = helper.out
  /\ helper.out \in Codes \ {"invalid_input", "missing_dependency", "provider_timeout"} =>
       \/ sent = <<>>
       \/ /\ [h \in DOMAIN sent |-> sent[h].host] = Hosts[order.provider]
          /\ \A h \in DOMAIN sent : sent[h].came = "failure"
  /\ \A h \in DOMAIN sent : sent[h].from # (IF order.provider = "bing" THEN "auto" ELSE "auto-detect")
  /\ \A c \in 1..(cue - 1) : c \in errors <=> result[c] # "good"
==============================================================================
