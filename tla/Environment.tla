---------------------------- MODULE Environment ----------------------------
(***************************************************************************)
(* The environment as App shows it (AppShell.tsx): whether the daemon      *)
(* answers and whether ffmpeg is there or being installed, on the page of  *)
(* the first check, above the first page, and in the diagnostics.          *)
(*                                                                         *)
(* An answer about it is made of two looks at ffmpeg and one at the daemon *)
(* (daemonClient.ts); meanwhile an installation begins or ends in the main *)
(* process.  Three things ask again while one is under way: the function   *)
(* that started it, the timer of the check page, and the user.             *)
(***************************************************************************)
EXTENDS Naturals

CONSTANTS
  Reads,      \* bound: functions that wait at a time, a set of numbers
  MaxTouches  \* bound: what the user does

ASSUME TouchesAssumption == MaxTouches \in Nat

VARIABLES
  tasked,   \* an installation of ffmpeg is under way
  found,    \* a pair of ffmpeg and ffprobe is where it is looked for
  shown,    \* the state environment of App: a set of at most one, {} for null
  front,    \* the page
  reads,    \* [Reads -> [for, at, pair, env]]: the functions of App that wait
  touches   \* what the user did so far

envVars == <<tasked, found, shown, front, reads, touches>>

(* What is kept of an answer: the view of the pair, the look after it, health.*)
Looks == {"missing", "installing", "ready"}
Env == [pair : Looks, ffmpeg : Looks, up : BOOLEAN]
Fronts == {"setup-check", "main", "diagnostics"}
Asks == {"load", "check", "install", "poll", "choose", "clear", "repair"}
NoRead == [for |-> "none", at |-> "idle", pair |-> "missing", env |-> {}]

EnvTypeOK ==
  /\ tasked \in BOOLEAN /\ found \in BOOLEAN /\ front \in Fronts /\ touches \in 0..MaxTouches
  /\ \A r \in Reads : /\ reads[r].for \in Asks \cup {"none"} /\ reads[r].pair \in Looks
                      /\ reads[r].at \in {"idle", "sent", "asked", "viewed", "answered", "delay"}
  /\ \A s \in {shown} \cup {reads[r].env : r \in Reads} : s = {} \/ \E e \in Env : s = {e}

ReadFor(what) == [NoRead EXCEPT !.for = what, !.at = "sent"]

(* A window may be opened while the main process installs.                    *)
EnvInit ==
  /\ tasked \in BOOLEAN /\ found \in BOOLEAN /\ shown = {} /\ front = "setup-check" /\ touches = 0
  /\ reads = [r \in Reads |-> IF r = 1 THEN ReadFor("load") ELSE NoRead]

-------------------------------------------------------------------------------
(* The main process *)

FFmpegNow == IF tasked THEN "installing" ELSE IF found THEN "ready" ELSE "missing"
Goes(r, at) == reads' = [reads EXCEPT ![r].at = at]
AppWaits == UNCHANGED <<shown, front, touches>>

(* What a call does before it answers.  installFFmpeg may find its own pair,  *)
(* or no way to install one; a directory that was chosen has a pair, or the   *)
(* call throws, or the dialog was canceled; one that is forgotten may have    *)
(* been in the way of another pair.                                           *)
Serve(r) ==
  /\ reads[r].at = "sent"
  /\ CASE reads[r].for = "install" -> tasked' \in {tasked, TRUE} /\ UNCHANGED found
       [] reads[r].for = "choose" -> found' \in {found, TRUE} /\ UNCHANGED tasked
       [] reads[r].for = "clear" -> found' \in BOOLEAN /\ UNCHANGED tasked
       [] OTHER -> UNCHANGED <<tasked, found>>
  /\ Goes(r, "asked") /\ AppWaits

(* checkNativeDependencies: the views, then the look, then the health.        *)
ViewPair(r) ==
  /\ reads[r].at = "asked"
  /\ reads' = [reads EXCEPT ![r].at = "viewed", ![r].pair = FFmpegNow]
  /\ UNCHANGED <<tasked, found>> /\ AppWaits

LookAndAnswer(r) ==
  /\ reads[r].at = "viewed"
  /\ \E up \in BOOLEAN :
       reads' = [reads EXCEPT ![r].at = "answered",
                   ![r].env = {[pair |-> reads[r].pair, ffmpeg |-> FFmpegNow, up |-> up]}]
  /\ UNCHANGED <<tasked, found>> /\ AppWaits

(* Without a pair, or with another one: the task has its own module.          *)
TaskEnds == tasked /\ tasked' = FALSE /\ found' \in BOOLEAN /\ UNCHANGED reads /\ AppWaits

-------------------------------------------------------------------------------
(* The functions of App *)

MainStays == UNCHANGED <<tasked, found>>
FreeRead(r) == reads[r] = NoRead /\ \A q \in Reads : q < r => reads[q] # NoRead
Installs(e) == e.ffmpeg = "installing" \/ e.pair = "installing"
Polled == {"install", "poll"}

(* An answer is shown, however old; an installation under way is asked about  *)
(* again after a second, a repair leads to the check page.                    *)
Shown(r) ==
  /\ reads[r].at = "answered" /\ shown' = reads[r].env
  /\ front' = IF reads[r].for = "repair" THEN "setup-check" ELSE front
  /\ reads' = [reads EXCEPT ![r] =
        IF reads[r].for \in Polled /\ (\E e \in reads[r].env : Installs(e))
        THEN [NoRead EXCEPT !.for = "poll", !.at = "delay"] ELSE NoRead]
  /\ UNCHANGED touches /\ MainStays

PollAgain(r) ==
  /\ reads[r].at = "delay" /\ reads' = [reads EXCEPT ![r] = ReadFor("poll")]
  /\ UNCHANGED <<shown, front, touches>> /\ MainStays

(* After 900 attempts it is not asked any more.                               *)
GiveUp(r) ==
  /\ reads[r].at = "delay" /\ reads' = [reads EXCEPT ![r] = NoRead]
  /\ UNCHANGED <<shown, front, touches>> /\ MainStays

(* A call throws: loadBaseData shows that nothing is there, the others end.   *)
Nothing == [pair |-> "missing", ffmpeg |-> "missing", up |-> FALSE]
CallThrows(r) ==
  /\ reads[r].at \in {"asked", "viewed"} /\ reads' = [reads EXCEPT ![r] = NoRead]
  /\ shown' = IF reads[r].for = "load" THEN {Nothing} ELSE shown
  /\ UNCHANGED <<front, touches>> /\ MainStays

Asked(r, what) == FreeRead(r) /\ reads' = [reads EXCEPT ![r] = ReadFor(what)] /\ MainStays

(* Faulty: the timer goes by the view of the pair.                            *)
TickByPair(r) ==
  /\ front = "setup-check" /\ (\E e \in shown : e.pair = "installing")
  /\ Asked(r, "load") /\ UNCHANGED <<shown, front, touches>>

(* The timer of the check page; it skips a turn when no read is free.         *)
Tick(r) ==
  /\ front = "setup-check" /\ (\E e \in shown : e.ffmpeg = "installing")
  /\ Asked(r, "load") /\ UNCHANGED <<shown, front, touches>>

-------------------------------------------------------------------------------
(* What the pages offer *)

(* The check page: what is missing, and on to the app unless the daemon is    *)
(* away.                                                                      *)
SetupOffers ==
  (IF \E e \in shown : ~e.up THEN {"repair"} ELSE {"main"})
  \cup (IF \E e \in shown : e.ffmpeg = "missing" THEN {"choose", "install", "repair"} ELSE {})

(* The warning above the first page goes by the view of the pair; the         *)
(* settings are there with or without it.                                     *)
MainOffers ==
  {"diagnostics"} \cup
  IF \E e \in shown : e.pair # "missing" THEN {} ELSE {"choose", "install"}

(* The diagnostics offer everything, always.                                  *)
DiagnosticsOffers == {"check", "choose", "install", "clear", "main"}

Offers == CASE front = "setup-check" -> SetupOffers
            [] front = "main" -> MainOffers
            [] front = "diagnostics" -> DiagnosticsOffers

Touch(act) == act \in Offers /\ touches < MaxTouches /\ touches' = touches + 1

(* installFFmpeg shows the installation before it asks for one.               *)
ClickInstall(r) ==
  /\ Touch("install") /\ Asked(r, "install")
  /\ shown' = {[e EXCEPT !.pair = "installing", !.ffmpeg = "installing"] : e \in shown}
  /\ UNCHANGED front

ClickAsk(r, act) ==
  /\ act \in {"check", "choose", "clear", "repair"}
  /\ Touch(act) /\ Asked(r, act) /\ UNCHANGED <<shown, front>>

GoTo(target) ==
  /\ target \in Fronts /\ Touch(target) /\ front' = target
  /\ UNCHANGED <<shown, reads>> /\ MainStays

-------------------------------------------------------------------------------
EnvProgress(r) ==
  Serve(r) \/ ViewPair(r) \/ LookAndAnswer(r) \/ Shown(r) \/ PollAgain(r)

EnvNext ==
  \/ TaskEnds \/ \E target \in Fronts : GoTo(target)
  \/ \E r \in Reads : EnvProgress(r) \/ GiveUp(r) \/ CallThrows(r) \/ Tick(r) \/ ClickInstall(r)
                      \/ \E act \in Asks : ClickAsk(r, act)

EnvSpec == EnvInit /\ [][EnvNext]_envVars

(* Fairness: calls are answered, timers fire, and an installation ends        *)
(* (InstallEnds of NativeDependencies); the user owes nothing.                *)
EnvTimer == \E r \in Reads : Tick(r)

-------------------------------------------------------------------------------
(* Property *)

(* The check page does not say for ever that ffmpeg is being installed:       *)
(* answers that are older than the end of the installation, lookups that fail *)
(* and functions that give up notwithstanding, it is asked again as long as   *)
(* the page is there (AppShell.tsx:249).                                      *)
InstallIsLeft ==
  []<>(front # "setup-check" \/ \A e \in shown : e.ffmpeg # "installing")
=============================================================================
