------------------------------ MODULE MCDesktop ------------------------------
(* Small instances of DesktopMain, NativeDependencies, WebTranslation,        *)
(* Environment and ModelInstall for TLC.  They share no state (in the first   *)
(* and the fourth the answers about ffmpeg are free): a behaviour is of one   *)
(* of them, its scene.                                                        *)
EXTENDS DesktopMain, NativeDependencies, WebTranslation, Environment, ModelInstall, TLC

CONSTANTS c1, c2

VARIABLE scene

allVars == <<vars, nativeVars, webVars, envVars, modelVars, scene>>

(* Two callers at a time, each with a few operations that it runs once, in   *)
(* any order: every kind of operation meets a restart, a crash or a quit.     *)
Pairs == {(c1 :> m[1]) @@ (c2 :> m[2]) :
            m \in {<<{"repair", "list"}, {"quit"}>>,
                   <<{"check"}, {"install"}>>,
                   <<{"clear"}, {"quit"}>>,
                   <<{"create"}, {"repair"}>>,
                   <<{"saveKey", "list"}, {"quit"}>>,
                   <<{"stream", "list"}, {"quit"}>>}}

(* Two requests at once, as the first screen sends them, and then the end.     *)
FirstScreen == {(c1 :> {"list"}) @@ (c2 :> {"list", "quit"})}
QuitsAtRest == quitting => \A c \in Callers : op[c] \in {"none", "quit"}

(* A cue of each length about the limit of Bing, and one for Google.          *)
Order(p, f, ok, cs) == [provider |-> p, from |-> f, to |-> "zh", packaged |-> ok, cues |-> cs]
Orders == {Order("bing", "auto", TRUE, <<1000, 1001>>), Order("bing", "en", FALSE, <<1>>),
           Order("google", "auto", TRUE, <<1001>>)}
SignSets == {{}, {"429", "network"}}

MCInit ==
  /\ Init /\ NativeInit /\ WebInit(Orders) /\ EnvInit /\ ModelInit
  /\ scene \in {"main", "native", "web", "setup", "models"}
  /\ scene # "main" => menu = CHOOSE m \in Menus : TRUE
  /\ scene = "native" => /\ custom = "gone" => platform = "linux"
                         /\ bin = "whole" => platform = "win32"
  /\ scene # "native" => platform = "linux" /\ dep = "ffmpeg" /\ custom = "unset" /\ bin = "none"
  /\ scene # "web" => order = CHOOSE o \in Orders : TRUE
  /\ scene # "setup" => ~tasked /\ ~found
  /\ IF scene = "models" THEN 1 \in tagged
     ELSE model = "damaged" /\ tagged = {} /\ offered = 2

OfMain(A) == scene = "main" /\ A /\ UNCHANGED <<nativeVars, webVars, envVars, modelVars, scene>>
OfNative(A) == scene = "native" /\ A /\ UNCHANGED <<vars, webVars, envVars, modelVars, scene>>
OfWeb(A) == scene = "web" /\ A /\ UNCHANGED <<vars, nativeVars, envVars, modelVars, scene>>
OfSetup(A) == scene = "setup" /\ A /\ UNCHANGED <<vars, nativeVars, webVars, modelVars, scene>>

(* Nothing is said of two installers that have clashed: they end there.       *)
OfModels(A) ==
  scene = "models" /\ ~clashed /\ A /\ UNCHANGED <<vars, nativeVars, webVars, envVars, scene>>

(* Each kind of fairness for all scenes at once, no behaviour being of two of *)
(* them: caller and function, or installer, for the first and for the second; *)
(* what goes on in the background; the timer of the check page.               *)
Actor(c, r) ==
  \/ OfMain(CallerProgress(c)) \/ OfSetup(EnvProgress(r))
  \/ OfModels(BeginInstall(c) \/ InstallProceeds(c))
Background ==
  \/ OfMain(ChildProgress) \/ OfNative(InstallProgress) \/ OfSetup(TaskEnds)
  \/ OfModels(OrphanGrowsOld)

MCSpec ==
  /\ MCInit /\ [][OfMain(Next) \/ OfNative(NativeNext) \/ OfWeb(WebNext) \/ OfSetup(EnvNext)
                  \/ OfModels(ModelNext)]_allVars
  /\ WF_allVars(Actor(c1, 1)) /\ WF_allVars(Actor(c2, 2))
  /\ WF_allVars(Background) /\ WF_allVars(OfSetup(EnvTimer))

(* Every variable of the modules keeps its type.                        *)
TypesOK == TypeOK /\ NativeTypeOK /\ WebTypeOK /\ EnvTypeOK /\ ModelTypeOK
==============================================================================
