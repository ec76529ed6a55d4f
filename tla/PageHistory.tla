----------------------------- MODULE PageHistory -----------------------------
(***************************************************************************)
(* The page that App shows and the way back to earlier ones (AppShell.tsx, *)
(* the menu of components.tsx): buttons and the menu go on, Back and       *)
(* Forward walk over two stacks, and the functions of App that watch jobs  *)
(* put another page in the place of the one that is shown.                 *)
(***************************************************************************)
EXTENDS Naturals, Sequences, SequencesExt

CONSTANTS
  StackLimit, \* slice(-20) of the two stacks
  MaxMoves    \* bound: changes of the page

ASSUME StackAssumption == StackLimit \in Nat \ {0}
ASSUME MovesAssumption == MaxMoves \in Nat

VARIABLES
  page,       \* screen
  backStack, forwardStack,
  onboarded,  \* ONBOARDING_DONE_KEY in the local storage
  moves       \* changes of the page so far

pageVars == <<page, backStack, forwardStack, onboarded, moves>>

SetupPages == {"setup-check", "setup-done"}
AppPages == {"main-empty", "queue-list", "queue-detail", "settings-general", "settings-diagnostics"}
Pages == SetupPages \cup AppPages

PagesTypeOK ==
  /\ page \in Pages /\ onboarded \in BOOLEAN /\ moves \in 0..MaxMoves
  /\ \A stack \in {backStack, forwardStack} : Len(stack) <= StackLimit /\ Range(stack) \subseteq Pages

PagesInit ==
  /\ onboarded \in BOOLEAN /\ page = IF onboarded THEN "main-empty" ELSE "setup-check"
  /\ backStack = <<>> /\ forwardStack = <<>> /\ moves = 0

-------------------------------------------------------------------------------
Move == moves < MaxMoves /\ moves' = moves + 1
LastOf(s, n) == SubSeq(s, (IF Len(s) > n THEN Len(s) - n ELSE 0) + 1, Len(s))
FirstOf(s, n) == SubSeq(s, 1, IF Len(s) > n THEN n ELSE Len(s))

(* Faulty: what was gone back from stays ahead.                               *)
NavigateKeepingAhead(target) ==
  /\ page' = target
  /\ IF target = page THEN UNCHANGED <<backStack, forwardStack>>
     ELSE backStack' = LastOf(Append(backStack, page), StackLimit) /\ UNCHANGED forwardStack

NavigateScreen(target) ==
  /\ page' = target
  /\ IF target = page THEN UNCHANGED <<backStack, forwardStack>>
     ELSE backStack' = LastOf(Append(backStack, page), StackLimit) /\ forwardStack' = <<>>

(* A button of a page.  Whoever leaves the setup has been through it.         *)
NavigateFromScreen(target) ==
  /\ onboarded' = (onboarded \/ (page \in SetupPages /\ target \notin SetupPages))
  /\ NavigateScreen(target)

(* The pages behind the buttons of each.  "Enter app" of the check leads to   *)
(* setup-done, or past it while the default model is missing.                 *)
Links(p) ==
  CASE p = "setup-check" -> {"setup-done", "main-empty"}
    [] p = "setup-done" -> {"settings-general", "main-empty"}
    [] p = "main-empty" -> {"queue-list", "settings-general", "settings-diagnostics"}
    [] p = "queue-list" -> {"main-empty"}
    [] p = "queue-detail" -> {"queue-list"}
    [] OTHER -> {"main-empty", "settings-general", "settings-diagnostics"}

FollowLink(target) == target \in Links(page) /\ Move /\ NavigateFromScreen(target)

(* The menu, which the setup has not; it leaves the onboarding alone.         *)
AppMenu == page \notin SetupPages
OpenFromMenu == AppMenu /\ Move /\ NavigateScreen("main-empty") /\ UNCHANGED onboarded

(* From a job there is no way back but to the first page.                     *)
ResolveAppMenuBackTarget(p) == IF p = "queue-detail" THEN {"main-empty"} ELSE {}

BackFromJob ==
  /\ AppMenu /\ \E target \in ResolveAppMenuBackTarget(page) : NavigateScreen(target)
  /\ Move /\ UNCHANGED onboarded

GoBack ==
  /\ AppMenu /\ ResolveAppMenuBackTarget(page) = {} /\ backStack # <<>> /\ Move
  /\ page' = backStack[Len(backStack)] /\ backStack' = SubSeq(backStack, 1, Len(backStack) - 1)
  /\ forwardStack' = FirstOf(<<page>> \o forwardStack, StackLimit)
  /\ UNCHANGED onboarded

GoForward ==
  /\ AppMenu /\ forwardStack # <<>> /\ Move
  /\ page' = Head(forwardStack) /\ forwardStack' = Tail(forwardStack)
  /\ backStack' = LastOf(Append(backStack, page), StackLimit)
  /\ UNCHANGED onboarded

(* setScreen, which knows no history: of the functions about jobs, which a    *)
(* user has past the setup only, and of repairDaemon, whose answer shows the  *)
(* check wherever the user has gone meanwhile.                                *)
SetScreen(target) ==
  /\ onboarded \/ target = "setup-check"
  /\ target \in {"queue-list", "queue-detail", "main-empty", "setup-check"} /\ Move
  /\ page' = target /\ UNCHANGED <<backStack, forwardStack, onboarded>>

PagesNext ==
  \/ \E target \in Pages : FollowLink(target) \/ SetScreen(target)
  \/ OpenFromMenu \/ GoBack \/ BackFromJob \/ GoForward

PagesSpec == PagesInit /\ [][PagesNext]_pageVars

-------------------------------------------------------------------------------
(* Back and Forward walk over one line of pages and change nothing of it: the *)
(* two stacks never cut a page off, whatever App has put in the place of the  *)
(* shown one.                                                                 *)
Line == backStack \o <<page>> \o forwardStack
HistoryKept == [][GoBack \/ GoForward => Line' = Line]_pageVars
==============================================================================
