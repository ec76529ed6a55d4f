---------------------------- MODULE Screens_proofs ----------------------------
(* Safety of the screens of the renderer: the history of the pages, the list  *)
(* of the queue and its log panel, for every limit and any number of jobs, and*)
(* the settings, for every list of models and whatever the file says, and the *)
(* path of an output, for every request.                                      *)
EXTENDS PageHistory, QueueScreens, AppSettings, OutputPaths,
        SequenceTheorems, FiniteSetTheorems, WellFoundedInduction, NaturalsInduction, TLAPS

------------------------------------------------------------------------------
(* The pages.  The two stacks never hold more than StackLimit pages together, *)
(* which is why walking over them cuts nothing off.                           *)

Stacks == /\ page \in Pages /\ backStack \in Seq(Pages) /\ forwardStack \in Seq(Pages)
          /\ Len(backStack) + Len(forwardStack) <= StackLimit

Counted == onboarded \in BOOLEAN /\ moves \in 0..MaxMoves

PagesInv == Stacks /\ Counted

(* What of a list of pages is kept within the limit.                          *)
LEMMA KeptPages ==
  ASSUME NEW s \in Seq(Pages), NEW n \in Nat
  PROVE  /\ LastOf(s, n) \in Seq(Pages) /\ Len(LastOf(s, n)) <= n
         /\ FirstOf(s, n) \in Seq(Pages) /\ Len(FirstOf(s, n)) <= n
         /\ Len(s) <= n => LastOf(s, n) = s /\ FirstOf(s, n) = s
<1>1. Len(s) \in Nat /\ \A i \in 1..Len(s) : s[i] \in Pages
  BY LenProperties, ElementOfSeq
<1>2. Len(s) <= n => LastOf(s, n) = s /\ FirstOf(s, n) = s
  <2> SUFFICES ASSUME Len(s) <= n PROVE LastOf(s, n) = s /\ FirstOf(s, n) = s
    OBVIOUS
  <2>1. (IF Len(s) > n THEN Len(s) - n ELSE 0) + 1 = 1 /\ (IF Len(s) > n THEN n ELSE Len(s)) = Len(s)
    BY <1>1
  <2>2. SubSeq(s, 1, Len(s)) = s
    BY SubSeqFull
  <2> QED
    BY <2>1, <2>2 DEF LastOf, FirstOf
<1>3. LastOf(s, n) \in Seq(Pages) /\ Len(LastOf(s, n)) <= n
  <2> DEFINE m == (IF Len(s) > n THEN Len(s) - n ELSE 0) + 1
  <2>1. m \in Int /\ Len(s) \in Int /\ \A i \in m..Len(s) : s[i] \in Pages
    BY <1>1
  <2>2. /\ SubSeq(s, m, Len(s)) \in Seq(Pages)
        /\ Len(SubSeq(s, m, Len(s))) = IF m <= Len(s) THEN Len(s) - m + 1 ELSE 0
    BY <2>1, SubSeqProperties
  <2> QED
    BY <1>1, <2>2 DEF LastOf
<1>4. FirstOf(s, n) \in Seq(Pages) /\ Len(FirstOf(s, n)) <= n
  <2> DEFINE m == IF Len(s) > n THEN n ELSE Len(s)
  <2>1. m \in Int /\ 1 \in Int /\ \A i \in 1..m : s[i] \in Pages
    BY <1>1
  <2>2. /\ SubSeq(s, 1, m) \in Seq(Pages)
        /\ Len(SubSeq(s, 1, m)) = IF 1 <= m THEN m - 1 + 1 ELSE 0
    BY <2>1, SubSeqProperties
  <2> QED
    BY <1>1, <2>2 DEF FirstOf
<1> QED
  BY <1>2, <1>3, <1>4

LEMMA InitPages == PagesInit => PagesInv
BY StackAssumption, MovesAssumption, EmptySeq
   DEF PagesInit, PagesInv, Stacks, Counted, Pages, SetupPages, AppPages

LEMMA NavigateKeeps ==
  ASSUME Stacks, NEW target \in Pages, NavigateScreen(target)
  PROVE  Stacks'
<1>1. CASE target = page
  BY <1>1 DEF NavigateScreen, Stacks
<1>2. CASE target # page
  <2>1. Append(backStack, page) \in Seq(Pages) /\ StackLimit \in Nat
    BY StackAssumption, AppendProperties DEF Stacks
  <2>2. backStack' \in Seq(Pages) /\ Len(backStack') <= StackLimit
    BY <1>2, <2>1, KeptPages DEF NavigateScreen
  <2>3. forwardStack' = <<>> /\ Len(<<>>) = 0 /\ <<>> \in Seq(Pages) /\ page' = target
    BY <1>2, EmptySeq DEF NavigateScreen
  <2>4. Len(backStack') \in Nat
    BY <2>2, LenProperties
  <2> QED
    BY <2>1, <2>2, <2>3, <2>4 DEF Stacks
<1> QED
  BY <1>1, <1>2

LEMMA BackWalks ==
  ASSUME Stacks, GoBack
  PROVE  Stacks' /\ Line' = Line
<1> DEFINE n == Len(backStack)
           kept == SubSeq(backStack, 1, n - 1)
           ahead == <<page>> \o forwardStack
<1>1. /\ backStack \in Seq(Pages) /\ forwardStack \in Seq(Pages) /\ <<page>> \in Seq(Pages)
      /\ Len(<<page>>) = 1 /\ page \in Pages /\ StackLimit \in Nat
      /\ n \in Nat \ {0} /\ Len(forwardStack) \in Nat /\ n + Len(forwardStack) <= StackLimit
  BY EmptySeq, LenProperties, StackAssumption DEF Stacks, GoBack
<1>2. /\ kept \in Seq(Pages) /\ Len(kept) = n - 1
      /\ backStack[n] \in Pages /\ <<backStack[n]>> \in Seq(Pages)
  <2>1. 1 \in Int /\ n - 1 \in Int /\ \A i \in 1..(n - 1) : backStack[i] \in Pages
    BY <1>1, ElementOfSeq
  <2>2. kept \in Seq(Pages) /\ Len(kept) = IF 1 <= n - 1 THEN n - 1 - 1 + 1 ELSE 0
    BY <2>1, SubSeqProperties
  <2>3. n \in 1..Len(backStack)
    BY <1>1
  <2>4. backStack[n] \in Pages
    BY <1>1, <2>3, ElementOfSeq
  <2>5. Len(kept) = n - 1
    <3>1. n \in Nat /\ n # 0
      BY <1>1
    <3> HIDE DEF n, kept
    <3> QED
      BY <2>2, <3>1
  <2>6. <<backStack[n]>> \in Seq(Pages)
    BY <2>4
  <2> QED
    BY <2>2, <2>4, <2>5, <2>6
<1>3. ahead \in Seq(Pages) /\ Len(ahead) = Len(forwardStack) + 1
  BY <1>1, ConcatProperties
<1>4. backStack = kept \o <<backStack[n]>>
  <2>1. backStack = SubSeq(backStack, 1, n)
    BY <1>1, SubSeqFull
  <2>2. 1 \in 1..Len(backStack) /\ n \in 1..Len(backStack)
    BY <1>1
  <2> QED
    BY <1>1, <2>1, <2>2, SubSeqRecursiveSecond
<1>5. page' = backStack[n] /\ backStack' = kept /\ forwardStack' = FirstOf(ahead, StackLimit)
  BY DEF GoBack
<1> HIDE DEF n, kept, ahead
<1>6. forwardStack' = ahead
  <2>1. Len(ahead) <= StackLimit
    BY <1>1, <1>3
  <2> QED
    BY <1>1, <1>3, <1>5, <2>1, KeptPages
<1>7. Stacks'
  BY <1>1, <1>2, <1>3, <1>5, <1>6 DEF Stacks
<1>8. Line' = (kept \o <<backStack[n]>>) \o ahead
  BY <1>5, <1>6 DEF Line
<1>9. Line = backStack \o ahead
  BY <1>1, ConcatAssociative DEF Line, ahead
<1> QED
  BY <1>4, <1>7, <1>8, <1>9

LEMMA ForwardWalks ==
  ASSUME Stacks, GoForward
  PROVE  Stacks' /\ Line' = Line
<1> DEFINE behind == Append(backStack, page)
           rest == Tail(forwardStack)
           next == Head(forwardStack)
<1>1. /\ backStack \in Seq(Pages) /\ forwardStack \in Seq(Pages) /\ <<page>> \in Seq(Pages)
      /\ page \in Pages /\ StackLimit \in Nat
      /\ Len(forwardStack) \in Nat \ {0} /\ Len(backStack) \in Nat
      /\ Len(backStack) + Len(forwardStack) <= StackLimit /\ forwardStack # <<>>
  BY EmptySeq, LenProperties, StackAssumption DEF Stacks, GoForward
<1>2. behind \in Seq(Pages) /\ Len(behind) = Len(backStack) + 1 /\ behind = backStack \o <<page>>
  BY <1>1, AppendProperties, AppendIsConcat
<1>3. next \in Pages /\ rest \in Seq(Pages) /\ Len(rest) = Len(forwardStack) - 1 /\ <<next>> \in Seq(Pages)
  BY <1>1, HeadTailProperties
<1>4. forwardStack = <<next>> \o rest
  <2>1. 1 \in 1..Len(forwardStack) /\ Len(forwardStack) \in 1..Len(forwardStack)
    BY <1>1
  <2>2. forwardStack = <<forwardStack[1]>> \o SubSeq(forwardStack, 1 + 1, Len(forwardStack))
    BY <1>1, <2>1, SubSeqFull, SubSeqRecursiveFirst
  <2>3. rest = SubSeq(forwardStack, 2, Len(forwardStack))
    BY <1>1, TailIsSubSeq
  <2>4. next = forwardStack[1]
    BY <1>1
  <2> QED
    BY <2>2, <2>3, <2>4
<1>5. page' = next /\ forwardStack' = rest /\ backStack' = LastOf(behind, StackLimit)
  BY DEF GoForward
<1> HIDE DEF behind, rest, next
<1>6. backStack' = behind
  <2>1. Len(behind) <= StackLimit
    BY <1>1, <1>2
  <2> QED
    BY <1>1, <1>2, <1>5, <2>1, KeptPages
<1>7. Stacks'
  <2>1. page' \in Pages /\ backStack' \in Seq(Pages) /\ forwardStack' \in Seq(Pages)
    BY <1>2, <1>3, <1>5, <1>6
  <2>2. Len(backStack') = Len(backStack) + 1 /\ Len(forwardStack') = Len(forwardStack) - 1
    BY <1>2, <1>3, <1>5, <1>6
  <2>3. Len(backStack') + Len(forwardStack') <= StackLimit
    BY <1>1, <2>2
  <2> QED
    BY <2>1, <2>3 DEF Stacks
<1>8. Line' = ((backStack \o <<page>>) \o <<next>>) \o rest
  BY <1>2, <1>3, <1>5, <1>6, ConcatAssociative DEF Line
<1>9. Line = (backStack \o <<page>>) \o forwardStack
  BY <1>1, ConcatAssociative DEF Line
<1> QED
  BY <1>1, <1>2, <1>3, <1>4, <1>7, <1>8, <1>9, ConcatAssociative

LEMMA PagesKeep == PagesInv /\ [PagesNext]_pageVars => PagesInv'
<1> SUFFICES ASSUME PagesInv, [PagesNext]_pageVars PROVE PagesInv'
  OBVIOUS
<1> USE DEF PagesInv
<1>1. Counted'
  <2>1. moves' \in 0..MaxMoves
    <3>1. CASE Move
      BY <3>1, MovesAssumption DEF Move, Counted
    <3>2. CASE UNCHANGED pageVars
      BY <3>2 DEF pageVars, Counted
    <3> QED
      BY <3>1, <3>2 DEF PagesNext, FollowLink, OpenFromMenu, BackFromJob, GoBack, GoForward, SetScreen
  <2>2. onboarded' \in BOOLEAN
    <3>1. ASSUME NEW target, NavigateFromScreen(target)  PROVE onboarded' \in BOOLEAN
      <4>1. onboarded' = (onboarded \/ (page \in SetupPages /\ target \notin SetupPages))
        BY <3>1 DEF NavigateFromScreen
      <4> QED
        BY <4>1, Zenon
    <3>2. CASE UNCHANGED onboarded
      BY <3>2, Zenon DEF Counted
    <3> QED
      BY <3>1, <3>2 DEF PagesNext, FollowLink, OpenFromMenu, BackFromJob, GoBack, GoForward, SetScreen,
         pageVars
  <2> QED
    BY <2>1, <2>2 DEF Counted
<1>2. ASSUME NEW target \in Pages, NavigateScreen(target)  PROVE Stacks'
  BY <1>2, NavigateKeeps
<1>3. ASSUME UNCHANGED <<page, backStack, forwardStack>>  PROVE Stacks'
  <2>1. page' = page /\ backStack' = backStack /\ forwardStack' = forwardStack /\ Stacks
    BY <1>3
  <2> QED
    BY <2>1 DEF Stacks
<1>4. ASSUME NEW target \in Pages, SetScreen(target)  PROVE Stacks'
  BY <1>4 DEF SetScreen, Stacks
<1>5. ASSUME NEW target, target \in {"main-empty"}, NavigateScreen(target)  PROVE Stacks'
  BY <1>5, NavigateKeeps DEF Pages, AppPages
<1> QED
  BY <1>1, <1>2, <1>3, <1>4, <1>5, BackWalks, ForwardWalks
     DEF PagesNext, FollowLink, NavigateFromScreen, OpenFromMenu, BackFromJob,
         ResolveAppMenuBackTarget, pageVars

(* The stacks keep within their limit together, whatever is navigated: clicks *)
(* on links and the menu, back, forward, and pages set by timers and answers. *)
THEOREM PagesInvariance == PagesSpec => []PagesInv
BY InitPages, PagesKeep, PTL DEF PagesSpec

(* The page and the stacks keep their types and the limit.                    *)
THEOREM PagesTypeCorrect == PagesSpec => []PagesTypeOK
<1>1. ASSUME PagesInv PROVE PagesTypeOK
  <2>1. /\ backStack \in Seq(Pages) /\ forwardStack \in Seq(Pages)
        /\ Len(backStack) \in Nat /\ Len(forwardStack) \in Nat /\ StackLimit \in Nat
    BY <1>1, LenProperties, StackAssumption DEF PagesInv, Stacks
  <2>2. Range(backStack) \subseteq Pages /\ Range(forwardStack) \subseteq Pages
    BY <2>1, RangeOfSeq
  <2> QED
    BY <1>1, <2>1, <2>2 DEF PagesInv, Stacks, Counted, PagesTypeOK
<1> QED
  BY <1>1, PagesInvariance, PTL

(* Back and Forward walk over one line of pages and change nothing of it,     *)
(* for every limit of the stacks.                                             *)
THEOREM HistoryKeptHolds == PagesSpec => HistoryKept
<1>1. PagesInv /\ [PagesNext]_pageVars => [GoBack \/ GoForward => Line' = Line]_pageVars
  BY BackWalks, ForwardWalks DEF PagesInv
<1> QED
  BY <1>1, PagesInvariance, PTL DEF PagesSpec, HistoryKept

------------------------------------------------------------------------------
(* The list of the queue.  What is listed as over was seen to be over, and    *)
(* only what was listed so is on its way to be deleted.                       *)

JobStatus == ActiveJob \cup OverJob \cup {"gone"}

Kept == truth \in [QueueJobs -> JobStatus] /\ SeenBeforeDeleted

Listed == DOMAIN listed \subseteq QueueJobs /\ \A j \in DOMAIN listed : listed[j] \in OverJob => j \in seenOver

Clicked ==
  /\ bulk \subseteq [what : {"cancel", "delete"}, ids : SUBSET QueueJobs]
  /\ \A b \in bulk : b.what = "delete" => b.ids \subseteq seenOver

ListInv == Kept /\ Listed /\ Clicked

(* The panel: what is still waited for is a load of the job that is shown.    *)
PanelInv ==
  /\ loads \in [Loads -> [job : QueueJobs \cup {0}, alive : BOOLEAN]] /\ shown \in QueueJobs \cup {0}
  /\ \A l \in Loads : loads[l].alive => loads[l].job = shown
  /\ LogsOfShownJob

QueueInv == ListInv /\ PanelInv

LEMMA InitQueue == QueueInit => QueueInv
<1> SUFFICES ASSUME QueueInit PROVE QueueInv
  OBVIOUS
<1>1. ListInv
  BY DEF QueueInit, ListInv, Kept, Listed, Clicked, JobStatus, ActiveJob, OverJob, Working, SeenBeforeDeleted
<1>2. PanelInv
  BY DEF QueueInit, PanelInv, LogsOfShownJob, NoLoad
<1> QED
  BY <1>1, <1>2 DEF QueueInv

LEMMA ListFrame ==
  ASSUME ListInv, UNCHANGED <<truth, listed, bulk, seenOver>>
  PROVE  ListInv'
<1>1. Kept'
  BY DEF ListInv, Kept, SeenBeforeDeleted
<1>2. Listed'
  BY DEF ListInv, Listed
<1>3. Clicked'
  BY DEF ListInv, Clicked
<1> QED
  BY <1>1, <1>2, <1>3 DEF ListInv

LEMMA DaemonKeepsList ==
  ASSUME ListInv, NEW j \in QueueJobs, DaemonMoves(j)
  PROVE  ListInv'
<1>1. Kept'
  BY DEF ListInv, Kept, SeenBeforeDeleted, DaemonMoves, JobStatus, ActiveJob, OverJob, Working
<1>2. Listed'
  BY DEF ListInv, Listed, DaemonMoves
<1>3. Clicked'
  BY DEF ListInv, Clicked, DaemonMoves
<1> QED
  BY <1>1, <1>2, <1>3 DEF ListInv

(* A new list shows what is over, whatever the daemon answers.                *)
LEMMA RelistedIsSeen ==
  ASSUME NEW st, Relisted(st)
  PROVE  Listed' /\ seenOver \subseteq seenOver'
<1> DEFINE there == {j \in QueueJobs : st[j] # "gone"}
<1>1. listed' = [j \in there |-> st[j]] /\ seenOver' = seenOver \cup {j \in there : st[j] \in OverJob}
  BY DEF Relisted
<1>2. DOMAIN listed' = there /\ \A j \in there : listed'[j] = st[j]
  BY <1>1
<1> QED
  BY <1>1, <1>2 DEF Listed

LEMMA RefreshKeepsList ==
  ASSUME ListInv, RefreshJobs
  PROVE  ListInv'
<1>1. Listed' /\ seenOver \subseteq seenOver' /\ UNCHANGED <<truth, bulk>>
  BY RelistedIsSeen DEF RefreshJobs
<1>2. Kept'
  BY <1>1 DEF ListInv, Kept, SeenBeforeDeleted
<1>3. Clicked'
  BY <1>1 DEF ListInv, Clicked
<1> QED
  BY <1>1, <1>2, <1>3 DEF ListInv

LEMMA PressKeepsList ==
  ASSUME ListInv, NEW ids \in SUBSET QueueJobs, NEW what \in {"cancel", "delete"}, Press(what, ids),
         what = "delete" => ids \subseteq seenOver
  PROVE  ListInv'
<1>1. Kept'
  BY DEF ListInv, Kept, SeenBeforeDeleted, Press
<1>2. Listed'
  BY DEF ListInv, Listed, Press
<1>3. Clicked'
  BY DEF Clicked, Press
<1> QED
  BY <1>1, <1>2, <1>3 DEF ListInv

LEMMA BulkKeepsList ==
  ASSUME ListInv, NEW j \in QueueJobs, BulkStep(j)
  PROVE  ListInv'
<1> PICK b \in bulk :
      /\ j \in b.ids
      /\ truth' = [truth EXCEPT ![j] = CASE b.what = "cancel" -> CanceledFrom(truth[j])
                                         [] b.what = "delete" /\ truth[j] \in OverJob -> "gone"
                                         [] OTHER -> truth[j]]
      /\ IF b.ids = {j}
         THEN bulk' = {} /\ Relisted(truth')
         ELSE bulk' = {[b EXCEPT !.ids = b.ids \ {j}]} /\ UNCHANGED <<listed, seenOver>>
  BY DEF BulkStep
<1>1. b \in [what : {"cancel", "delete"}, ids : SUBSET QueueJobs] /\ (b.what = "delete" => b.ids \subseteq seenOver)
  BY DEF ListInv, Clicked
<1>2. Listed' /\ seenOver \subseteq seenOver'
  BY RelistedIsSeen DEF ListInv, Listed
<1>3. truth' \in [QueueJobs -> JobStatus]
  BY DEF ListInv, Kept, JobStatus, CanceledFrom, ActiveJob, OverJob, Working
<1>4. SeenBeforeDeleted'
  <2> SUFFICES ASSUME NEW i \in QueueJobs, truth'[i] = "gone" PROVE i \in seenOver'
    BY DEF SeenBeforeDeleted
  <2>1. CASE truth[i] = "gone"
    BY <1>2, <2>1 DEF ListInv, Kept, SeenBeforeDeleted
  <2>2. CASE truth[i] # "gone"
    <3>1. i = j
      BY <2>2 DEF ListInv, Kept
    <3>2. b.what = "cancel" => truth'[j] = CanceledFrom(truth[j])
      BY DEF ListInv, Kept
    <3>3. CanceledFrom(truth[j]) # "gone"
      BY <2>2, <3>1 DEF CanceledFrom
    <3>4. b.what # "cancel"
      BY <3>1, <3>2, <3>3
    <3> QED
      BY <1>1, <1>2, <3>1, <3>4
  <2> QED
    BY <2>1, <2>2
<1>5. Clicked'
  <2>1. CASE b.ids = {j}
    BY <2>1 DEF Clicked
  <2>2. CASE b.ids # {j}
    <3> DEFINE c == [b EXCEPT !.ids = b.ids \ {j}]
    <3>1. c \in [what : {"cancel", "delete"}, ids : SUBSET QueueJobs] /\ c.what = b.what /\ c.ids \subseteq b.ids
      BY <1>1
    <3>2. bulk' = {c}
      BY <2>2
    <3> HIDE DEF c
    <3> QED
      BY <1>1, <1>2, <3>1, <3>2 DEF Clicked
  <2> QED
    BY <2>1, <2>2
<1> QED
  BY <1>2, <1>3, <1>4, <1>5 DEF ListInv, Kept

LEMMA ListKeeps == ListInv /\ [ListNext \/ PanelNext]_queueVars => ListInv'
<1> SUFFICES ASSUME ListInv, [ListNext \/ PanelNext]_queueVars PROVE ListInv'
  OBVIOUS
<1>1. CASE UNCHANGED <<truth, listed, bulk, seenOver>>
  BY <1>1, ListFrame
<1>2. ASSUME RefreshJobs  PROVE ListInv'
  BY <1>2, RefreshKeepsList
<1>3. ASSUME NEW j \in QueueJobs, DaemonMoves(j) \/ BulkStep(j)  PROVE ListInv'
  BY <1>3, DaemonKeepsList, BulkKeepsList
<1>4. ASSUME CancelSelected  PROVE ListInv'
  <2>1. SelectedOf(ActiveJob) \in SUBSET QueueJobs
    BY DEF ListInv, Listed, SelectedOf
  <2> QED
    BY <1>4, <2>1, PressKeepsList DEF CancelSelected
<1>5. ASSUME DeleteSelected  PROVE ListInv'
  <2>1. SelectedOf(OverJob) \in SUBSET QueueJobs /\ SelectedOf(OverJob) \subseteq seenOver
    BY DEF ListInv, Listed, SelectedOf
  <2> QED
    BY <1>5, <2>1, PressKeepsList DEF DeleteSelected
<1>6. ASSUME NEW ids, NEW from, Selects(ids, from)  PROVE ListInv'
  BY <1>6, ListFrame DEF Selects
<1>7. ASSUME ToggleFiltered  PROVE ListInv'
  BY <1>6, <1>7 DEF ToggleFiltered
<1>8. ASSUME ClearSelection  PROVE ListInv'
  BY <1>6, <1>8 DEF ClearSelection
<1>9. ASSUME NEW j, ToggleJob(j)  PROVE ListInv'
  BY <1>6, <1>9 DEF ToggleJob
<1>10. ASSUME NEW j, NEW shift, NEW ctrl, SelectJob(j, shift, ctrl)  PROVE ListInv'
  BY <1>6, <1>10 DEF SelectJob
<1>11. ASSUME NEW f, SetFilter(f)  PROVE ListInv'
  BY <1>11, ListFrame DEF SetFilter
<1>12. CASE PanelNext
  <2>1. ASSUME NEW j \in QueueJobs, DaemonMoves(j)  PROVE ListInv'
    BY <2>1, <1>3
  <2> QED
    BY <1>12, <2>1, <1>1 DEF PanelNext, Render, ShowJob, LoadAgain, LogsLoaded, listVars
<1> QED
  BY <1>1, <1>2, <1>3, <1>4, <1>5, <1>7, <1>8, <1>9, <1>10, <1>11, <1>12
     DEF ListNext, queueVars, listVars

LEMMA PanelFrame ==
  ASSUME PanelInv, UNCHANGED panelVars
  PROVE  PanelInv'
BY DEF PanelInv, LogsOfShownJob, panelVars

LEMMA ReloadedIsShown ==
  ASSUME PanelInv, NEW j \in QueueJobs \cup {0}, NEW after \in Reloaded(j)
  PROVE  /\ after \in [Loads -> [job : QueueJobs \cup {0}, alive : BOOLEAN]]
         /\ \A l \in Loads : after[l].alive => after[l].job = j
<1> DEFINE idle(l) == [loads[l] EXCEPT !.alive = FALSE]
<1>1. \A l \in Loads : /\ idle(l) \in [job : QueueJobs \cup {0}, alive : BOOLEAN]
                       /\ ~idle(l).alive
  BY DEF PanelInv
<1>2. CASE j = 0
  <2>1. after = [l \in Loads |-> idle(l)]
    BY <1>2 DEF Reloaded
  <2> HIDE DEF idle
  <2> QED
    BY <1>1, <2>1
<1>3. CASE j # 0
  <2>1. PICK new \in Loads : after = [l \in Loads |-> IF l = new THEN [job |-> j, alive |-> TRUE] ELSE idle(l)]
    BY <1>3 DEF Reloaded
  <2> HIDE DEF idle
  <2> QED
    BY <1>1, <2>1
<1> QED
  BY <1>2, <1>3

LEMMA ShowKeepsPanel ==
  ASSUME PanelInv, NEW j \in QueueJobs \cup {0}, ShowJob(j)
  PROVE  PanelInv'
BY ReloadedIsShown DEF PanelInv, ShowJob, LogsOfShownJob

LEMMA RenderKeepsPanel ==
  ASSUME PanelInv, Render
  PROVE  PanelInv'
<1>1. shown \in QueueJobs \cup {0} /\ loads' \in Reloaded(shown) /\ UNCHANGED <<shown, logs, heard>>
  BY DEF PanelInv, Render
<1> QED
  BY <1>1, ReloadedIsShown DEF PanelInv, LogsOfShownJob

LEMMA LoadKeepsPanel ==
  ASSUME PanelInv, NEW l \in Loads, LoadAgain(l)
  PROVE  PanelInv'
BY DEF PanelInv, LoadAgain, LogsOfShownJob

LEMMA LoadedKeepsPanel ==
  ASSUME PanelInv, NEW l \in Loads, LogsLoaded(l)
  PROVE  PanelInv'
<1>1. loads' = [loads EXCEPT ![l] = NoLoad] /\ shown' = shown
  BY DEF LogsLoaded
<1>2. /\ loads' \in [Loads -> [job : QueueJobs \cup {0}, alive : BOOLEAN]]
      /\ \A k \in Loads : loads'[k].alive => loads'[k].job = shown
  BY <1>1 DEF PanelInv, NoLoad
<1>3. LogsOfShownJob'
  <2>1. CASE UNCHANGED <<logs, heard>>
    BY <1>1, <2>1 DEF PanelInv, LogsOfShownJob
  <2>2. CASE loads[l].alive /\ logs' = loads[l].job
    BY <1>1, <2>2 DEF PanelInv, LogsOfShownJob
  <2>3. CASE ~loads[l].alive /\ logs' = logs /\ heard' = (heard \/ loads[l].alive)
    <3>1. heard' => heard
      BY <2>3, Zenon
    <3> QED
      BY <1>1, <2>3, <3>1 DEF PanelInv, LogsOfShownJob
  <2> QED
    BY <2>1, <2>2, <2>3 DEF LogsLoaded
<1> QED
  BY <1>1, <1>2, <1>3 DEF PanelInv

LEMMA PanelKeeps == PanelInv /\ [ListNext \/ PanelNext]_queueVars => PanelInv'
<1> SUFFICES ASSUME PanelInv, [ListNext \/ PanelNext]_queueVars PROVE PanelInv'
  OBVIOUS
<1>1. CASE UNCHANGED panelVars
  BY <1>1, PanelFrame
<1>2. CASE ListNext
  <2>1. ASSUME NEW ids, NEW from, Selects(ids, from)  PROVE UNCHANGED panelVars
    BY <2>1 DEF Selects
  <2>2. ASSUME NEW what, NEW ids, Press(what, ids)  PROVE UNCHANGED panelVars
    BY <2>2 DEF Press
  <2>3. ASSUME NEW j, DaemonMoves(j) \/ BulkStep(j)  PROVE UNCHANGED panelVars
    BY <2>3 DEF DaemonMoves, BulkStep
  <2>4. ASSUME NEW j, NEW shift, NEW ctrl, ToggleJob(j) \/ SelectJob(j, shift, ctrl)
        PROVE  UNCHANGED panelVars
    BY <2>1, <2>4 DEF ToggleJob, SelectJob
  <2>5. RefreshJobs \/ ToggleFiltered \/ ClearSelection \/ CancelSelected \/ DeleteSelected
          => UNCHANGED panelVars
    BY <2>1, <2>2 DEF RefreshJobs, ToggleFiltered, ClearSelection, CancelSelected, DeleteSelected
  <2>6. ASSUME NEW f, SetFilter(f)  PROVE UNCHANGED panelVars
    BY <2>6 DEF SetFilter
  <2>7. UNCHANGED panelVars
    BY <1>2, <2>3, <2>4, <2>5, <2>6 DEF ListNext
  <2> QED
    BY <2>7, PanelFrame
<1>3. CASE PanelNext
  <2>1. ASSUME NEW j, DaemonMoves(j)  PROVE PanelInv'
    BY <2>1, PanelFrame DEF DaemonMoves
  <2> QED
    BY <1>3, <2>1, ShowKeepsPanel, RenderKeepsPanel, LoadKeepsPanel, LoadedKeepsPanel DEF PanelNext
<1> QED
  BY <1>1, <1>2, <1>3 DEF queueVars

(* What QueueInv says of the lists, the selection and the log panel holds for *)
(* any jobs, clicks and loads (queue.tsx).                                    *)
THEOREM QueueInvariance == QueueSpec => []QueueInv
<1>1. QueueInv /\ [ListNext \/ PanelNext]_queueVars => QueueInv'
  BY ListKeeps, PanelKeeps DEF QueueInv
<1> QED
  BY <1>1, InitQueue, PTL DEF QueueSpec

(* Neither screen takes one job for another: a job is deleted only once it    *)
(* was shown to be over, and the log panel shows no other one's lines, for    *)
(* any number of jobs, loads and gestures (queue.tsx:50, queue.tsx:269).      *)
THEOREM NoJobMistakenHolds == QueueSpec => []NoJobMistaken
<1>1. QueueInv => NoJobMistaken
  BY DEF QueueInv, ListInv, Kept, PanelInv, NoJobMistaken
<1> QED
  BY <1>1, QueueInvariance, PTL

------------------------------------------------------------------------------
(* The settings.  Of two views only the fields matter that are written to the *)
(* file: the status of an API's key is older than the key at times.           *)

Plain(v, w) == \A f \in PlainFields : v[f] = w[f]
ShownIs(view) == \A f \in PlainFields : config[f] = MapConfig(view)[f]
ReadyIn(list, id) == \E s \in Range(list) : s.id = id /\ s.state = "ready"

(* Shapes.  A model of a list has an id that is known, and every model is in  *)
(* the list behind the client.                                                *)
CallFields == {"at", "arg", "id", "after", "got"}
StoredFields == {"config", "file", "key", "providers", "models", "installs"}
HasIds(list) == \A i \in DOMAIN list : {"id", "state"} \subseteq DOMAIN list[i] /\ list[i].id \in ModelIds
StoredOK(s) ==
  /\ DOMAIN s = StoredFields /\ DOMAIN s.config = DOMAIN DefaultView /\ DOMAIN s.installs = ModelIds
  /\ HasIds(s.models) /\ \A m \in ModelIds : \E i \in DOMAIN s.models : s.models[i].id = m
SettingsShape ==
  /\ DOMAIN config = PlainFields \cup {"api"} /\ HasIds(models) /\ StoredOK(stored)
  /\ DOMAIN calls = Calls /\ \A h \in Calls : DOMAIN calls[h] = CallFields

(* What is said holds while no two functions waited at a time and no request  *)
(* was lost.  Keyed: the patch is of a key, and the main process's.  Stale:   *)
(* the function will show the configuration when it is answered.              *)
Calm == ~mixed /\ ~failed
Keyed(c) == c.after \in {"save", "delete"}
Stale(c) == c.at \in {"load", "reread"} \/ (c.at \in {"update", "persist"} /\ ~Keyed(c))
InstallKnown(m) == stored.installs[m] = "succeeded" => ReadyIn(stored.models, m)

(* A function that waits: what it was answered is not outdated when it goes   *)
(* on, and what it will write is what the daemon has.                         *)
CallOK(c) ==
  /\ c.at = "idle" => c.got = {}
  /\ \A s \in c.got : /\ StoredOK(s) /\ Plain(s.config, stored.config)
                      /\ \A m \in ModelIds : ReadyIn(s.models, m) => ReadyIn(stored.models, m)
  /\ c.at \in {"persist", "restart"} => DOMAIN c.arg = DOMAIN DefaultView /\ Plain(c.arg, stored.config) /\ ~Mock
  /\ c.at = "restart" => ~unwritten /\ Keyed(c)
  /\ c.at = "update" /\ Keyed(c) => ~Mock /\ c.got = {} /\ DOMAIN c.arg = {"alias"}
  /\ c.at = "install" =>
       /\ c.id \in ModelIds
       /\ \A s \in c.got : /\ s.installs[c.id] = "succeeded" => ReadyIn(stored.models, c.id)
                           /\ InstallKnown(c.id)
  /\ c.at = "remove" => c.id \in ModelIds /\ c.id \notin following /\ installJobs[c.id] = "none"
CallsOK == \A h \in Calls : CallOK(calls[h])
Alone == \A g, h \in Calls : calls[g].at # "idle" /\ calls[h].at # "idle" => g = h
Busy(m) == \E h \in Calls : calls[h].at \in {"install", "remove"} /\ calls[h].id = m

(* App shows what is stored, unless a function is about to; the file has it,  *)
(* unless one is about to write; an installation that is followed ends with   *)
(* the model there; and no model is shown as ready, but by one that is being  *)
(* installed or removed, that is not.                                         *)
ConfigKept == (\A h \in Calls : ~Stale(calls[h])) => ShownIs(stored.config)
FileKept ==
  ~Mock /\ ~unwritten /\ (\A h \in Calls : calls[h].at # "persist") => Plain(Loaded(stored.file), stored.config)
Follows == following \subseteq ModelIds /\ \A m \in following : InstallKnown(m)
ReadyKept ==
  \A m \in ModelIds : ~Busy(m) =>
    /\ installJobs[m] = "succeeded" => ReadyIn(stored.models, m)
    /\ ReadyIn(models, m) => ReadyIn(stored.models, m)

CalmInv ==
  /\ SettingsShape /\ Alone /\ CallsOK
  /\ ConfigKept /\ FileKept /\ Follows /\ ReadyKept
SettingsInv == Calm => CalmInv

(* A set of numbers has a least one: the function that loads first.           *)
LEMMA LeastOf ==
  ASSUME NEW S, S \subseteq Nat, S # {}
  PROVE  \E m \in S : \A k \in S : m <= k
<1>1. PICK m \in S : \A k \in S : ~(<<k, m>> \in OpToRel(<, Nat))
  BY WFMin, NatLessThanWellFounded, Zenon
<1>2. \A k \in S : ~(k < m)
  BY <1>1, Zenon DEF OpToRel
<1> QED
  BY <1>2

(* The fields of a view are the plain ones, the alias and the status of a key.*)
LEMMA Fields == DOMAIN DefaultView = PlainFields \cup {"alias", "api"} /\ {"alias", "api"} \cap PlainFields = {}
BY DEF DefaultView, PlainFields

(* Views that agree in the file are shown alike.                              *)
LEMMA MapPlain ==
  ASSUME NEW v, NEW w, Plain(v, w)
  PROVE  \A f \in PlainFields : MapConfig(v)[f] = MapConfig(w)[f]
<1>1. \A f \in PlainFields : f \in DOMAIN DefaultView \ {"alias"} /\ v[f] = w[f]
  BY Fields DEF Plain
<1> QED
  BY <1>1 DEF MapConfig

(* A configuration has the fields of a view but the alias.                    *)
LEMMA MapFields == ASSUME NEW v PROVE DOMAIN MapConfig(v) = PlainFields \cup {"api"}
BY Fields DEF MapConfig

(* What is written of a view is loaded again as it was.                       *)
LEMMA FileLoaded ==
  ASSUME NEW v, NEW file
  PROVE  DOMAIN Loaded(file) = DOMAIN DefaultView /\ Plain(Loaded(ConfigFile(v)), v)
<1>1. \A f \in PlainFields : /\ f \in DOMAIN DefaultView /\ f # "api" /\ f # "alias"
                             /\ f \in DOMAIN ConfigFile(v) /\ ConfigFile(v)[f] = v[f]
  BY Fields DEF ConfigFile
<1>2. \A f \in PlainFields : Loaded(ConfigFile(v))[f] = v[f]
  BY <1>1 DEF Loaded
<1> QED
  BY <1>2 DEF Plain, Loaded

(* A patch keeps the fields of a view, and the plain ones if it has none.     *)
LEMMA MergedFields ==
  ASSUME NEW v, DOMAIN v = DOMAIN DefaultView, NEW patch
  PROVE  /\ DOMAIN MergeConfigView(v, patch) = DOMAIN DefaultView
         /\ PlainFields \cap DOMAIN patch = {} => Plain(MergeConfigView(v, patch), v)
<1>1. PlainFields \subseteq DOMAIN v
  BY Fields
<1> QED
  BY <1>1 DEF MergeConfigView, Plain

(* One model of a list gets another state.                                    *)
LEMMA StateSet ==
  ASSUME NEW list, HasIds(list), NEW id, NEW st
  PROVE  /\ HasIds(WithState(list, id, st))
         /\ \A m : (\E i \in DOMAIN list : list[i].id = m)
              => \E i \in DOMAIN WithState(list, id, st) : WithState(list, id, st)[i].id = m
         /\ \A m : m # id => (ReadyIn(WithState(list, id, st), m) <=> ReadyIn(list, m))
         /\ st # "ready" => ~ReadyIn(WithState(list, id, st), id)
         /\ st = "ready" /\ (\E i \in DOMAIN list : list[i].id = id) => ReadyIn(WithState(list, id, st), id)
<1> DEFINE new == WithState(list, id, st)
<1>1. DOMAIN new = DOMAIN list
  BY DEF WithState, Change
<1>2. \A i \in DOMAIN list : /\ DOMAIN new[i] = DOMAIN list[i] /\ new[i].id = list[i].id
                             /\ list[i].id = id => new[i].state = st
                             /\ list[i].id # id => new[i] = list[i]
  BY DEF WithState, Change, HasIds
<1> HIDE DEF new
<1>3. HasIds(new)
  BY <1>1, <1>2 DEF HasIds
<1>4. \A m : (\E i \in DOMAIN list : list[i].id = m) => \E i \in DOMAIN new : new[i].id = m
  BY <1>1, <1>2
<1>5. \A m : ReadyIn(new, m) <=> \E i \in DOMAIN list : new[i].id = m /\ new[i].state = "ready"
  BY <1>1 DEF ReadyIn, Range
<1>6. \A m : ReadyIn(list, m) <=> \E i \in DOMAIN list : list[i].id = m /\ list[i].state = "ready"
  BY DEF ReadyIn, Range
<1>7. \A m : m # id => (ReadyIn(new, m) <=> ReadyIn(list, m))
  BY <1>2, <1>5, <1>6
<1>8. st # "ready" => ~ReadyIn(new, id)
  BY <1>2, <1>5
<1>9. st = "ready" /\ (\E i \in DOMAIN list : list[i].id = id) => ReadyIn(new, id)
  BY <1>2, <1>5
<1> QED
  BY <1>3, <1>4, <1>7, <1>8, <1>9 DEF new

(* A function that begins to wait while all is calm is alone.                 *)
LEMMA Waits ==
  ASSUME NEW h, NEW call, Await(h, call), ~mixed'
  PROVE  ~mixed /\ calls' = [calls EXCEPT ![h] = call] /\ \A g \in Calls \ {h} : calls[g].at = "idle"
BY Zenon DEF Await

(* What is calm now was so before.                                            *)
LEMMA CalmBefore ==
  ASSUME SettingsNext, Calm'
  PROVE  Calm
<1> USE Waits DEF Calm, Apart, Quiet, Unheard, Returns
<1>1. CASE SettingsGoOn
  <2>1. CASE \E h \in Calls : GoesOn(h)
    <3>1. PICK h \in Calls : GoesOn(h)
      BY <2>1
    <3>2. CASE \E m \in ModelIds : InstallEnded(m, h)
      BY <3>2 DEF InstallEnded
    <3> QED
      BY <3>1, <3>2 DEF GoesOn, Serve, KeyWritten, KeyRefused, Merge, Persist, NotPersisted, Restart, BaseLoaded,
         ProvidersListed, ConfigUpdated, UpdateRefused, ConfigReread, SecretStored, SecretProvidersListed,
         ProviderTested, ProvidersRefreshed, DependencyInstalled, ModelRemoved, CleanedUp, ModelInstalls
  <2>2. CASE \E m \in ModelIds : InstallMoves(m) \/ InstallSnapshot(m) \/ InstallProgress(m)
    <3>1. PICK m \in ModelIds : InstallMoves(m) \/ InstallSnapshot(m) \/ InstallProgress(m)
      BY <2>2
    <3>2. mixed' = mixed /\ failed' = failed
      BY <3>1 DEF InstallMoves, InstallSnapshot, InstallProgress
    <3> QED
      BY <3>2
  <2>3. CASE AutoCheck \/ DraftsFollow \/ \E i \in DOMAIN asking : AutoChecked(i)
    BY <2>3 DEF AutoCheck, DraftsFollow, AutoChecked
  <2> QED
    BY <1>1, <2>1, <2>2, <2>3 DEF SettingsGoOn
<1>2. CASE OpenPage
  BY <1>2 DEF OpenPage
<1>3. ASSUME NEW h \in Calls, Unreachable(h)
      PROVE  Calm
  BY <1>3 DEF Unreachable
<1>4. ASSUME NEW h \in Calls, NEW patch, NEW after, NEW id, UpdateConfig(h, patch, after, id)
      PROVE  Calm
  BY <1>4 DEF UpdateConfig
<1>5. ASSUME NEW h \in Calls, NEW at, NEW id, Request(h, at, id)
      PROVE  Calm
  BY <1>5 DEF Request
<1>6. ASSUME NEW h \in Calls, ActsOnConfig(h)
      PROVE  Calm
  BY <1>4, <1>6 DEF ActsOnConfig, ChangeRow, SelectModel, SelectProvider
<1>7. ASSUME NEW h \in Calls, ActsOnCards(h)
      PROVE  Calm
  BY <1>4, <1>7 DEF ActsOnCards, SelectAsDefault, ChangeDraft
<1>8. ASSUME NEW h \in Calls, ActsOnKeys(h)
      PROVE  Calm
  BY <1>4, <1>5, <1>8 DEF ActsOnKeys, SaveSecret, DeleteSecret, CheckProvider, InstallDependency, RefreshProviders
<1>9. ASSUME NEW h \in Calls, ActsOnModels(h)
      PROVE  Calm
  <2>1. ASSUME NEW m \in Range(models), RemoveModel(h, m)
        PROVE  Calm
    BY <2>1 DEF RemoveModel
  <2> QED
    BY <1>5, <1>9, <2>1 DEF ActsOnModels, CleanUp, InstallModel
<1> QED
  BY <1>1, <1>2, <1>3, <1>6, <1>7, <1>8, <1>9 DEF SettingsNext

(* A function alone goes on, or begins, without an effect behind the client   *)
(* or on an installation: it waits as c, App shows what is stored, or c is a  *)
(* function that will show it, and the models that App shows as ready are.    *)
Onward(h, c) ==
  /\ UNCHANGED <<stored, installJobs, following, unwritten, backend>>
  /\ calls' = [calls EXCEPT ![h] = c] /\ \A g \in Calls \ {h} : calls[g].at = "idle"
  /\ calls[h].at \notin {"persist", "install", "remove"}
  /\ DOMAIN c = CallFields /\ c.got = {} /\ c.at \notin {"persist", "restart", "remove"}
  /\ c.at = "update" => ~Keyed(c)
  /\ c.at = "install" => c.id \in ModelIds
Shows(c) ==
  /\ DOMAIN config' = PlainFields \cup {"api"}
  /\ Stale(c) \/ \A f \in PlainFields : config'[f] = MapConfig(stored.config)[f]
Lists ==
  /\ \A i \in DOMAIN models' : {"id", "state"} \subseteq DOMAIN models'[i] /\ models'[i].id \in ModelIds
  /\ \A m \in ModelIds : (\E s \in Range(models') : s.id = m /\ s.state = "ready") =>
       ReadyIn(stored.models, m) \/ (models' = models /\ ReadyIn(models, m))

(* Going on like that keeps the invariant.                                    *)
LEMMA OnwardKeeps ==
  ASSUME CalmInv, NEW h \in Calls, NEW c, Onward(h, c), Shows(c), Lists
  PROVE  CalmInv'
<1>1. calls'[h] = c /\ DOMAIN calls' = Calls /\ \A g \in Calls \ {h} : calls'[g] = calls[g]
  BY DEF CalmInv, SettingsShape, Onward
<1>2. ModelIds' = ModelIds /\ stored' = stored /\ installJobs' = installJobs
      /\ following' = following /\ unwritten' = unwritten /\ Mock' = Mock
  BY DEF Onward, ModelIds, Mock
<1>3. HasIds(models)'
  BY <1>2 DEF Lists, HasIds
<1>4. StoredOK(stored)'
  BY <1>2 DEF CalmInv, SettingsShape, StoredOK, HasIds
<1>5. SettingsShape'
  BY <1>1, <1>3, <1>4 DEF CalmInv, SettingsShape, Onward, Shows
<1>6. Alone'
  BY <1>1 DEF Onward, Alone
<1>7. CallsOK'
  <2> SUFFICES ASSUME NEW g \in Calls PROVE CallOK(calls[g])'
    BY DEF CallsOK
  <2>1. CASE g = h
    BY <2>1, <1>1, <1>2 DEF Onward, CallOK
  <2>2. CASE g # h
    BY <2>2, <1>1 DEF Onward, CallOK, CalmInv, CallsOK
  <2> QED
    BY <2>1, <2>2
<1>8. ConfigKept'
  BY <1>1, <1>2 DEF ConfigKept, Shows, Stale, Keyed, ShownIs
<1>9. FileKept'
  BY <1>1, <1>2 DEF FileKept, CalmInv, Onward
<1>10. Follows'
  BY <1>2 DEF Follows, CalmInv, InstallKnown
<1>11. ReadyKept'
  <2>1. \A m \in ModelIds : ~Busy(m)
    BY DEF Busy, Onward
  <2> QED
    BY <2>1, <1>2 DEF Lists, ReadyKept, CalmInv, ReadyIn
<1> QED
  BY <1>5, <1>6, <1>7, <1>8, <1>9, <1>10, <1>11 DEF CalmInv

(* An answer shows what is stored but for the status of a key.                *)
LEMMA GotFacts ==
  ASSUME CalmInv, NEW h \in Calls, calls[h].got # {}
  PROVE  /\ Got(h) \in calls[h].got /\ StoredOK(Got(h)) /\ HasIds(Got(h).models)
         /\ \A f \in PlainFields : MapConfig(Got(h).config)[f] = MapConfig(stored.config)[f]
         /\ \A m \in ModelIds : ReadyIn(Got(h).models, m) => ReadyIn(stored.models, m)
<1>1. Got(h) \in calls[h].got
  BY DEF Got
<1>2. CallOK(calls[h])
  BY DEF CalmInv, CallsOK
<1>3. /\ StoredOK(Got(h)) /\ Plain(Got(h).config, stored.config)
      /\ \A m \in ModelIds : ReadyIn(Got(h).models, m) => ReadyIn(stored.models, m)
  BY <1>1, <1>2 DEF CallOK
<1> QED
  BY <1>1, <1>3, MapPlain DEF StoredOK

(* Only one function waits, so that App shows what is stored unless that one  *)
(* is on its way to show it.                                                  *)
LEMMA AloneShows ==
  ASSUME CalmInv, NEW h \in Calls, ~Stale(calls[h]), calls[h].at # "idle" \/ \A g \in Calls \ {h} : calls[g].at = "idle"
  PROVE  \A f \in PlainFields : config[f] = MapConfig(stored.config)[f]
<1>1. \A g \in Calls : ~Stale(calls[g])
  BY DEF CalmInv, Alone, Stale
<1> QED
  BY <1>1 DEF CalmInv, ConfigKept, ShownIs

(* Lists that are as they were are as good as before.                         *)
LEMMA SameLists ==
  ASSUME CalmInv, models' = models, installJobs' = installJobs
  PROVE  Lists
<1>1. HasIds(models)
  BY DEF CalmInv, SettingsShape
<1> QED
  BY <1>1 DEF Lists, HasIds, ReadyIn, ModelIds

(* The records of a function that does not wait, and of one that loads.       *)
LEMMA IdleFields == DOMAIN IdleCall = CallFields /\ IdleCall.at = "idle" /\ IdleCall.got = {} /\ IdleCall.after = ""
BY DEF IdleCall, CallFields

LEMMA LoadFields == DOMAIN Load = CallFields /\ Load.at = "load" /\ Load.got = {}
BY DEF Load, IdleCall, CallFields

(* The functions that only show.                                              *)
Shown(h) ==
  \/ KeyRefused(h) \/ BaseLoaded(h) \/ ProvidersListed(h) \/ ConfigUpdated(h) \/ UpdateRefused(h)
  \/ ConfigReread(h) \/ SecretStored(h) \/ SecretProvidersListed(h) \/ ProviderTested(h)
  \/ ProvidersRefreshed(h) \/ DependencyInstalled(h) \/ CleanedUp(h)

(* Each of them goes on as Onward says.                                       *)
LEMMA ShownKeeps ==
  ASSUME CalmInv, NEW h \in Calls, ~mixed', UNCHANGED backend, Shown(h)
  PROVE  CalmInv'
<1> USE DEF Quiet, Apart, Returns, Answer
<1>1. \A g \in Calls \ {h} : calls[g].at = "idle" \/ calls[h].at = "idle"
  BY DEF CalmInv, Alone
<1>2. DOMAIN config = PlainFields \cup {"api"}
  BY DEF CalmInv, SettingsShape
<1>3. CASE KeyRefused(h)
  <2>1. Onward(h, IdleCall)
    BY <1>1, <1>3, IdleFields DEF KeyRefused, Onward
  <2>2. Shows(IdleCall)
    BY <1>2, <1>3, AloneShows DEF KeyRefused, shownVars, Shows, Stale
  <2>3. Lists
    BY <1>3, SameLists DEF KeyRefused, shownVars
  <2> QED
    BY <2>1, <2>2, <2>3, OnwardKeeps
<1>4. CASE BaseLoaded(h)
  <2> DEFINE c == [IdleCall EXCEPT !.at = "providers", !.arg = MapConfig(Got(h).config)]
  <2>1. DOMAIN c = CallFields /\ c.at = "providers" /\ c.got = {}
    BY IdleFields DEF CallFields
  <2>2. Onward(h, c)
    BY <1>4, <2>1, Waits DEF BaseLoaded, Onward
  <2>3. Shows(c)
    BY <1>4, GotFacts, MapFields DEF BaseLoaded, Shows
  <2>4. Lists
    BY <1>4, GotFacts DEF BaseLoaded, Lists, HasIds, ReadyIn
  <2> QED
    BY <2>2, <2>3, <2>4, OnwardKeeps
<1>5. CASE ProvidersListed(h) \/ SecretProvidersListed(h) \/ ProviderTested(h) \/ ProvidersRefreshed(h)
  <2>1. Onward(h, IdleCall)
    BY <1>1, <1>5, IdleFields
       DEF ProvidersListed, SecretProvidersListed, ProviderTested, ProvidersRefreshed, Onward
  <2>2. calls[h].at \in {"providers", "secretProviders", "live", "static", "refresh"}
        /\ config' = config /\ models' = models /\ installJobs' = installJobs
    BY <1>5 DEF ProvidersListed, SecretProvidersListed, ProviderTested, ProvidersRefreshed
  <2>3. Shows(IdleCall)
    BY <1>2, <2>2, AloneShows DEF Shows, Stale
  <2>4. Lists
    BY <2>2, SameLists
  <2> QED
    BY <2>1, <2>3, <2>4, OnwardKeeps
<1>6. CASE ConfigUpdated(h)
  <2>1. PICK c : /\ c = IdleCall \/ c = [IdleCall EXCEPT !.at = "live", !.id = calls[h].id]
                 /\ calls' = [calls EXCEPT ![h] = c]
    BY <1>6, Waits DEF ConfigUpdated
  <2>2. DOMAIN c = CallFields /\ c.at \in {"idle", "live"} /\ c.got = {}
    BY <2>1, IdleFields DEF CallFields
  <2>3. Onward(h, c)
    BY <1>1, <1>6, <2>1, <2>2 DEF ConfigUpdated, Onward
  <2>4. Shows(c)
    BY <1>6, GotFacts, MapFields DEF ConfigUpdated, Shows
  <2>5. Lists
    BY <1>6, SameLists DEF ConfigUpdated
  <2> QED
    BY <2>3, <2>4, <2>5, OnwardKeeps
<1>7. CASE UpdateRefused(h)
  <2>1. PICK c : /\ (Keyed(calls[h]) /\ c = IdleCall) \/ c = [IdleCall EXCEPT !.at = "reread"]
                 /\ calls' = [calls EXCEPT ![h] = c]
    BY <1>7, Waits DEF UpdateRefused, Keyed
  <2>2. DOMAIN c = CallFields /\ c.at \in {"idle", "reread"} /\ c.got = {}
        /\ (c.at = "reread" \/ Keyed(calls[h]))
    BY <2>1, IdleFields DEF CallFields
  <2>3. Onward(h, c)
    BY <1>1, <1>7, <2>1, <2>2 DEF UpdateRefused, Onward
  <2>4. Shows(c)
    BY <1>2, <1>7, <2>2, AloneShows DEF UpdateRefused, shownVars, Shows, Stale
  <2>5. Lists
    BY <1>7, SameLists DEF UpdateRefused, shownVars
  <2> QED
    BY <2>3, <2>4, <2>5, OnwardKeeps
<1>8. CASE ConfigReread(h)
  <2>1. Onward(h, IdleCall)
    BY <1>1, <1>8, IdleFields DEF ConfigReread, Onward
  <2>2. Shows(IdleCall)
    BY <1>8, GotFacts, MapFields DEF ConfigReread, Shows
  <2>3. Lists
    BY <1>8, SameLists DEF ConfigReread
  <2> QED
    BY <2>1, <2>2, <2>3, OnwardKeeps
<1>9. CASE SecretStored(h)
  <2> DEFINE c == [IdleCall EXCEPT !.at = "secretProviders"]
  <2>1. DOMAIN c = CallFields /\ c.at = "secretProviders" /\ c.got = {}
    BY IdleFields DEF CallFields
  <2>2. Onward(h, c)
    BY <1>9, <2>1, Waits DEF SecretStored, Onward
  <2>3. Shows(c)
    BY <1>9, GotFacts, MapFields DEF SecretStored, Shows
  <2>4. Lists
    BY <1>9, SameLists DEF SecretStored
  <2> QED
    BY <2>2, <2>3, <2>4, OnwardKeeps
<1>10. CASE DependencyInstalled(h) \/ CleanedUp(h)
  <2>1. DOMAIN Load = CallFields /\ Load.at = "load" /\ Load.got = {}
    BY IdleFields DEF Load, CallFields
  <2>2. Onward(h, Load)
    BY <1>10, <2>1, Waits DEF DependencyInstalled, CleanedUp, Onward
  <2>3. Shows(Load)
    BY <1>2, <1>10, <2>1 DEF DependencyInstalled, CleanedUp, shownVars, Shows, Stale
  <2>4. Lists
    BY <1>10, SameLists DEF DependencyInstalled, CleanedUp, shownVars
  <2> QED
    BY <2>2, <2>3, <2>4, OnwardKeeps
<1> QED
  BY <1>3, <1>4, <1>5, <1>6, <1>7, <1>8, <1>9, <1>10 DEF Shown

(* The user.                                                                  *)
LEMMA UpdateKeeps ==
  ASSUME CalmInv, NEW h \in Calls, NEW patch, NEW after \in {"", "live"}, NEW id,
         UpdateConfig(h, patch, after, id), ~mixed', UNCHANGED backend
  PROVE  CalmInv'
<1> USE DEF Unheard, Act, FreeCall
<1>1. PICK p : /\ Act(h) /\ config' = Patched(config, p)
               /\ Await(h, [IdleCall EXCEPT !.at = "update", !.arg = p, !.after = after, !.id = id])
               /\ Unheard /\ UNCHANGED <<providers, models>>
  BY DEF UpdateConfig
<1> DEFINE c == [IdleCall EXCEPT !.at = "update", !.arg = p, !.after = after, !.id = id]
<1>2. DOMAIN c = CallFields /\ c.at = "update" /\ c.got = {} /\ c.after = after
  BY DEF IdleCall, CallFields
<1>3. Onward(h, c)
  BY <1>1, <1>2, Waits DEF Onward, Keyed
<1>4. Shows(c)
  <2>1. DOMAIN config' = DOMAIN config
    BY <1>1 DEF Patched
  <2> QED
    BY <1>2, <2>1 DEF Shows, Stale, Keyed, CalmInv, SettingsShape
<1>5. Lists
  BY <1>1, SameLists
<1> QED
  BY <1>3, <1>4, <1>5, OnwardKeeps

(* Other requests change nothing that is shown before they are answered.      *)
LEMMA RequestKeeps ==
  ASSUME CalmInv, NEW h \in Calls, NEW id,
         NEW at \in {"save", "delete", "static", "dependency", "refresh", "cleanup", "install"},
         at = "install" => id \in ModelIds,
         Request(h, at, id), UNCHANGED shownVars, ~mixed', UNCHANGED backend
  PROVE  CalmInv'
<1> USE DEF Unheard, Act, FreeCall
<1> DEFINE c == [IdleCall EXCEPT !.at = at, !.id = id]
<1>1. DOMAIN c = CallFields /\ c.at = at /\ c.got = {} /\ c.id = id
  BY DEF IdleCall, CallFields
<1>2. Onward(h, c)
  BY <1>1, Waits DEF Onward, Request
<1>3. calls[h].at = "idle" /\ \A g \in Calls \ {h} : calls[g].at = "idle"
  BY Waits DEF Request
<1>4. Shows(c)
  BY <1>3, AloneShows DEF Shows, Stale, CalmInv, SettingsShape, shownVars
<1>5. Lists
  BY SameLists DEF Request, shownVars
<1> QED
  BY <1>2, <1>4, <1>5, OnwardKeeps

(* A model that is removed is followed no more, and its installation is       *)
(* forgotten, before the request.                                             *)
LEMMA RemoveKeeps ==
  ASSUME CalmInv, NEW h \in Calls, NEW m \in Range(models), RemoveModel(h, m), ~mixed', UNCHANGED backend
  PROVE  CalmInv'
<1> DEFINE c == [IdleCall EXCEPT !.at = "remove", !.id = m.id]
<1>1. DOMAIN c = CallFields /\ c.at = "remove" /\ c.got = {} /\ c.id = m.id
  BY DEF IdleCall, CallFields
<1>2. calls' = [calls EXCEPT ![h] = c] /\ (\A g \in Calls : calls[g].at = "idle")
  BY Waits DEF RemoveModel, Act, FreeCall
<1>3. calls'[h] = c /\ DOMAIN calls' = Calls /\ \A g \in Calls \ {h} : calls'[g] = calls[g]
  BY <1>2 DEF CalmInv, SettingsShape
<1>4. m.id \in ModelIds
  BY DEF CalmInv, SettingsShape, HasIds, Range
<1>5. /\ ModelIds' = ModelIds /\ following' = following \ {m.id} /\ installJobs'[m.id] = "none"
      /\ \A n \in ModelIds \ {m.id} : installJobs'[n] = installJobs[n]
      /\ config' = config /\ models' = models /\ stored' = stored /\ unwritten' = unwritten /\ Mock' = Mock
  BY <1>4 DEF RemoveModel, ModelIds, shownVars, Mock
<1>6. SettingsShape'
  BY <1>1, <1>3, <1>5 DEF CalmInv, SettingsShape, StoredOK, HasIds
<1>7. Alone'
  BY <1>2, <1>3 DEF Alone
<1>8. CallsOK'
  <2> SUFFICES ASSUME NEW g \in Calls PROVE CallOK(calls[g])'
    BY DEF CallsOK
  <2>1. CASE g = h
    BY <2>1, <1>1, <1>3, <1>4, <1>5 DEF CallOK
  <2>2. CASE g # h
    BY <2>2, <1>2, <1>3 DEF CallOK, CalmInv, CallsOK
  <2> QED
    BY <2>1, <2>2
<1>9. ConfigKept'
  BY <1>2, <1>5 DEF ConfigKept, ShownIs, Stale, CalmInv
<1>10. FileKept'
  BY <1>2, <1>5 DEF FileKept, CalmInv
<1>11. Follows'
  BY <1>5 DEF Follows, CalmInv, InstallKnown
<1>12. ReadyKept'
  <2>1. \A n \in ModelIds : ~Busy(n)
    BY <1>2 DEF Busy
  <2>2. Busy(m.id)'
    BY <1>1, <1>3 DEF Busy
  <2> QED
    BY <2>1, <2>2, <1>5 DEF ReadyKept, CalmInv, ReadyIn
<1> QED
  BY <1>6, <1>7, <1>8, <1>9, <1>10, <1>11, <1>12 DEF CalmInv

Acts(h) == ActsOnConfig(h) \/ ActsOnCards(h) \/ ActsOnKeys(h) \/ ActsOnModels(h)

(* A control of a card that is not the default changes a draft only.          *)
LEMMA DraftKeeps ==
  ASSUME CalmInv, UNCHANGED <<config, models, stored, calls, installJobs, following, unwritten, backend>>
  PROVE  CalmInv'
<1>1. ModelIds' = ModelIds /\ Mock' = Mock
  BY DEF ModelIds, Mock
<1>2. SettingsShape'
  BY <1>1 DEF CalmInv, SettingsShape, StoredOK, HasIds
<1>3. CallsOK'
  BY <1>1 DEF CalmInv, CallsOK, CallOK, StoredOK, HasIds, ReadyIn, InstallKnown
<1>4. (Alone /\ ConfigKept /\ FileKept)'
  BY <1>1 DEF CalmInv, Alone, ConfigKept, ShownIs, FileKept
<1>5. (Follows /\ ReadyKept)'
  BY <1>1 DEF CalmInv, Follows, ReadyKept, Busy, InstallKnown, ReadyIn
<1> QED
  BY <1>2, <1>3, <1>4, <1>5 DEF CalmInv

(* All that the user does.                                                    *)
LEMMA ActsKeep ==
  ASSUME CalmInv, NEW h \in Calls, Acts(h), ~mixed', UNCHANGED backend
  PROVE  CalmInv'
<1>1. CASE ActsOnConfig(h)
  BY <1>1, UpdateKeeps DEF ActsOnConfig, ChangeRow, SelectModel, SelectProvider
<1>2. CASE ActsOnCards(h)
  <2>1. PICK p : SelectAsDefault(h, p) \/ \E c \in Controls(p) : ChangeDraft(h, p, c)
    BY <1>2 DEF ActsOnCards
  <2>2. CASE SelectAsDefault(h, p)
    BY <2>2, UpdateKeeps DEF SelectAsDefault
  <2>3. ASSUME NEW c \in Controls(p), ChangeDraft(h, p, c)
        PROVE  CalmInv'
    <3>1. \/ UpdateConfig(h, c[2] :> c[3], "", "")
          \/ UNCHANGED <<config, models, stored, calls, installJobs, following, unwritten>>
      BY <2>3 DEF ChangeDraft, shownVars, Unheard
    <3> QED
      BY <3>1, UpdateKeeps, DraftKeeps
  <2> QED
    BY <2>1, <2>2, <2>3
<1>3. CASE ActsOnKeys(h)
  <2>1. CASE RefreshProviders(h)
    BY <2>1, RequestKeeps DEF RefreshProviders
  <2>2. ASSUME NEW p, SaveSecret(h, p) \/ DeleteSecret(h, p) \/ InstallDependency(h, p)
        PROVE  CalmInv'
    BY <2>2, RequestKeeps DEF SaveSecret, DeleteSecret, InstallDependency
  <2>3. ASSUME NEW p, CheckProvider(h, p)
        PROVE  CalmInv'
    BY <2>3, RequestKeeps, UpdateKeeps DEF CheckProvider
  <2> QED
    BY <1>3, <2>1, <2>2, <2>3 DEF ActsOnKeys
<1>4. CASE ActsOnModels(h)
  <2>1. CASE CleanUp(h)
    BY <2>1, RequestKeeps DEF CleanUp
  <2>2. ASSUME NEW m \in Range(models), InstallModel(h, m)
        PROVE  CalmInv'
    <3>1. m.id \in ModelIds
      BY DEF CalmInv, SettingsShape, HasIds, Range
    <3> QED
      BY <2>2, <3>1, RequestKeeps DEF InstallModel
  <2> QED
    BY <1>4, <2>1, <2>2, RemoveKeeps DEF ActsOnModels
<1> QED
  BY <1>1, <1>2, <1>3, <1>4 DEF Acts

(* The installations.                                                         *)
LEMMA RemovedKeeps ==
  ASSUME CalmInv, NEW h \in Calls, ModelRemoved(h), ~mixed', UNCHANGED backend
  PROVE  CalmInv'
<1> DEFINE id == calls[h].id
<1>1. DOMAIN Load = CallFields /\ Load.at = "load" /\ Load.got = {}
  BY DEF Load, IdleCall, CallFields
<1>2. /\ calls[h].at = "remove" /\ models' = WithState(models, id, "missing")
      /\ calls' = [calls EXCEPT ![h] = Load] /\ \A g \in Calls \ {h} : calls[g].at = "idle"
  BY Waits DEF ModelRemoved, Answer
<1>3. calls'[h] = Load /\ DOMAIN calls' = Calls /\ \A g \in Calls \ {h} : calls'[g] = calls[g]
  BY <1>2 DEF CalmInv, SettingsShape
<1>4. id \in ModelIds /\ id \notin following /\ installJobs[id] = "none"
  BY <1>2 DEF CalmInv, CallsOK, CallOK
<1>5. /\ ModelIds' = ModelIds /\ following' = following /\ installJobs' = installJobs
      /\ config' = config /\ stored' = stored /\ unwritten' = unwritten /\ Mock' = Mock
  BY DEF ModelRemoved, Quiet, ModelIds, Mock
<1>6. /\ HasIds(models') /\ ~ReadyIn(models', id)
      /\ \A m : m # id => (ReadyIn(models', m) <=> ReadyIn(models, m))
  BY <1>2, StateSet DEF CalmInv, SettingsShape
<1>7. SettingsShape'
  BY <1>1, <1>3, <1>5, <1>6 DEF CalmInv, SettingsShape, StoredOK, HasIds
<1>8. Alone'
  BY <1>2, <1>3 DEF Alone
<1>9. CallsOK'
  <2> SUFFICES ASSUME NEW g \in Calls PROVE CallOK(calls[g])'
    BY DEF CallsOK
  <2>1. CASE g = h
    BY <2>1, <1>1, <1>3 DEF CallOK
  <2>2. CASE g # h
    BY <2>2, <1>2, <1>3 DEF CallOK, CalmInv, CallsOK
  <2> QED
    BY <2>1, <2>2
<1>10. ConfigKept'
  BY <1>1, <1>3 DEF ConfigKept, Stale
<1>11. FileKept'
  BY <1>2, <1>5 DEF FileKept, CalmInv
<1>12. Follows'
  BY <1>5 DEF Follows, CalmInv, InstallKnown
<1>13. ReadyKept'
  <2>1. \A m \in ModelIds : m # id => ~Busy(m)
    BY <1>2 DEF Busy
  <2>2. \A m \in ModelIds : m # id => /\ installJobs[m] = "succeeded" => ReadyIn(stored.models, m)
                                      /\ ReadyIn(models, m) => ReadyIn(stored.models, m)
    BY <2>1 DEF CalmInv, ReadyKept
  <2>3. \A m \in ModelIds : /\ installJobs[m] = "succeeded" => ReadyIn(stored.models, m)
                            /\ ReadyIn(models', m) => ReadyIn(stored.models, m)
    BY <2>2, <1>4, <1>6
  <2> QED
    BY <2>3, <1>5 DEF ReadyKept, ReadyIn
<1> QED
  BY <1>7, <1>8, <1>9, <1>10, <1>11, <1>12, <1>13 DEF CalmInv

(* App is told of an installation of m: its job is st, and the card shows it. *)
(* With a success, the model is ready there.                                  *)
LEMMA InstallShown ==
  ASSUME CalmInv, NEW m \in ModelIds, NEW st, NEW state,
         st = "succeeded" \/ state = "ready" => ReadyIn(stored.models, m),
         installJobs' = [installJobs EXCEPT ![m] = st],
         models' = WithState(models, m, state) \/ (models' = models /\ (Busy(m) => Busy(m)')),
         stored' = stored,
         \A n \in ModelIds : n # m /\ Busy(n) => Busy(n)'
  PROVE  ModelIds' = ModelIds /\ HasIds(models)' /\ ReadyKept'
<1>1. ModelIds' = ModelIds
  BY DEF ModelIds
<1>2. /\ HasIds(models')
      /\ \A n : n # m => (ReadyIn(models', n) <=> ReadyIn(models, n))
      /\ ReadyIn(models', m) => state = "ready" \/ (ReadyIn(models, m) /\ (Busy(m) => Busy(m)'))
  BY StateSet DEF CalmInv, SettingsShape
<1>3. HasIds(models)'
  BY <1>1, <1>2 DEF HasIds
<1>4. ASSUME NEW n \in ModelIds, n # m, ~Busy(n)'
      PROVE  /\ installJobs'[n] = "succeeded" => ReadyIn(stored.models, n)
             /\ ReadyIn(models', n) => ReadyIn(stored.models, n)
  <2>1. ~Busy(n)
    BY <1>4
  <2>2. /\ installJobs[n] = "succeeded" => ReadyIn(stored.models, n)
        /\ ReadyIn(models, n) => ReadyIn(stored.models, n)
    BY <2>1 DEF CalmInv, ReadyKept
  <2> QED
    BY <1>2, <1>4, <2>2 DEF ModelIds
<1>5. ASSUME ~Busy(m)'
      PROVE  /\ installJobs'[m] = "succeeded" => ReadyIn(stored.models, m)
             /\ ReadyIn(models', m) => ReadyIn(stored.models, m)
  BY <1>2, <1>5 DEF ModelIds, CalmInv, ReadyKept
<1>6. ReadyKept'
  BY <1>1, <1>4, <1>5 DEF ReadyKept, ReadyIn
<1> QED
  BY <1>1, <1>3, <1>6

(* installModel is answered with a job: it is followed, or it is over.        *)
LEMMA InstallsKeep ==
  ASSUME CalmInv, NEW h \in Calls, ModelInstalls(h), ~mixed', UNCHANGED backend
  PROVE  CalmInv'
<1> DEFINE m == calls[h].id
           st == Got(h).installs[m]
<1>1. calls[h].at = "install" /\ calls[h].got # {} /\ \A g \in Calls \ {h} : calls[g].at = "idle"
  BY DEF ModelInstalls, Answer, CalmInv, Alone
<1>2. /\ m \in ModelIds /\ InstallKnown(m) /\ (st = "succeeded" => ReadyIn(stored.models, m))
  BY <1>1, GotFacts DEF CalmInv, CallsOK, CallOK
<1>3. PICK c : /\ c \in {IdleCall, Load} /\ calls' = [calls EXCEPT ![h] = c]
               /\ following' \subseteq following \cup {m}
  BY Waits DEF ModelInstalls, Returns
<1>4. DOMAIN c = CallFields /\ c.at \in {"idle", "load"} /\ c.got = {}
  BY <1>3, IdleFields, LoadFields
<1>5. calls'[h] = c /\ DOMAIN calls' = Calls /\ \A g \in Calls \ {h} : calls'[g] = calls[g]
  BY <1>3 DEF CalmInv, SettingsShape
<1>6. /\ installJobs' = [installJobs EXCEPT ![m] = st] /\ models' = WithState(models, m, InstallState(st))
      /\ config' = config /\ stored' = stored /\ unwritten' = unwritten /\ Mock' = Mock
  BY DEF ModelInstalls, Mock
<1>7. InstallState(st) = "ready" => st = "succeeded"
  BY DEF InstallState
<1>8. \A n \in ModelIds : n # m => ~Busy(n)
  BY <1>1 DEF Busy
<1>9. ModelIds' = ModelIds /\ HasIds(models)' /\ ReadyKept'
  BY <1>2, <1>6, <1>7, <1>8, InstallShown
<1>10. SettingsShape'
  BY <1>4, <1>5, <1>6, <1>9 DEF CalmInv, SettingsShape, StoredOK, HasIds
<1>11. Alone'
  BY <1>1, <1>5 DEF Alone
<1>12. CallsOK'
  <2> SUFFICES ASSUME NEW g \in Calls PROVE CallOK(calls[g])'
    BY DEF CallsOK
  <2>1. CASE g = h
    BY <2>1, <1>4, <1>5 DEF CallOK
  <2>2. CASE g # h
    BY <2>2, <1>1, <1>5 DEF CallOK, CalmInv, CallsOK
  <2> QED
    BY <2>1, <2>2
<1>13. ConfigKept'
  <2>1. \A f \in PlainFields : config[f] = MapConfig(stored.config)[f]
    BY <1>1, AloneShows DEF Stale
  <2> QED
    BY <2>1, <1>6 DEF ConfigKept, ShownIs
<1>14. FileKept'
  BY <1>1, <1>6 DEF FileKept, CalmInv
<1>15. Follows'
  BY <1>2, <1>3, <1>6, <1>9 DEF Follows, CalmInv, InstallKnown
<1> QED
  BY <1>9, <1>10, <1>11, <1>12, <1>13, <1>14, <1>15 DEF CalmInv

(* What an event of an installation leaves of the rest: at most an idle       *)
(* function loads, when all are idle.                                         *)
LEMMA EventKeeps ==
  ASSUME CalmInv,
         \/ calls' = calls
         \/ \E h \in Calls, c \in {IdleCall, Load} :
              /\ calls[h].at = "idle" /\ calls' = [calls EXCEPT ![h] = c]
              /\ c = Load => \A g \in Calls \ {h} : calls[g].at = "idle",
         NEW m \in following, NEW st, NEW state,
         st = "succeeded" \/ state = "ready" => ReadyIn(stored.models, m),
         installJobs' = [installJobs EXCEPT ![m] = st],
         models' = WithState(models, m, state) \/ models' = models,
         following' \subseteq following,
         UNCHANGED <<config, stored, unwritten, backend>>
  PROVE  CalmInv'
<1>1. m \in ModelIds
  BY DEF CalmInv, Follows
<1>2. DOMAIN calls = Calls /\ \A g \in Calls : DOMAIN calls[g] = CallFields
  BY DEF CalmInv, SettingsShape
<1> DEFINE CallSteps ==
      /\ DOMAIN calls' = Calls
      /\ \A g \in Calls : \/ calls'[g] = calls[g]
                          \/ /\ calls[g].at = "idle" /\ calls'[g].at \in {"idle", "load"}
                             /\ calls'[g].got = {} /\ DOMAIN calls'[g] = CallFields
      /\ \/ \A g \in Calls : calls'[g] = calls[g] \/ (calls[g].at = "idle" /\ calls'[g].at = "idle")
         \/ \E h \in Calls : calls'[h].at = "load" /\ \A g \in Calls \ {h} : calls'[g].at = "idle"
<1>3. CallSteps
  <2>1. CASE calls' = calls
    BY <2>1, <1>2
  <2>2. ASSUME NEW h \in Calls, NEW c \in {IdleCall, Load}, calls[h].at = "idle", calls' = [calls EXCEPT ![h] = c],
               c = Load => \A g \in Calls \ {h} : calls[g].at = "idle"
        PROVE  CallSteps
    <3>1. DOMAIN calls' = Calls /\ calls'[h] = c /\ \A g \in Calls \ {h} : calls'[g] = calls[g]
      BY <2>2, <1>2
    <3>2. c.at \in {"idle", "load"} /\ c.got = {} /\ DOMAIN c = CallFields /\ (c.at = "load" => c = Load)
      BY <2>2, IdleFields, LoadFields
    <3> QED
      BY <2>2, <3>1, <3>2
  <2> QED
    BY <2>1, <2>2
<1>4. Mock' = Mock /\ ModelIds' = ModelIds
  BY DEF Mock, ModelIds
<1>5. \A n \in ModelIds : Busy(n) => Busy(n)'
  BY <1>3 DEF Busy
<1>6. HasIds(models)' /\ ReadyKept'
  BY <1>1, <1>5, InstallShown
<1>7. SettingsShape'
  <2>1. \A g \in Calls : DOMAIN calls'[g] = CallFields
    BY <1>2, <1>3
  <2>2. DOMAIN calls' = Calls
    BY <1>3
  <2> QED
    BY <2>1, <2>2, <1>4, <1>6 DEF CalmInv, SettingsShape, StoredOK, HasIds
<1>8. Alone'
  <2>1. Alone
    BY DEF CalmInv
  <2> QED
    BY <2>1, <1>3 DEF Alone
<1>9. \A n \in ModelIds : n \notin following => installJobs'[n] = installJobs[n]
  BY DEF ModelIds
<1>10. CallsOK'
  <2> SUFFICES ASSUME NEW g \in Calls PROVE CallOK(calls[g])'
    BY DEF CallsOK
  <2>1. CASE calls'[g].at \in {"idle", "load"} /\ calls'[g].got = {}
    BY <2>1 DEF CallOK
  <2>2. CASE calls'[g] = calls[g]
    <3>1. CallOK(calls[g])
      BY DEF CalmInv, CallsOK
    <3> QED
      BY <2>2, <3>1, <1>4, <1>9 DEF CallOK, StoredOK, HasIds, ReadyIn, InstallKnown
  <2> QED
    BY <2>1, <2>2, <1>3
<1>11. ConfigKept'
  <2>1. CASE \A g \in Calls : calls'[g] = calls[g] \/ (calls[g].at = "idle" /\ calls'[g].at = "idle")
    BY <2>1 DEF ConfigKept, ShownIs, Stale, CalmInv
  <2>2. CASE \E h \in Calls : calls'[h].at = "load"
    BY <2>2 DEF ConfigKept, Stale
  <2> QED
    BY <2>1, <2>2, <1>3
<1>12. FileKept'
  <2>1. (\A g \in Calls : calls'[g].at # "persist") => \A g \in Calls : calls[g].at # "persist"
    BY <1>3
  <2> QED
    BY <2>1, <1>4 DEF FileKept, CalmInv
<1>13. Follows'
  BY <1>4 DEF Follows, CalmInv, InstallKnown
<1> QED
  BY <1>6, <1>7, <1>8, <1>10, <1>11, <1>12, <1>13 DEF CalmInv

(* The events of an installation.                                             *)
LEMMA EventsKeep ==
  ASSUME CalmInv, NEW m \in ModelIds, ~mixed', UNCHANGED backend,
         InstallSnapshot(m) \/ InstallProgress(m) \/ \E h \in Calls : InstallEnded(m, h)
  PROVE  CalmInv'
<1>1. m \in following
  BY DEF InstallSnapshot, InstallProgress, InstallEnded
<1>2. ASSUME NEW h \in Calls, InstallEnded(m, h)
      PROVE  CalmInv'
  <2> DEFINE st == stored.installs[m]
  <2>1. st = "succeeded" => ReadyIn(stored.models, m)
    BY <1>1 DEF CalmInv, Follows, InstallKnown
  <2>2. InstallState(st) = "ready" => st = "succeeded"
    BY DEF InstallState
  <2>3. \E c \in {IdleCall, Load} :
          /\ calls[h].at = "idle" /\ calls' = [calls EXCEPT ![h] = c]
          /\ c = Load => \A g \in Calls \ {h} : calls[g].at = "idle"
    <3>1. IdleCall # Load
      BY IdleFields, LoadFields
    <3>2. calls[h].at = "idle"
          /\ IF st = "succeeded" THEN Await(h, Load) ELSE Returns(h)
      BY <1>2 DEF InstallEnded, FreeCall
    <3>3. CASE st = "succeeded"
      BY <3>2, <3>3, Waits
    <3>4. CASE st # "succeeded"
      BY <3>1, <3>2, <3>4 DEF Returns
    <3> QED
      BY <3>3, <3>4
  <2>4. /\ installJobs' = [installJobs EXCEPT ![m] = st] /\ following' \subseteq following
        /\ models' = WithState(models, m, InstallState(st)) \/ models' = models
        /\ UNCHANGED <<config, stored, unwritten>>
    BY <1>2 DEF InstallEnded
  <2> HIDE DEF st
  <2> QED
    BY <1>1, <2>1, <2>2, <2>3, <2>4, EventKeeps
<1>3. ASSUME InstallSnapshot(m) \/ InstallProgress(m)
      PROVE  CalmInv'
  <2>1. PICK st \in {"queued", "running"} :
          /\ installJobs' = [installJobs EXCEPT ![m] = st]
          /\ models' = WithState(models, m, "installing") \/ models' = models
          /\ UNCHANGED <<config, stored, unwritten, following, calls>>
    BY <1>3 DEF InstallSnapshot, InstallProgress, shownVars
  <2> QED
    BY <1>1, <2>1, EventKeeps
<1> QED
  BY <1>2, <1>3

(* Behind the client an installation goes on: what is ready there stays so.   *)
LEMMA InstallMovesKeeps ==
  ASSUME CalmInv, NEW m \in ModelIds, InstallMoves(m), UNCHANGED backend
  PROVE  CalmInv'
<1>1. PICK st : stored' = [stored EXCEPT !.installs[m] = st,
                             !.models = IF st = "succeeded" THEN WithState(@, m, "ready") ELSE @]
  BY DEF InstallMoves
<1>2. /\ StoredOK(stored)
      /\ calls' = calls /\ config' = config /\ models' = models /\ installJobs' = installJobs
      /\ following' = following /\ unwritten' = unwritten /\ ModelIds' = ModelIds /\ Mock' = Mock
  BY DEF InstallMoves, shownVars, ModelIds, Mock, CalmInv, SettingsShape
<1>3. /\ stored'.config = stored.config /\ stored'.file = stored.file /\ DOMAIN stored' = StoredFields
      /\ stored'.installs = [stored.installs EXCEPT ![m] = st]
      /\ stored'.models = IF st = "succeeded" THEN WithState(stored.models, m, "ready") ELSE stored.models
  BY <1>1, <1>2 DEF StoredOK, StoredFields
<1>4. /\ HasIds(stored'.models)
      /\ \A n \in ModelIds : ReadyIn(stored.models, n) => ReadyIn(stored'.models, n)
      /\ st = "succeeded" => ReadyIn(stored'.models, m)
      /\ \A n \in ModelIds : \E i \in DOMAIN stored'.models : stored'.models[i].id = n
  <2>1. HasIds(stored.models) /\ \A n \in ModelIds : \E i \in DOMAIN stored.models : stored.models[i].id = n
    BY <1>2 DEF StoredOK
  <2>2. CASE st = "succeeded"
    <3> DEFINE new == WithState(stored.models, m, "ready")
    <3>1. /\ HasIds(new) /\ ReadyIn(new, m)
          /\ \A n : n # m => (ReadyIn(new, n) <=> ReadyIn(stored.models, n))
          /\ \A n : (\E i \in DOMAIN stored.models : stored.models[i].id = n)
               => \E i \in DOMAIN new : new[i].id = n
      <4>1. HasIds(stored.models) /\ \E i \in DOMAIN stored.models : stored.models[i].id = m
        BY <2>1
      <4>2. ReadyIn(new, m)
        BY <4>1, StateSet
      <4> QED
        BY <4>1, <4>2, StateSet
    <3>2. stored'.models = new
      BY <2>2, <1>3
    <3> HIDE DEF new
    <3> QED
      BY <2>1, <3>1, <3>2
  <2>3. CASE st # "succeeded"
    BY <2>1, <2>3, <1>3
  <2> QED
    BY <2>2, <2>3
<1>5. StoredOK(stored)'
  BY <1>2, <1>3, <1>4 DEF StoredOK, HasIds
<1>6. SettingsShape'
  BY <1>2, <1>5 DEF CalmInv, SettingsShape, HasIds
<1>7. \A n \in ModelIds : InstallKnown(n) => InstallKnown(n)'
  BY <1>2, <1>3, <1>4 DEF InstallKnown, ReadyIn, StoredOK
<1>8. CallsOK'
  <2> SUFFICES ASSUME NEW g \in Calls PROVE CallOK(calls[g])'
    BY DEF CallsOK
  <2>1. CallOK(calls[g]) /\ calls'[g] = calls[g]
    BY <1>2 DEF CalmInv, CallsOK
  <2>2. \A s : StoredOK(s) => StoredOK(s)'
    BY <1>2 DEF StoredOK, HasIds
  <2> QED
    BY <2>1, <2>2, <1>2, <1>3, <1>4, <1>7 DEF CallOK, Plain, ReadyIn
<1>9. (Alone /\ ConfigKept /\ FileKept)'
  BY <1>2, <1>3 DEF CalmInv, Alone, ConfigKept, ShownIs, FileKept
<1>10. Follows'
  BY <1>2, <1>7 DEF CalmInv, Follows
<1>11. ReadyKept'
  BY <1>2, <1>4 DEF CalmInv, ReadyKept, Busy, ReadyIn
<1> QED
  BY <1>6, <1>8, <1>9, <1>10, <1>11 DEF CalmInv

(* A request has its effect behind the client while its function, now c,      *)
(* waits alone.                                                               *)
LEMMA EffectKeeps ==
  ASSUME CalmInv, NEW h \in Calls, NEW c, calls[h].at # "idle",
         DOMAIN c = CallFields, calls' = [calls EXCEPT ![h] = c], CallOK(c)',
         UNCHANGED <<config, models, installJobs, following>>,
         StoredOK(stored)', FileKept',
         ~Stale(c) => ~Stale(calls[h]) /\ Plain(stored'.config, stored.config),
         \A m \in following : InstallKnown(m)',
         \A m \in ModelIds : ReadyIn(stored.models, m) =>
           ReadyIn(stored'.models, m) \/ (c.at \in {"install", "remove"} /\ c.id = m),
         calls[h].at \in {"install", "remove"} => c.at = calls[h].at /\ c.id = calls[h].id
  PROVE  CalmInv'
<1>1. calls'[h] = c /\ DOMAIN calls' = Calls /\ \A g \in Calls \ {h} : calls'[g] = calls[g]
  BY DEF CalmInv, SettingsShape
<1>2. \A g \in Calls \ {h} : calls[g].at = "idle"
  BY DEF CalmInv, Alone
<1>3. ModelIds' = ModelIds
  BY DEF ModelIds
<1>4. SettingsShape'
  BY <1>1, <1>3 DEF CalmInv, SettingsShape, HasIds
<1>5. Alone'
  BY <1>1, <1>2 DEF Alone
<1>6. CallsOK'
  <2> SUFFICES ASSUME NEW g \in Calls PROVE CallOK(calls[g])'
    BY DEF CallsOK
  <2>1. CASE g = h
    <3>1. calls'[g] = c
      BY <2>1, <1>1
    <3> QED
      BY <3>1 DEF CallOK, Keyed
  <2>2. CASE g # h
    <3>1. calls'[g].at = "idle" /\ calls'[g].got = {}
      BY <2>2, <1>1, <1>2 DEF CalmInv, CallsOK, CallOK
    <3> QED
      BY <3>1 DEF CallOK
  <2> QED
    BY <2>1, <2>2
<1>7. ConfigKept'
  <2> SUFFICES ASSUME ~Stale(c) PROVE ShownIs(stored.config)'
    BY <1>1 DEF ConfigKept, Stale, Keyed
  <2>1. \A f \in PlainFields : config[f] = MapConfig(stored.config)[f]
    BY AloneShows
  <2>2. \A f \in PlainFields : MapConfig(stored'.config)[f] = MapConfig(stored.config)[f]
    BY MapPlain
  <2> QED
    BY <2>1, <2>2 DEF ShownIs
<1>8. Follows'
  BY <1>3 DEF Follows, CalmInv
<1>9. ReadyKept'
  <2> SUFFICES ASSUME NEW m \in ModelIds, ~Busy(m)'
               PROVE  /\ installJobs[m] = "succeeded" => ReadyIn(stored'.models, m)
                      /\ ReadyIn(models, m) => ReadyIn(stored'.models, m)
    BY <1>3 DEF ReadyKept, ReadyIn
  <2>1. ~(c.at \in {"install", "remove"} /\ c.id = m)
    BY <1>1 DEF Busy
  <2>2. ~Busy(m)
    BY <2>1, <1>2 DEF Busy
  <2> QED
    BY <2>1, <2>2 DEF CalmInv, ReadyKept
<1> QED
  BY <1>4, <1>5, <1>6, <1>7, <1>8, <1>9 DEF CalmInv

(* The key goes into the store of the main process, and then its alias is on  *)
(* the way to the daemon.                                                     *)
LEMMA KeyWrittenKeeps ==
  ASSUME CalmInv, NEW h \in Calls, KeyWritten(h), UNCHANGED backend
  PROVE  CalmInv'
<1>1. /\ StoredOK(stored) /\ DOMAIN calls[h] = CallFields /\ ~Mock /\ Mock' = Mock
      /\ calls[h].at \in {"save", "delete"} /\ calls[h].got = {}
  BY DEF KeyWritten, CalmInv, SettingsShape, Mock
<1>2. PICK c : /\ calls' = [calls EXCEPT ![h] = c] /\ DOMAIN c = CallFields /\ c.at = "update" /\ c.got = {}
               /\ Keyed(c) /\ DOMAIN c.arg = {"alias"}
  <2> DEFINE c == [calls[h] EXCEPT !.at = "update", !.after = calls[h].at, !.arg = [alias |-> calls[h].at = "save"]]
  <2>1. calls' = [calls EXCEPT ![h] = c]
    BY DEF KeyWritten, CalmInv, SettingsShape
  <2>2. DOMAIN c = CallFields /\ c.at = "update" /\ c.got = {} /\ Keyed(c) /\ DOMAIN c.arg = {"alias"}
    BY <1>1 DEF CallFields, Keyed
  <2> QED
    BY <2>1, <2>2
<1>3. /\ config' = config /\ models' = models /\ installJobs' = installJobs /\ following' = following
      /\ ModelIds' = ModelIds /\ unwritten' = unwritten
  BY DEF KeyWritten, Apart, shownVars, ModelIds
<1>4. /\ DOMAIN stored' = StoredFields /\ stored'.config = stored.config /\ stored'.file = stored.file
      /\ stored'.models = stored.models /\ stored'.installs = stored.installs
  BY <1>1 DEF KeyWritten, StoredOK, StoredFields
<1>5. StoredOK(stored)'
  BY <1>1, <1>3, <1>4 DEF StoredOK, HasIds
<1>6. CallOK(c)'
  BY <1>1, <1>2 DEF CallOK, Keyed
<1>7. \A g \in Calls \ {h} : calls[g].at = "idle"
  BY <1>1 DEF CalmInv, Alone
<1>8. FileKept'
  BY <1>1, <1>3, <1>4, <1>7 DEF FileKept, CalmInv
<1>9. \A m \in following : InstallKnown(m)'
  BY <1>4 DEF CalmInv, Follows, InstallKnown
<1>10. ~Stale(calls[h]) /\ Plain(stored'.config, stored.config)
  BY <1>1, <1>4 DEF Stale, Plain
<1> QED
  BY <1>1, <1>2, <1>3, <1>4, <1>5, <1>6, <1>8, <1>9, <1>10, EffectKeeps

(* A patch is merged into the daemon's view, which its function then writes.  *)
LEMMA MergeKeeps ==
  ASSUME CalmInv, NEW h \in Calls, Merge(h), UNCHANGED backend
  PROVE  CalmInv'
<1> DEFINE patch == ConfigPatch(calls[h].arg)
           view == MergeConfigView(stored.config, patch)
<1>1. /\ StoredOK(stored) /\ DOMAIN calls[h] = CallFields /\ ~Mock /\ Mock' = Mock
      /\ calls[h].at = "update" /\ calls[h].got = {}
  BY DEF Merge, CalmInv, SettingsShape, Mock
<1>2. PICK c : calls' = [calls EXCEPT ![h] = c] /\ c = [calls[h] EXCEPT !.at = "persist", !.arg = view]
  BY DEF Merge, CalmInv, SettingsShape
<1>3. DOMAIN c = CallFields /\ c.at = "persist" /\ c.arg = view /\ c.got = {} /\ c.after = calls[h].after
  BY <1>1, <1>2 DEF CallFields
<1>4. DOMAIN view = DOMAIN DefaultView
  BY <1>1, MergedFields DEF StoredOK
<1>5. Keyed(calls[h]) => Plain(view, stored.config)
  <2> SUFFICES ASSUME Keyed(calls[h]) PROVE Plain(view, stored.config)
    OBVIOUS
  <2>1. DOMAIN calls[h].arg = {"alias"}
    BY <1>1 DEF CalmInv, CallsOK, CallOK
  <2>2. PlainFields \cap DOMAIN patch = {}
    BY <2>1, Fields DEF ConfigPatch
  <2> QED
    BY <1>1, <2>2, MergedFields DEF StoredOK
<1>6. /\ config' = config /\ models' = models /\ installJobs' = installJobs /\ following' = following
      /\ ModelIds' = ModelIds /\ unwritten' = unwritten
  BY DEF Merge, Apart, shownVars, ModelIds
<1>7. /\ DOMAIN stored' = StoredFields /\ stored'.config = view
      /\ stored'.models = stored.models /\ stored'.installs = stored.installs
  BY <1>1 DEF Merge, StoredOK, StoredFields
<1> HIDE DEF view, patch
<1>8. StoredOK(stored)'
  BY <1>1, <1>4, <1>6, <1>7 DEF StoredOK, HasIds
<1>9. CallOK(c)'
  BY <1>1, <1>3, <1>4, <1>7 DEF CallOK, Plain
<1>10. FileKept'
  BY <1>2, <1>3 DEF FileKept, CalmInv, SettingsShape
<1>11. \A m \in following : InstallKnown(m)'
  BY <1>7 DEF CalmInv, Follows, InstallKnown
<1>12. ~Stale(c) => ~Stale(calls[h]) /\ Plain(stored'.config, stored.config)
  BY <1>1, <1>3, <1>5, <1>7 DEF Stale, Keyed
<1> QED
  BY <1>1, <1>2, <1>3, <1>6, <1>7, <1>8, <1>9, <1>10, <1>11, <1>12, EffectKeeps

(* The file has the view that was merged; after a key, the daemon restarts.   *)
LEMMA PersistKeeps ==
  ASSUME CalmInv, NEW h \in Calls, Persist(h) \/ NotPersisted(h), UNCHANGED backend
  PROVE  CalmInv'
<1> DEFINE s == [stored EXCEPT !.file = ConfigFile(calls[h].arg)]
<1>1. /\ StoredOK(stored) /\ DOMAIN calls[h] = CallFields /\ ~Mock /\ Mock' = Mock /\ calls[h].at = "persist"
      /\ CallOK(calls[h]) /\ DOMAIN calls[h].arg = DOMAIN DefaultView /\ Plain(calls[h].arg, stored.config)
  BY DEF Persist, NotPersisted, CalmInv, SettingsShape, Mock, CallsOK, CallOK
<1>2. /\ config' = config /\ models' = models /\ installJobs' = installJobs /\ following' = following
      /\ ModelIds' = ModelIds
  BY DEF Persist, NotPersisted, Apart, shownVars, ModelIds
<1>3. CASE Persist(h)
  <2>1. /\ DOMAIN stored' = StoredFields /\ stored'.config = stored.config
        /\ stored'.file = ConfigFile(calls[h].arg)
        /\ stored'.models = stored.models /\ stored'.installs = stored.installs
    BY <1>1, <1>3 DEF Persist, StoredOK, StoredFields
  <2>2. StoredOK(stored)'
    BY <1>1, <1>2, <2>1 DEF StoredOK, HasIds
  <2>3. FileKept'
    <3>1. Plain(Loaded(stored'.file), calls[h].arg)
      BY <2>1, FileLoaded
    <3> QED
      BY <1>1, <2>1, <3>1 DEF FileKept, Plain
  <2>4. \A m \in following : InstallKnown(m)'
    BY <2>1 DEF CalmInv, Follows, InstallKnown
  <2>5. PICK c : /\ calls' = [calls EXCEPT ![h] = c]
                 /\ c = IF Keyed(calls[h]) THEN [calls[h] EXCEPT !.at = "restart"]
                        ELSE [calls[h] EXCEPT !.at = "update", !.got = {[s EXCEPT !.config = calls[h].arg]}]
    BY <1>3 DEF Persist, Keyed
  <2>6. /\ DOMAIN c = CallFields /\ c.at \in {"restart", "update"} /\ c.after = calls[h].after
        /\ c.at = "restart" <=> Keyed(calls[h])
        /\ c.at = "restart" => c.arg = calls[h].arg /\ c.got = calls[h].got
        /\ c.at = "update" => c.got = {[s EXCEPT !.config = calls[h].arg]}
    BY <1>1, <2>5 DEF CallFields
  <2> PICK t : t = [s EXCEPT !.config = calls[h].arg]
    OBVIOUS
  <2>7. /\ DOMAIN t = StoredFields /\ t.config = calls[h].arg
        /\ t.models = stored.models /\ t.installs = stored.installs
        /\ c.at = "update" => c.got = {t}
    BY <1>1, <2>6 DEF StoredOK, StoredFields
  <2>8. StoredOK(t)'
    BY <1>1, <1>2, <2>7 DEF StoredOK, HasIds
  <2>9. CallOK(c)'
    <3>1. CASE c.at = "restart"
      <4>1. \A u \in c.got : /\ StoredOK(u)' /\ Plain(u.config, stored'.config)
                             /\ \A m \in ModelIds' : ReadyIn(u.models, m) => ReadyIn(stored'.models, m)
        BY <1>1, <1>2, <2>1, <2>6, <3>1 DEF CallOK, StoredOK, HasIds
      <4>2. unwritten' = FALSE
        BY <1>3 DEF Persist
      <4> QED
        BY <1>1, <2>1, <2>6, <3>1, <4>1, <4>2 DEF CallOK, Keyed, ReadyIn, Plain
    <3>2. CASE c.at = "update"
      <4>1. ~Keyed(c)
        BY <2>6, <3>2 DEF Keyed
      <4>2. Plain(t.config, stored'.config)
        BY <1>1, <2>1, <2>7
      <4>3. \A m \in ModelIds' : ReadyIn(t.models, m) => ReadyIn(stored'.models, m)
        BY <2>1, <2>7
      <4>4. c.got = {t} /\ c.at = "update"
        BY <2>7, <3>2
      <4> QED
        BY <2>8, <4>1, <4>2, <4>3, <4>4 DEF CallOK, Keyed, Plain, ReadyIn
    <3> QED
      BY <2>6, <3>1, <3>2
  <2>10. ~Stale(c) => ~Stale(calls[h]) /\ Plain(stored'.config, stored.config)
    BY <1>1, <2>1, <2>6 DEF Stale, Keyed, Plain
  <2> QED
    BY <1>1, <1>2, <2>1, <2>2, <2>3, <2>4, <2>5, <2>6, <2>9, <2>10, EffectKeeps
<1>4. CASE NotPersisted(h)
  <2>1. stored' = stored /\ unwritten' = TRUE
    BY <1>4 DEF NotPersisted
  <2>2. StoredOK(stored)'
    BY <1>1, <1>2, <2>1 DEF StoredOK, HasIds
  <2>3. FileKept'
    BY <2>1 DEF FileKept
  <2>4. \A m \in following : InstallKnown(m)'
    BY <2>1 DEF CalmInv, Follows, InstallKnown
  <2>5. PICK c : /\ calls' = [calls EXCEPT ![h] = c]
                 /\ c = IF Keyed(calls[h]) THEN IdleCall ELSE [IdleCall EXCEPT !.at = "reread"]
    BY <1>4 DEF NotPersisted, Keyed
  <2>6. /\ DOMAIN c = CallFields /\ c.at \in {"idle", "reread"} /\ c.got = {}
        /\ c.at = "idle" <=> Keyed(calls[h])
    BY <2>5 DEF IdleCall, CallFields
  <2>7. CallOK(c)'
    BY <2>6 DEF CallOK
  <2>8. ~Stale(c) => ~Stale(calls[h]) /\ Plain(stored'.config, stored.config)
    BY <1>1, <2>1, <2>6 DEF Stale, Plain
  <2> QED
    BY <1>1, <1>2, <2>1, <2>2, <2>3, <2>4, <2>5, <2>6, <2>7, <2>8, EffectKeeps
<1> QED
  BY <1>3, <1>4

(* The daemon that starts has the view of the file, which is what it had      *)
(* before; what the key's request is answered with is the view of the patch.  *)
LEMMA RestartKeeps ==
  ASSUME CalmInv, NEW h \in Calls, Restart(h), UNCHANGED backend
  PROVE  CalmInv'
<1>1. /\ StoredOK(stored) /\ DOMAIN calls[h] = CallFields /\ calls[h].at = "restart" /\ Mock' = Mock
      /\ Keyed(calls[h]) /\ ~unwritten /\ ~Mock
      /\ DOMAIN calls[h].arg = DOMAIN DefaultView /\ Plain(calls[h].arg, stored.config)
  BY DEF Restart, CalmInv, SettingsShape, Mock, CallsOK, CallOK
<1>2. /\ config' = config /\ models' = models /\ installJobs' = installJobs /\ following' = following
      /\ ModelIds' = ModelIds /\ unwritten' = unwritten
  BY DEF Restart, Apart, shownVars, ModelIds
<1>3. \A g \in Calls \ {h} : calls[g].at = "idle"
  BY <1>1 DEF CalmInv, Alone
<1>4. Plain(Loaded(stored.file), stored.config)
  BY <1>1, <1>3 DEF CalmInv, FileKept
<1>5. /\ DOMAIN stored' = StoredFields /\ stored'.file = stored.file /\ stored'.models = stored.models
      /\ stored'.config \in {stored.config, Loaded(stored.file)} /\ DOMAIN stored'.installs = ModelIds
      /\ \A m \in ModelIds : stored'.installs[m] = "succeeded" => stored.installs[m] = "succeeded"
  <2> DEFINE s == [stored EXCEPT !.config = Loaded(stored.file),
                     !.installs = [m \in ModelIds |->
                        IF stored.installs[m] = "running" THEN "failed" ELSE stored.installs[m]]]
  <2>1. stored' = s \/ stored' = stored
    BY DEF Restart
  <2>2. /\ DOMAIN s = StoredFields /\ s.file = stored.file /\ s.models = stored.models
        /\ s.config = Loaded(stored.file)
        /\ s.installs = [m \in ModelIds |->
              IF stored.installs[m] = "running" THEN "failed" ELSE stored.installs[m]]
    BY <1>1 DEF StoredOK, StoredFields
  <2> HIDE DEF s
  <2>3. CASE stored' = s
    BY <2>2, <2>3
  <2>4. CASE stored' = stored
    BY <1>1, <2>4 DEF StoredOK
  <2> QED
    BY <2>1, <2>3, <2>4
<1>6. DOMAIN stored'.config = DOMAIN DefaultView /\ Plain(stored'.config, stored.config)
  BY <1>1, <1>4, <1>5, FileLoaded DEF StoredOK, Plain
<1>7. StoredOK(stored)'
  BY <1>1, <1>2, <1>5, <1>6 DEF StoredOK, HasIds
<1>8. PICK c : /\ calls' = [calls EXCEPT ![h] = c]
               /\ c = [calls[h] EXCEPT !.at = calls[h].after, !.got = {[stored' EXCEPT !.config = calls[h].arg]}]
  BY DEF Restart
<1>9. /\ DOMAIN c = CallFields /\ c.at \in {"save", "delete"} /\ c.got = {[stored' EXCEPT !.config = calls[h].arg]}
  BY <1>1, <1>8 DEF CallFields, Keyed
<1>10. PICK t : t = [stored' EXCEPT !.config = calls[h].arg]
  OBVIOUS
<1>11. /\ DOMAIN t = StoredFields /\ t.config = calls[h].arg
       /\ t.models = stored.models /\ t.installs = stored'.installs
  BY <1>5, <1>10 DEF StoredFields
<1>12. StoredOK(t)'
  BY <1>1, <1>2, <1>5, <1>11 DEF StoredOK, HasIds
<1>13. Plain(t.config, stored'.config)
  BY <1>1, <1>6, <1>11 DEF Plain
<1>14. CallOK(c)'
  BY <1>5, <1>9, <1>10, <1>11, <1>12, <1>13 DEF CallOK, ReadyIn, Plain
<1>15. FileKept'
  BY <1>4, <1>5, <1>6 DEF FileKept, Plain
<1>16. \A m \in following : InstallKnown(m)'
  BY <1>5 DEF CalmInv, Follows, InstallKnown
<1>17. ~Stale(calls[h])
  BY <1>1 DEF Stale
<1> QED
  BY <1>1, <1>2, <1>5, <1>6, <1>7, <1>8, <1>9, <1>14, <1>15, <1>16, <1>17, EffectKeeps

(* A request that is served in one step.  The lists of models it may leave.   *)
LEMMA ServedStored ==
  ASSUME StoredOK(stored), NEW c, NEW s \in Effects(c), c.at \in {"install", "remove"} => c.id \in ModelIds
  PROVE  /\ StoredOK(s) /\ s.file = stored.file
         /\ c.at # "update" => Plain(s.config, stored.config)
         /\ ~Mock /\ c.at \notin {"update", "save", "delete"} => s.config = stored.config
         /\ c.at = "install" =>
              /\ \A m \in ModelIds : m # c.id =>
                   /\ s.installs[m] = stored.installs[m]
                   /\ ReadyIn(stored.models, m) <=> ReadyIn(s.models, m)
              /\ s.installs[c.id] = "succeeded" => ReadyIn(s.models, c.id)
         /\ c.at # "install" => s.installs = stored.installs
         /\ c.at = "remove" =>
              \A m \in ModelIds : m # c.id => (ReadyIn(stored.models, m) <=> ReadyIn(s.models, m))
         /\ c.at \notin {"install", "remove"} => s.models = stored.models
<1>1. /\ DOMAIN stored = StoredFields /\ DOMAIN stored.config = DOMAIN DefaultView
      /\ DOMAIN stored.installs = ModelIds /\ HasIds(stored.models)
      /\ \A m \in ModelIds : \E i \in DOMAIN stored.models : stored.models[i].id = m
  BY DEF StoredOK
<1>2. CASE c.at = "update"
  <2>1. s = [stored EXCEPT !.config = MergeConfigView(@, ConfigPatch(c.arg))]
    BY <1>2 DEF Effects
  <2>2. /\ DOMAIN s = StoredFields /\ s.config = MergeConfigView(stored.config, ConfigPatch(c.arg))
        /\ s.file = stored.file /\ s.models = stored.models /\ s.installs = stored.installs
    BY <1>1, <2>1 DEF StoredFields
  <2> QED
    BY <1>1, <1>2, <2>2, MergedFields DEF StoredOK
<1>3. CASE c.at \in {"save", "delete"}
  <2>1. PICK b : s = MockKey(b, c.id)
    BY <1>3 DEF Effects
  <2>2. /\ DOMAIN s = StoredFields /\ s.file = stored.file /\ s.models = stored.models
        /\ s.installs = stored.installs
        /\ s.config = [stored.config EXCEPT !.api = IF b THEN "configured" ELSE "missing"]
    BY <1>1, <2>1 DEF MockKey, StoredFields
  <2>3. DOMAIN s.config = DOMAIN DefaultView /\ Plain(s.config, stored.config)
    BY <1>1, <2>2, Fields DEF Plain
  <2> QED
    BY <1>1, <1>3, <2>2, <2>3 DEF StoredOK
<1>4. CASE c.at = "dependency"
  <2>1. \/ s = stored
        \/ s = [stored EXCEPT !.providers =
                  Change(@, c.id, LAMBDA p : [p EXCEPT !.state = "available", !.enabled = TRUE])]
    BY <1>4 DEF Effects
  <2>2. /\ DOMAIN s = StoredFields /\ s.file = stored.file /\ s.models = stored.models
        /\ s.installs = stored.installs /\ s.config = stored.config
    BY <1>1, <2>1 DEF StoredFields
  <2> QED
    BY <1>1, <1>4, <2>2 DEF StoredOK, Plain
<1>5. CASE c.at = "install"
  <2>1. PICK st : s = [stored EXCEPT !.installs[c.id] = st,
                         !.models = IF st = "queued" THEN @
                                    ELSE WithState(@, c.id, IF st = "failed" THEN "failed" ELSE "ready")]
                  /\ st \in {"succeeded", "failed", "queued"}
    BY <1>5 DEF Effects
  <2>2. /\ DOMAIN s = StoredFields /\ s.file = stored.file /\ s.config = stored.config
        /\ s.installs = [stored.installs EXCEPT ![c.id] = st]
        /\ s.models = IF st = "queued" THEN stored.models
                      ELSE WithState(stored.models, c.id, IF st = "failed" THEN "failed" ELSE "ready")
    BY <1>1, <2>1 DEF StoredFields
  <2>3. c.id \in ModelIds /\ \E i \in DOMAIN stored.models : stored.models[i].id = c.id
    BY <1>1, <1>5
  <2> DEFINE NewList ==
        /\ HasIds(s.models) /\ \A m \in ModelIds : \E i \in DOMAIN s.models : s.models[i].id = m
        /\ \A m : m # c.id => (ReadyIn(stored.models, m) <=> ReadyIn(s.models, m))
        /\ st = "succeeded" => ReadyIn(s.models, c.id)
  <2>4. NewList
    <3>1. CASE st = "queued"
      BY <1>1, <2>2, <3>1
    <3>2. ASSUME NEW state \in {"failed", "ready"}, s.models = WithState(stored.models, c.id, state),
                 st = "succeeded" => state = "ready"
          PROVE  NewList
      <4>1. state = "ready" => ReadyIn(s.models, c.id)
        BY <1>1, <2>3, <3>2, StateSet
      <4>2. /\ HasIds(s.models)
            /\ \A m : (\E i \in DOMAIN stored.models : stored.models[i].id = m)
                 => \E i \in DOMAIN s.models : s.models[i].id = m
            /\ \A m : m # c.id => (ReadyIn(s.models, m) <=> ReadyIn(stored.models, m))
        BY <1>1, <3>2, StateSet
      <4> QED
        BY <1>1, <3>2, <4>1, <4>2
    <3>3. CASE st = "failed"
      BY <2>2, <3>2, <3>3
    <3>4. CASE st = "succeeded"
      BY <2>2, <3>2, <3>4
    <3> QED
      BY <2>1, <3>1, <3>3, <3>4
  <2>5. DOMAIN s.installs = ModelIds /\ s.installs[c.id] = st
        /\ \A m \in ModelIds : m # c.id => s.installs[m] = stored.installs[m]
    BY <1>1, <2>2, <2>3
  <2>6. StoredOK(s)
    BY <1>1, <2>2, <2>4, <2>5 DEF StoredOK
  <2> QED
    BY <1>5, <2>2, <2>4, <2>5, <2>6 DEF Plain
<1>6. CASE c.at = "remove"
  <2>1. s = [stored EXCEPT !.models = WithState(@, c.id, "missing")]
    BY <1>6 DEF Effects
  <2>2. /\ DOMAIN s = StoredFields /\ s.file = stored.file /\ s.config = stored.config
        /\ s.installs = stored.installs /\ s.models = WithState(stored.models, c.id, "missing")
    BY <1>1, <2>1 DEF StoredFields
  <2>3. /\ HasIds(s.models) /\ \A m \in ModelIds : \E i \in DOMAIN s.models : s.models[i].id = m
        /\ \A m : m # c.id => (ReadyIn(stored.models, m) <=> ReadyIn(s.models, m))
    BY <1>1, <2>2, StateSet
  <2>4. StoredOK(s)
    BY <1>1, <2>2, <2>3 DEF StoredOK
  <2> QED
    BY <1>6, <2>2, <2>3, <2>4 DEF Plain
<1>7. CASE c.at \notin {"update", "save", "delete", "dependency", "install", "remove"}
  <2>1. s = stored
    BY <1>7 DEF Effects
  <2> QED
    BY <1>7, <2>1 DEF Plain
<1> QED
  BY <1>2, <1>3, <1>4, <1>5, <1>6, <1>7

(* The requests that are served in one step.                                  *)
LEMMA ServeKeeps ==
  ASSUME CalmInv, NEW h \in Calls, Serve(h), UNCHANGED backend
  PROVE  CalmInv'
<1>1. /\ StoredOK(stored) /\ DOMAIN calls[h] = CallFields /\ Mock' = Mock /\ CallOK(calls[h])
      /\ calls[h].at \notin {"idle", "persist", "restart"} /\ calls[h].got = {}
      /\ Mock \/ calls[h].at \notin {"update", "save", "delete"}
      /\ stored' \in Effects(calls[h]) /\ calls' = [calls EXCEPT ![h].got = {stored'}]
  BY DEF Serve, CalmInv, SettingsShape, Mock, CallsOK
<1>2. /\ config' = config /\ models' = models /\ installJobs' = installJobs /\ following' = following
      /\ ModelIds' = ModelIds /\ unwritten' = unwritten
  BY DEF Serve, shownVars, ModelIds
<1>3. PICK s : s = stored'
  OBVIOUS
<1>4. PICK c : /\ calls' = [calls EXCEPT ![h] = c] /\ DOMAIN c = CallFields /\ c.got = {s}
               /\ c.at = calls[h].at /\ c.id = calls[h].id /\ c.after = calls[h].after
  <2> DEFINE c == [calls[h] EXCEPT !.got = {s}]
  <2>1. calls' = [calls EXCEPT ![h] = c]
    BY <1>1, <1>3 DEF CalmInv, SettingsShape
  <2>2. /\ DOMAIN c = CallFields /\ c.got = {s} /\ c.at = calls[h].at /\ c.id = calls[h].id
        /\ c.after = calls[h].after
    BY <1>1 DEF CallFields
  <2> QED
    BY <2>1, <2>2
<1>5. c.at \in {"install", "remove"} => c.id \in ModelIds
  BY <1>1, <1>4 DEF CallOK
<1>6. s \in Effects(calls[h])
  BY <1>1, <1>3
<1>7. /\ StoredOK(s) /\ s.file = stored.file
      /\ c.at # "update" => Plain(s.config, stored.config)
      /\ ~Mock => s.config = stored.config
      /\ c.at = "install" =>
           /\ \A m \in ModelIds : m # c.id =>
                /\ s.installs[m] = stored.installs[m]
                /\ ReadyIn(stored.models, m) <=> ReadyIn(s.models, m)
           /\ s.installs[c.id] = "succeeded" => ReadyIn(s.models, c.id)
      /\ c.at # "install" => s.installs = stored.installs
      /\ c.at = "remove" =>
           \A m \in ModelIds : m # c.id => (ReadyIn(stored.models, m) <=> ReadyIn(s.models, m))
      /\ c.at \notin {"install", "remove"} => s.models = stored.models
  BY <1>1, <1>4, <1>5, <1>6, ServedStored
<1>8. StoredOK(stored)' /\ StoredOK(s)'
  BY <1>2, <1>3, <1>7 DEF StoredOK, HasIds
<1>9. CallOK(c)'
  <2>1. c.at = "remove" => c.id \in ModelIds /\ c.id \notin following /\ installJobs[c.id] = "none"
    BY <1>1, <1>4 DEF CallOK
  <2>2. c.at \notin {"idle", "persist", "restart"} /\ ~(c.at = "update" /\ Keyed(c))
    BY <1>1, <1>4 DEF CallOK, Keyed
  <2>3. c.at = "install" => (s.installs[c.id] = "succeeded" => ReadyIn(s.models, c.id))
    BY <1>7
  <2> QED
    BY <1>2, <1>3, <1>4, <1>5, <1>8, <2>1, <2>2, <2>3 DEF CallOK, Plain, ReadyIn, InstallKnown, Keyed
<1>10. FileKept'
  <2> SUFFICES ASSUME ~Mock, ~unwritten PROVE Plain(Loaded(stored'.file), stored'.config)
    BY <1>1, <1>2 DEF FileKept
  <2>1. \A g \in Calls : calls[g].at # "persist"
    BY <1>1 DEF CalmInv, Alone
  <2> QED
    BY <1>3, <1>7, <2>1 DEF CalmInv, FileKept
<1>11. \A m \in following : InstallKnown(m)'
  <2> SUFFICES ASSUME NEW m \in following, s.installs[m] = "succeeded" PROVE ReadyIn(s.models, m)
    BY <1>3 DEF InstallKnown, ReadyIn
  <2>1. m \in ModelIds /\ InstallKnown(m)
    BY DEF CalmInv, Follows
  <2>2. c.at = "remove" => m # c.id
    BY <1>1, <1>4 DEF CallOK
  <2> QED
    BY <1>7, <2>1, <2>2 DEF InstallKnown
<1>12. ~Stale(c) => ~Stale(calls[h]) /\ Plain(stored'.config, stored.config)
  <2>1. c.at = "update" => Stale(c)
    BY <1>1, <1>4 DEF CallOK, Stale, Keyed
  <2> QED
    BY <1>3, <1>4, <1>7, <2>1 DEF Stale, Keyed
<1>13. \A m \in ModelIds : ReadyIn(stored.models, m) =>
         ReadyIn(stored'.models, m) \/ (c.at \in {"install", "remove"} /\ c.id = m)
  BY <1>3, <1>7
<1> QED
  BY <1>1, <1>2, <1>4, <1>8, <1>9, <1>10, <1>11, <1>12, <1>13, EffectKeeps

(* The invariant is inductive.                                                *)
LEMMA NextKeeps ==
  ASSUME CalmInv, ~mixed', ~failed', SettingsNext, UNCHANGED backend
  PROVE  CalmInv'
<1>1. ASSUME NEW h \in Calls, GoesOn(h)
      PROVE  CalmInv'
  <2>1. CASE Shown(h)
    BY <2>1, ShownKeeps
  <2>2. CASE Serve(h) \/ KeyWritten(h) \/ Merge(h) \/ Persist(h) \/ NotPersisted(h) \/ Restart(h)
    BY <2>2, ServeKeeps, KeyWrittenKeeps, MergeKeeps, PersistKeeps, RestartKeeps
  <2>3. CASE ModelRemoved(h) \/ ModelInstalls(h) \/ \E m \in ModelIds : InstallEnded(m, h)
    BY <2>3, RemovedKeeps, InstallsKeep, EventsKeep
  <2> QED
    BY <1>1, <2>1, <2>2, <2>3 DEF GoesOn, Shown
<1>2. ASSUME NEW m \in ModelIds, InstallMoves(m) \/ InstallSnapshot(m) \/ InstallProgress(m)
      PROVE  CalmInv'
  BY <1>2, InstallMovesKeeps, EventsKeep
<1>3. CASE AutoCheck \/ DraftsFollow \/ OpenPage \/ \E i \in DOMAIN asking : AutoChecked(i)
  <2>1. UNCHANGED <<config, models, stored, calls, installJobs, following, unwritten, backend>>
    BY <1>3 DEF AutoCheck, DraftsFollow, OpenPage, AutoChecked, shownVars
  <2> QED
    BY <2>1, DraftKeeps
<1>4. ASSUME NEW h \in Calls, Unreachable(h)
      PROVE  FALSE
  BY <1>4 DEF Unreachable
<1>5. ASSUME NEW h \in Calls, Acts(h)
      PROVE  CalmInv'
  BY <1>5, ActsKeep
<1> QED
  BY <1>1, <1>2, <1>3, <1>4, <1>5 DEF SettingsNext, SettingsGoOn, Acts

(* At first the defaults are shown, and the first load is on its way.         *)
LEMMA InitSettings ==
  ASSUME NEW file, NEW ps, NEW ms, \A i \in DOMAIN ms : {"id", "state"} \subseteq DOMAIN ms[i],
         AppSettingsInit(file, ps, ms)
  PROVE  CalmInv
<1>1. PICK h \in Calls : \A g \in Calls : h <= g
  BY CallsAssumption, LeastOf
<1>2. \A g \in Calls : (\A k \in Calls : g <= k) <=> g = h
  BY <1>1, CallsAssumption
<1>3. DOMAIN calls = Calls /\ \A g \in Calls : calls[g] = IF g = h THEN Load ELSE IdleCall
  BY <1>2 DEF AppSettingsInit, Load
<1>4. ModelIds = {ms[i].id : i \in DOMAIN ms}
  BY DEF AppSettingsInit, ModelIds, Ids, Range
<1>5. /\ config = Defaults /\ models = <<>> /\ following = {} /\ \A m \in ModelIds : installJobs[m] = "none"
      /\ stored.config = Loaded(file) /\ stored.file = file /\ stored.models = ms /\ stored.installs = installJobs
      /\ DOMAIN stored = StoredFields
  BY DEF AppSettingsInit, StoredFields, ModelIds
<1>6. StoredOK(stored)
  <2>1. DOMAIN stored.installs = ModelIds
    BY <1>5 DEF ModelIds
  <2>2. HasIds(stored.models) /\ \A m \in ModelIds : \E i \in DOMAIN stored.models : stored.models[i].id = m
    BY <1>4, <1>5 DEF HasIds
  <2> QED
    BY <1>5, <2>1, <2>2, FileLoaded DEF StoredOK
<1>7. SettingsShape
  <2>1. HasIds(models) /\ DOMAIN config = PlainFields \cup {"api"}
    <3>1. DOMAIN models = {}
      BY <1>5
    <3>2. DOMAIN config = PlainFields \cup {"api"}
      BY <1>5, MapFields DEF Defaults
    <3> QED
      BY <3>1, <3>2 DEF HasIds
  <2> QED
    BY <1>3, <1>6, <2>1, IdleFields, LoadFields DEF SettingsShape
<1>8. Alone /\ CallsOK /\ ConfigKept
  BY <1>3, IdleFields, LoadFields DEF Alone, CallsOK, CallOK, ConfigKept, Stale
<1>9. FileKept
  BY <1>5 DEF FileKept, Plain
<1>10. Follows
  BY <1>5 DEF Follows
<1>11. ReadyKept
  BY <1>5 DEF ReadyKept, ReadyIn, Range
<1> QED
  BY <1>7, <1>8, <1>9, <1>10, <1>11 DEF CalmInv

(* When nothing waits, and no two functions have waited at a time, and no     *)
(* request was lost: App shows the configuration that the daemon has, the next*)
(* daemon will have it too unless the file could not be written, and no card  *)
(* offers a model that is not there.  For any bounds, configuration file,     *)
(* providers and models, with the daemon and with the mock (AppShell.tsx:1164,*)
(* config_handlers.go:322, ipc.ts:46).                                        *)
THEOREM SettingsAgreeHolds ==
  ASSUME NEW file, NEW ps, NEW ms, \A i \in DOMAIN ms : {"id", "state"} \subseteq DOMAIN ms[i]
  PROVE  SettingsSpec(file, ps, ms) => []SettingsAgree
<1>1. AppSettingsInit(file, ps, ms) => SettingsInv
  BY InitSettings DEF SettingsInv
<1>2. ASSUME SettingsInv, [SettingsNext /\ UNCHANGED clientVars]_<<settingVars, clientVars>>
      PROVE  SettingsInv'
  <2>1. CASE SettingsNext /\ UNCHANGED clientVars
    <3> SUFFICES ASSUME Calm' PROVE CalmInv'
      BY DEF SettingsInv
    <3>1. CalmInv
      BY <1>2, <2>1, CalmBefore DEF SettingsInv
    <3>2. backend' = backend /\ ~mixed' /\ ~failed'
      BY <2>1 DEF clientVars, Calm
    <3> QED
      BY <2>1, <3>1, <3>2, NextKeeps
  <2>2. CASE UNCHANGED <<settingVars, clientVars>>
    <3>1. /\ UNCHANGED <<config, models, stored, calls, installJobs, following, unwritten, backend>>
          /\ Calm' = Calm
      BY <2>2 DEF settingVars, clientVars, Calm
    <3> QED
      BY <1>2, <3>1, DraftKeeps DEF SettingsInv
  <2> QED
    BY <1>2, <2>1, <2>2
<1>3. SettingsInv => SettingsAgree
  <2> SUFFICES ASSUME CalmInv, \A h \in Calls : calls[h].at = "idle"
               PROVE  /\ Agree(stored.config)
                      /\ ~Mock /\ ~unwritten => Agree(Loaded(stored.file))
                      /\ \A m \in Range(models) : CardReady(m) =>
                           \E s \in Range(stored.models) : s.id = m.id /\ s.state = "ready"
    BY DEF SettingsInv, Calm, SettingsAgree
  <2>1. DOMAIN config \ {"api"} = PlainFields
    BY Fields DEF CalmInv, SettingsShape
  <2>2. Agree(stored.config)
    BY <2>1 DEF CalmInv, ConfigKept, ShownIs, Stale, Agree
  <2>3. ~Mock /\ ~unwritten => Agree(Loaded(stored.file))
    <3> SUFFICES ASSUME ~Mock, ~unwritten PROVE Agree(Loaded(stored.file))
      OBVIOUS
    <3>1. Plain(Loaded(stored.file), stored.config)
      BY DEF CalmInv, FileKept
    <3> QED
      BY <2>1, <2>2, <3>1, MapPlain DEF Agree
  <2>4. ASSUME NEW m \in Range(models), CardReady(m)
        PROVE  ReadyIn(stored.models, m.id)
    <3>1. m.id \in ModelIds /\ ~Busy(m.id)
      BY DEF CalmInv, SettingsShape, HasIds, Range, Busy
    <3>2. installJobs[m.id] = "succeeded" \/ ReadyIn(models, m.id)
      BY <2>4 DEF CardReady, ReadyIn
    <3> QED
      BY <3>1, <3>2 DEF CalmInv, ReadyKept
  <2> QED
    BY <2>2, <2>3, <2>4 DEF ReadyIn
<1> QED
  BY <1>1, <1>2, <1>3, PTL DEF SettingsSpec

------------------------------------------------------------------------------
(* The live checks of the settings: the keys in flight are a sequence.        *)

AtMostOne(S) == \A x, y \in S : x = y

(* A set of at most one element is a sequence of it.                          *)
LEMMA OneToSeq ==
  ASSUME NEW S, AtMostOne(S)
  PROVE  SetToSeq(S) \in Seq(S) /\ IsInjective(SetToSeq(S))
<1>1. PICK n \in Nat : Cardinality(S) = n /\ \E f \in [1..n -> S] : IsInjective(f)
  <2>1. CASE S = {}
    <3>1. [i \in 1..0 |-> i] \in [1..0 -> S] /\ IsInjective([i \in 1..0 |-> i])
      BY DEF IsInjective
    <3>2. Cardinality(S) = 0 /\ 0 \in Nat
      BY <2>1, FS_EmptySet
    <3> QED
      BY <3>1, <3>2
  <2>2. CASE S # {}
    <3>1. PICK x : S = {x}
      BY <2>2 DEF AtMostOne
    <3>2. [i \in 1..1 |-> x] \in [1..1 -> S] /\ IsInjective([i \in 1..1 |-> x])
      BY <3>1 DEF IsInjective
    <3> QED
      BY <3>1, <3>2, FS_Singleton
  <2> QED
    BY <2>1, <2>2
<1>2. SetToSeq(S) \in [1..n -> S] /\ IsInjective(SetToSeq(S))
  BY <1>1 DEF SetToSeq
<1> QED
  BY <1>2, SeqDef

(* One provider is chosen, so that one check is made at a time, of a new key. *)
LEMMA OneKey ==
  ASSUME NEW cfg, NEW ps
  PROVE  AtMostOne(KeysToCheck(cfg, ps)) /\ KeysToCheck(cfg, ps) \cap (checked \cup Range(asking)) = {}
<1>1. AtMostOne(TranslationProvider(cfg, ps))
  BY DEF AtMostOne, TranslationProvider, Find
<1> QED
  BY <1>1 DEF AtMostOne, KeysToCheck

(* New requests are asked at the end of those in flight.                      *)
LEMMA Asked ==
  ASSUME asking \in Seq(Range(asking)), AutoCheckOnce, NEW new, new \in Seq(Range(new)), IsInjective(new),
         Range(new) \cap (checked \cup Range(asking)) = {},
         asking' = asking \o new, checked' = checked
  PROVE  (asking \in Seq(Range(asking)) /\ AutoCheckOnce)'
<1> DEFINE S == Range(asking) \cup Range(new)
<1>1. asking \in Seq(S) /\ new \in Seq(S)
  BY SeqMonotonic
<1>2. /\ asking' \in Seq(S) /\ Len(asking') = Len(asking) + Len(new)
      /\ \A i \in 1 .. Len(asking) + Len(new) :
           asking'[i] = IF i <= Len(asking) THEN asking[i] ELSE new[i - Len(asking)]
  BY <1>1, ConcatProperties
<1>3. /\ Len(asking) \in Nat /\ Len(new) \in Nat
      /\ DOMAIN asking = 1..Len(asking) /\ DOMAIN new = 1..Len(new) /\ DOMAIN asking' = 1..Len(asking')
  BY <1>1, <1>2, LenProperties
<1>4. asking' \in Seq(Range(asking'))
  BY <1>2, SeqOfRange
<1>5. Range(asking') \cap checked = {}
  BY <1>2, <1>3 DEF AutoCheckOnce, Range
<1>6. ASSUME NEW a \in DOMAIN asking', NEW b \in DOMAIN asking', asking'[a] = asking'[b]
      PROVE  a = b
  <2>1. CASE a <= Len(asking) /\ b <= Len(asking)
    BY <1>2, <1>3, <1>6, <2>1 DEF AutoCheckOnce, IsInjective
  <2>2. CASE a > Len(asking) /\ b > Len(asking)
    BY <1>2, <1>3, <1>6, <2>2 DEF IsInjective
  <2>3. CASE ~(a <= Len(asking) <=> b <= Len(asking))
    <3>1. ASSUME NEW c \in DOMAIN asking', NEW d \in DOMAIN asking', c <= Len(asking), d > Len(asking)
          PROVE  asking'[c] \in Range(asking) /\ asking'[d] \in Range(new)
      <4>1. asking'[c] = asking[c] /\ c \in DOMAIN asking
        BY <1>2, <1>3, <3>1
      <4>2. asking'[d] = new[d - Len(asking)] /\ d - Len(asking) \in DOMAIN new
        BY <1>2, <1>3, <3>1
      <4> QED
        BY <4>1, <4>2 DEF Range
    <3> QED
      BY <1>2, <1>3, <1>6, <2>3, <3>1
  <2> QED
    BY <1>2, <1>3, <2>1, <2>2, <2>3
<1> QED
  BY <1>4, <1>5, <1>6 DEF AutoCheckOnce, IsInjective

(* A check that ended is in flight no more.                                   *)
LEMMA Ended ==
  ASSUME asking \in Seq(Range(asking)), AutoCheckOnce, NEW i \in DOMAIN asking, AutoChecked(i)
  PROVE  (asking \in Seq(Range(asking)) /\ AutoCheckOnce)'
<1> DEFINE S == Range(asking)
           a == SubSeq(asking, 1, i - 1)
           b == SubSeq(asking, i + 1, Len(asking))
<1>1. /\ Len(asking) \in Nat /\ DOMAIN asking = 1..Len(asking) /\ \A j \in 1..Len(asking) : asking[j] \in S
  BY LenProperties, ElementOfSeq
<1>2. /\ a \in Seq(S) /\ Len(a) = i - 1 /\ \A j \in 1..(i - 1) : a[j] = asking[j]
  <2>1. i \in Int /\ 1 \in Int /\ i - 1 \in Int /\ i >= 1 /\ i <= Len(asking)
    BY <1>1
  <2>2. \A j \in 1..(i - 1) : asking[j] \in S
    BY <1>1, <2>1
  <2> QED
    BY <2>1, <2>2, SubSeqProperties
<1>3. /\ b \in Seq(S) /\ Len(b) = Len(asking) - i /\ \A j \in 1..(Len(asking) - i) : b[j] = asking[i + j]
  <2>1. i \in Int /\ i + 1 \in Int /\ Len(asking) \in Int /\ i >= 1 /\ i <= Len(asking)
    BY <1>1
  <2>2. \A j \in (i + 1)..Len(asking) : asking[j] \in S
    BY <1>1, <2>1
  <2> QED
    BY <2>1, <2>2, SubSeqProperties
<1>4. asking' = a \o b /\ checked' = checked \cup {asking[i]}
  BY DEF AutoChecked, RemoveAt
<1> HIDE DEF a, b
<1>5. /\ asking' \in Seq(S) /\ Len(asking') = Len(asking) - 1
      /\ \A j \in 1 .. Len(asking) - 1 : asking'[j] = asking[IF j < i THEN j ELSE j + 1]
  <2>1. /\ asking' \in Seq(S) /\ Len(asking') = Len(a) + Len(b)
        /\ \A j \in 1 .. Len(a) + Len(b) : asking'[j] = IF j <= Len(a) THEN a[j] ELSE b[j - Len(a)]
    BY <1>2, <1>3, <1>4, ConcatProperties
  <2>2. i \in Nat /\ i >= 1 /\ i <= Len(asking)
    BY <1>1
  <2>3. ASSUME NEW j \in 1 .. Len(asking) - 1
        PROVE  asking'[j] = asking[IF j < i THEN j ELSE j + 1]
    <3>1. CASE j < i
      BY <1>1, <1>2, <1>3, <2>1, <2>2, <3>1
    <3>2. CASE j >= i
      <4>1. asking'[j] = b[j - (i - 1)] /\ j - (i - 1) \in 1..(Len(asking) - i)
        BY <1>1, <1>2, <1>3, <2>1, <2>2, <3>2
      <4>2. i + (j - (i - 1)) = j + 1
        BY <2>2
      <4> QED
        BY <1>3, <2>2, <3>2, <4>1, <4>2
    <3> QED
      BY <2>2, <3>1, <3>2
  <2> QED
    BY <1>1, <1>2, <1>3, <2>1, <2>2, <2>3
<1>6. DOMAIN asking' = 1..(Len(asking) - 1)
  BY <1>5, LenProperties
<1>7. asking' \in Seq(Range(asking'))
  BY <1>5, SeqOfRange
<1>8. \A j \in DOMAIN asking' : asking'[j] \in Range(asking) /\ asking'[j] # asking[i]
  <2> SUFFICES ASSUME NEW j \in DOMAIN asking' PROVE asking'[j] \in Range(asking) /\ asking'[j] # asking[i]
    OBVIOUS
  <2>1. PICK k \in DOMAIN asking : k # i /\ asking'[j] = asking[k]
    <3>1. CASE j < i
      BY <1>1, <1>5, <1>6, <3>1
    <3>2. CASE j >= i
      <4>1. asking'[j] = asking[j + 1] /\ j + 1 \in DOMAIN asking /\ j + 1 # i
        BY <1>1, <1>5, <1>6, <3>2
      <4> QED
        BY <4>1
    <3> QED
      BY <1>1, <1>6, <3>1, <3>2
  <2> QED
    BY <2>1 DEF AutoCheckOnce, IsInjective, Range
<1>9. Range(asking') \cap checked' = {}
  BY <1>4, <1>8 DEF AutoCheckOnce, Range
<1>10. ASSUME NEW j \in DOMAIN asking', NEW k \in DOMAIN asking', asking'[j] = asking'[k]
       PROVE  j = k
  <2> DEFINE At(n) == IF n < i THEN n ELSE n + 1
  <2>1. At(j) \in DOMAIN asking /\ At(k) \in DOMAIN asking /\ asking[At(j)] = asking[At(k)]
    BY <1>1, <1>5, <1>6, <1>10
  <2>2. At(j) = At(k)
    BY <2>1 DEF AutoCheckOnce, IsInjective
  <2> QED
    BY <1>1, <1>6, <2>2
<1> QED
  BY <1>7, <1>9, <1>10 DEF AutoCheckOnce, IsInjective

(* Nothing else asks or ends a check.                                         *)
LEMMA ElseAsked ==
  ASSUME SettingsNext
  PROVE  \/ UNCHANGED <<asking, checked>>
         \/ AutoCheck \/ (\E i \in DOMAIN asking : AutoChecked(i)) \/ \E h \in Calls : ProvidersListed(h)
<1> DEFINE Same == UNCHANGED <<asking, checked>>
<1> USE DEF Quiet, Apart, Unheard
<1>1. ASSUME NEW h \in Calls, NEW patch, NEW after, NEW id, UpdateConfig(h, patch, after, id)
      PROVE  Same
  BY <1>1 DEF UpdateConfig
<1>2. ASSUME NEW h \in Calls, NEW at, NEW id, Request(h, at, id)
      PROVE  Same
  BY <1>2 DEF Request
<1>3. ASSUME NEW h \in Calls, ActsOnConfig(h) \/ ActsOnKeys(h)
      PROVE  Same
  <2>1. CASE ActsOnConfig(h)
    BY <1>1, <2>1 DEF ActsOnConfig, ChangeRow, SelectModel, SelectProvider
  <2>2. CASE ActsOnKeys(h)
    BY <1>1, <1>2, <2>2
       DEF ActsOnKeys, SaveSecret, DeleteSecret, CheckProvider, InstallDependency, RefreshProviders
  <2> QED
    BY <1>3, <2>1, <2>2
<1>4. ASSUME NEW h \in Calls, ActsOnCards(h)
      PROVE  Same
  BY <1>1, <1>4 DEF ActsOnCards, SelectAsDefault, ChangeDraft
<1>5. ASSUME NEW h \in Calls, ActsOnModels(h)
      PROVE  Same
  <2>1. ASSUME NEW m, RemoveModel(h, m)
        PROVE  Same
    BY <2>1 DEF RemoveModel
  <2> QED
    BY <1>2, <1>5, <2>1 DEF ActsOnModels, CleanUp, InstallModel
<1>6. ASSUME NEW h \in Calls, GoesOn(h), ~ProvidersListed(h)
      PROVE  Same
  <2>1. ASSUME NEW m, InstallEnded(m, h)
        PROVE  Same
    BY <2>1 DEF InstallEnded
  <2> QED
    BY <1>6, <2>1 DEF GoesOn, Serve, KeyWritten, KeyRefused, Merge, Persist, NotPersisted, Restart, BaseLoaded,
       ConfigUpdated, UpdateRefused, ConfigReread, SecretStored, SecretProvidersListed, ProviderTested,
       ProvidersRefreshed, DependencyInstalled, ModelRemoved, CleanedUp, ModelInstalls
<1>7. ASSUME NEW m \in ModelIds, InstallMoves(m) \/ InstallSnapshot(m) \/ InstallProgress(m)
      PROVE  Same
  BY <1>7 DEF InstallMoves, InstallSnapshot, InstallProgress
<1>8. ASSUME NEW h \in Calls, Unreachable(h)
      PROVE  Same
  BY <1>8 DEF Unreachable
<1>9. CASE DraftsFollow \/ OpenPage
  BY <1>9 DEF DraftsFollow, OpenPage
<1> QED
  BY <1>3, <1>4, <1>5, <1>6, <1>7, <1>8, <1>9 DEF SettingsNext, SettingsGoOn

(* The live check that App makes by itself is made once for the settings of an*)
(* API, in every interleaving: no key is asked for twice, in flight or once   *)
(* it was answered (AppShell.tsx:140).  For any file, providers and models.   *)
THEOREM AutoCheckOnceHolds ==
  ASSUME NEW file, NEW ps, NEW ms
  PROVE  SettingsSpec(file, ps, ms) => []AutoCheckOnce
<1> DEFINE CheckInv == asking \in Seq(Range(asking)) /\ AutoCheckOnce
<1>1. AppSettingsInit(file, ps, ms) => CheckInv
  <2> SUFFICES ASSUME asking = <<>>, checked = {} PROVE CheckInv
    BY DEF AppSettingsInit
  <2>1. DOMAIN asking = {} /\ <<>> \in Seq(Range(asking))
    BY EmptySeq
  <2> QED
    BY <2>1 DEF AutoCheckOnce, IsInjective, Range
<1>2. ASSUME CheckInv, [SettingsNext /\ UNCHANGED clientVars]_<<settingVars, clientVars>>
      PROVE  CheckInv'
  <2> HIDE DEF CheckInv
  <2>1. CASE UNCHANGED <<asking, checked>>
    BY <1>2, <2>1 DEF CheckInv, AutoCheckOnce, IsInjective, Range
  <2>2. ASSUME NEW h, ProvidersListed(h)
        PROVE  CheckInv'
    <3> DEFINE S == KeysToCheck(calls[h].arg, Got(h).providers)
               new == SetToSeq(S)
    <3>1. AtMostOne(S) /\ S \cap (checked \cup Range(asking)) = {}
      BY OneKey
    <3> HIDE DEF S
    <3>2. new \in Seq(S) /\ IsInjective(new)
      BY <3>1, OneToSeq
    <3> HIDE DEF new
    <3>3. new \in Seq(Range(new)) /\ Range(new) \subseteq S
      BY <3>2, SeqOfRange, RangeOfSeq
    <3>4. asking' = asking \o new /\ checked' = checked
      BY <2>2 DEF ProvidersListed, S, new
    <3> QED
      BY <1>2, <3>1, <3>2, <3>3, <3>4, Asked DEF CheckInv
  <2>3. CASE AutoCheck
    <3>1. PICK key \in KeysToCheck(config, providers) : asking' = Append(asking, key)
      BY <2>3 DEF AutoCheck
    <3>2. key \notin checked \cup Range(asking)
      BY <3>1, OneKey
    <3>3. /\ <<key>> \in Seq(Range(<<key>>)) /\ IsInjective(<<key>>) /\ Range(<<key>>) = {key}
      BY DEF IsInjective, Range
    <3>4. asking' = asking \o <<key>>
      <4>1. asking \in Seq(Range(asking) \cup {key})
        BY <1>2, SeqMonotonic DEF CheckInv
      <4> QED
        BY <3>1, <4>1, AppendIsConcat
    <3>5. checked' = checked
      BY <2>3 DEF AutoCheck
    <3> QED
      BY <1>2, <3>2, <3>3, <3>4, <3>5, Asked DEF CheckInv
  <2>4. ASSUME NEW i \in DOMAIN asking, AutoChecked(i)
        PROVE  CheckInv'
    BY <1>2, <2>4, Ended DEF CheckInv
  <2>5. CASE UNCHANGED <<settingVars, clientVars>>
    BY <2>1, <2>5 DEF settingVars
  <2>6. CASE SettingsNext
    BY <2>1, <2>2, <2>3, <2>4, <2>6, ElseAsked
  <2> QED
    BY <1>2, <2>5, <2>6
<1>3. CheckInv => AutoCheckOnce
  OBVIOUS
<1> QED
  BY <1>1, <1>2, <1>3, PTL DEF SettingsSpec

------------------------------------------------------------------------------
(* The path of an output.  The parts of a name; the provers have to be told   *)
(* that these four words are strings.                                         *)
Parts == STRING \cup {"bad", "translated", "burned", "mine"}

(* A name whose damage, if it looks damaged, is where a report would do it.   *)
NameOK(s) == s \in Seq(Parts) /\ s # <<>> /\ \A i \in 1..Len(s) : s[i] = "bad" => i = 1

(* What is asked of a request and of the settings: the input has a name and a *)
(* directory, the format of the subtitles is one and not that of a video, and *)
(* the settings have a directory for what has none.                           *)
IsPath(p) == p = [dir |-> p.dir, stem |-> p.stem, ext |-> p.ext]
SourceOK(p) == IsPath(p) /\ NameOK(p.stem) /\ p.dir # ""
OrderOK(r) ==
  /\ r.type \in DOMAIN Suffix /\ SourceOK(r.input) /\ r.format \notin {"", "mp4"}
PlaceOK(q) == q.selected # ""

(* A card, and what the renderer makes of it.                                 *)
Job(t, i, d, p) == [type |-> t, input |-> i, dir |-> d, result |-> p]
IsJob(c) == c = Job(c.type, c.input, c.dir, c.result)
Repaired(c, i, d, p) == [c EXCEPT !.input = i, !.dir = d, !.result = p]

(* The path that the user chose; and the damage that is repaired.             *)
Mine == [dir |-> "elsewhere", stem |-> <<"mine">>, ext |-> "srt"]
Sound == "dir" \notin hurt /\ ~({"name", "input"} \subseteq hurt)

(* A request has these fields.                                                *)
IsRequest(r) ==
  r = [type |-> r.type, input |-> r.input, subtitle |-> r.subtitle, save |-> r.save,
       dir |-> r.dir, format |-> r.format]

(* A daemon that has answered was asked for the path of the request; a burn-in*)
(* was made from the path of the transcription before it.                     *)
RequestOK ==
  /\ IsRequest(order) /\ OrderOK(order) /\ PlaceOK(place) /\ order.dir # "" /\ order.save \in {NoPath, Mine}
  /\ spoken = NoPath => order.dir = EffectiveOutputDirectory(order.input)
  /\ spoken # NoPath => order.type = "burn_in"
  /\ phase = "conflict" => order.type = "transcribe" /\ order.save = NoPath
  /\ phase # "asked" => asked = OutputPathFor(order)
  /\ (phase = "asked" /\ spoken # NoPath /\ hurt = {} /\ ~Bad(order.input)) =>
       order.subtitle = spoken /\ (order.dir = spoken.dir \/ spoken.stem = <<"mine">>)

(* The card has the input of the request while it is new, and the path that   *)
(* was asked for as far as it is repaired; after an event, that path as it    *)
(* came; and after a reload, a damaged one only if its input came back damaged*)
(* too.                                                                       *)
CardOK ==
  /\ IsJob(card)
  /\ phase \in {"made", "ended", "done"} => card.type = order.type
  /\ phase \in {"made", "ended"} =>
       /\ card.input = order.input /\ card.dir # ""
       /\ ~Bad(order.input) /\ order.save = NoPath => card.dir = order.dir
  /\ phase = "made" /\ order.save = NoPath /\ "dir" \notin hurt => card.result = asked
  /\ phase = "ended" => card.result = Through(asked, hurt) /\ hurt \subseteq {"name", "dir"}
  /\ phase = "done" /\ order.save = NoPath /\ Sound =>
       card.result = asked /\ (Bad(asked) => Bad(card.input))
  /\ phase = "conflict" => opened = asked \/ "dir" \in hurt
  /\ phase = "shown" /\ order.save = NoPath /\ asked.ext \in SubtitleExtensions \cup {"mp4"} /\ Sound =>
       opened = asked

PathsInv == RequestOK /\ CardOK

(* A list of one.                                                             *)
LEMMA OnePart ==
  ASSUME NEW S, NEW w \in S
  PROVE  <<w>> \in Seq(S) /\ Len(<<w>>) = 1 /\ <<w>>[1] = w
OBVIOUS

(* The damage to a name shows, and damages no name that shows it already.     *)
LEMMA DamagedName ==
  ASSUME NEW s, NameOK(s)
  PROVE  /\ "bad" \in Range(<<"bad">> \o Tail(s))
         /\ "bad" \in Range(s) => <<"bad">> \o Tail(s) = s
<1> DEFINE t == <<"bad">> \o Tail(s)
<1>1. /\ Len(s) \in Nat /\ Len(s) >= 1 /\ DOMAIN s = 1..Len(s)
      /\ Tail(s) \in Seq(Parts) /\ Len(Tail(s)) = Len(s) - 1 /\ \A i \in 1..(Len(s) - 1) : Tail(s)[i] = s[i + 1]
  BY EmptySeq, LenProperties, HeadTailProperties DEF NameOK
<1>2. <<"bad">> \in Seq(Parts) /\ Len(<<"bad">>) = 1 /\ <<"bad">>[1] = "bad"
  BY OnePart DEF Parts
<1>3. /\ t \in Seq(Parts) /\ Len(t) = Len(s)
      /\ \A i \in 1..Len(s) : t[i] = IF i = 1 THEN "bad" ELSE s[i]
  <2>1. /\ t \in Seq(Parts) /\ Len(t) = 1 + (Len(s) - 1)
        /\ \A i \in 1..(1 + (Len(s) - 1)) : t[i] = IF i <= 1 THEN <<"bad">>[i] ELSE Tail(s)[i - 1]
    BY <1>1, <1>2, ConcatProperties
  <2>2. ASSUME NEW i \in 1..Len(s)
        PROVE  t[i] = IF i = 1 THEN "bad" ELSE s[i]
    <3>1. CASE i = 1
      BY <1>1, <1>2, <2>1, <3>1
    <3>2. CASE i # 1
      <4>1. i - 1 \in 1..(Len(s) - 1) /\ (i - 1) + 1 = i
        BY <1>1, <3>2
      <4>2. t[i] = Tail(s)[i - 1]
        BY <1>1, <2>1, <3>2
      <4> QED
        BY <1>1, <3>2, <4>1, <4>2
    <3> QED
      BY <3>1, <3>2
  <2> QED
    BY <1>1, <2>1, <2>2
<1> HIDE DEF t
<1>4. DOMAIN t = 1..Len(s)
  BY <1>3, LenProperties
<1>5. "bad" \in Range(t)
  BY <1>1, <1>3, <1>4 DEF Range
<1>6. ASSUME "bad" \in Range(s)
      PROVE  t = s
  <2>1. s[1] = "bad"
    BY <1>1, <1>6 DEF Range, NameOK
  <2> QED
    BY <1>1, <1>3, <2>1, SeqEqual DEF NameOK
<1> QED
  BY <1>5, <1>6 DEF t

(* The suffix of an output neither adds nor hides a damaged part.             *)
LEMMA OutputName ==
  ASSUME NEW s, NameOK(s), NEW type \in DOMAIN Suffix
  PROVE  NameOK(s \o Suffix[type]) /\ ("bad" \in Range(s \o Suffix[type]) <=> "bad" \in Range(s))
<1> DEFINE u == Suffix[type]
           t == s \o u
<1>1. u \in {<<>>, <<"translated">>, <<"burned">>}
  BY DEF Suffix
<1>2. u \in Seq(Parts) /\ Len(u) \in {0, 1} /\ (Len(u) = 1 => u[1] # "bad")
  <2>1. <<>> \in Seq(Parts) /\ Len(<<>>) = 0
    BY EmptySeq
  <2>3. CASE u = <<>>
    BY <2>1, <2>3
  <2>4. CASE u = <<"translated">>
    BY OnePart, <2>4 DEF Parts
  <2>5. CASE u = <<"burned">>
    BY OnePart, <2>5 DEF Parts
  <2> QED
    BY <1>1, <2>3, <2>4, <2>5
<1>3. Len(s) \in Nat /\ Len(s) >= 1 /\ DOMAIN s = 1..Len(s)
  BY EmptySeq, LenProperties DEF NameOK
<1> HIDE DEF u
<1>4. /\ t \in Seq(Parts) /\ Len(t) = Len(s) + Len(u)
      /\ \A i \in 1..(Len(s) + Len(u)) : t[i] = IF i <= Len(s) THEN s[i] ELSE u[i - Len(s)]
  BY <1>2, ConcatProperties DEF NameOK
<1> HIDE DEF t
<1>5. DOMAIN t = 1..Len(t)
  BY <1>4, LenProperties
<1>6. \A i \in 1..Len(s) : i \in DOMAIN t /\ t[i] = s[i]
  BY <1>2, <1>3, <1>4, <1>5
<1>7. ASSUME NEW i \in DOMAIN t, t[i] = "bad"
      PROVE  i \in 1..Len(s)
  <2>1. CASE i > Len(s)
    <3>1. Len(u) = 1 /\ i - Len(s) = 1 /\ t[i] = u[i - Len(s)]
      BY <1>2, <1>3, <1>4, <1>5, <2>1
    <3> QED
      BY <1>2, <1>7, <3>1
  <2> QED
    BY <1>3, <1>4, <1>5, <2>1
<1>8. t # <<>>
  BY <1>2, <1>3, <1>4, EmptySeq
<1>9. NameOK(t)
  BY <1>4, <1>5, <1>6, <1>7, <1>8 DEF NameOK
<1>10. "bad" \in Range(t) <=> "bad" \in Range(s)
  BY <1>3, <1>6, <1>7 DEF Range
<1> QED
  BY <1>9, <1>10 DEF t, u
(* The fields of a path that was put together from them.                      *)
LEMMA MadePath ==
  ASSUME NEW d, NEW s, NEW e, NEW p, p = [dir |-> d, stem |-> s, ext |-> e]
  PROVE  IsPath(p) /\ p.dir = d /\ p.stem = s /\ p.ext = e
<1>1. p.dir = d /\ p.stem = s /\ p.ext = e
  OBVIOUS
<1> QED
  BY <1>1 DEF IsPath

(* What a report does to a path: a damaged name shows, one that looks damaged *)
(* comes back as it was, and without damage the path does.                    *)
LEMMA ThroughPath ==
  ASSUME NEW p, IsPath(p), NameOK(p.stem), NEW how
  PROVE  /\ IsPath(Through(p, how)) /\ Through(p, how).ext = p.ext
         /\ Through(p, how).dir = IF "dir" \in how THEN "bad" ELSE p.dir
         /\ "name" \in how => Bad(Through(p, how))
         /\ "name" \notin how \/ Bad(p) => Through(p, how).stem = p.stem
         /\ Bad(p) => Bad(Through(p, how))
         /\ "dir" \notin how /\ ("name" \notin how \/ Bad(p)) => Through(p, how) = p
<1> DEFINE t == Through(p, how)
           name == IF "name" \in how THEN <<"bad">> \o Tail(p.stem) ELSE p.stem
           where == IF "dir" \in how THEN "bad" ELSE p.dir
<1>1. t = [dir |-> where, stem |-> name, ext |-> p.ext]
  <2>1. ASSUME NEW d, NEW s, NEW e, NEW n, NEW w, p = [dir |-> d, stem |-> s, ext |-> e]
        PROVE  [p EXCEPT !.stem = n, !.dir = w] = [dir |-> w, stem |-> n, ext |-> e]
    <3>1. [p EXCEPT !.stem = n] = [dir |-> d, stem |-> n, ext |-> e]
      BY <2>1
    <3>2. ASSUME NEW q, q = [dir |-> d, stem |-> n, ext |-> e]
          PROVE  [q EXCEPT !.dir = w] = [dir |-> w, stem |-> n, ext |-> e]
      BY <3>2
    <3>3. [p EXCEPT !.stem = n, !.dir = w] = [[p EXCEPT !.stem = n] EXCEPT !.dir = w]
      BY <2>1
    <3> QED
      BY <3>1, <3>2, <3>3
  <2>2. t = [p EXCEPT !.stem = name, !.dir = where]
    BY DEF Through
  <2> QED
    BY <2>1, <2>2 DEF IsPath
<1>2. IsPath(t) /\ t.dir = where /\ t.stem = name /\ t.ext = p.ext
  BY <1>1, MadePath
<1>3. "name" \in how => Bad(t)
  BY <1>2, DamagedName DEF Bad
<1>4. "name" \notin how \/ Bad(p) => t.stem = p.stem
  BY <1>2, DamagedName DEF Bad
<1>5. Bad(p) => Bad(t)
  BY <1>4 DEF Bad
<1>6. "dir" \notin how /\ ("name" \notin how \/ Bad(p)) => t = p
  BY <1>1, <1>2, <1>4 DEF IsPath
<1> QED
  BY <1>2, <1>3, <1>4, <1>5, <1>6

(* A request that createJob can make.                                         *)
Asks(r) == OrderOK(r) /\ r.dir # "" /\ r.save \in {NoPath, Mine}

(* The path of a request: two functions agree on it, it is in the directory of*)
(* the request, and it looks damaged only if its input does.                  *)
LEMMA AskedPath ==
  ASSUME NEW r, Asks(r)
  PROVE  LET a == OutputPathFor(r)
         IN /\ IsPath(a) /\ NameOK(a.stem) /\ a.dir # "" /\ a.ext # "" /\ a # NoPath
            /\ r.save = NoPath =>
                 /\ a = Named(r.dir, r.input.stem, r.type, a.ext) /\ a.dir = r.dir
                 /\ OutputPathFromRequest(r) = a
                 /\ Bad(a) <=> Bad(r.input)
                 /\ a.ext = "mp4" <=> r.type = "burn_in"
            /\ r.save = Mine => a = Mine
<1> DEFINE a == OutputPathFor(r)
<1>1. OutputExtension(r) # "" /\ (OutputExtension(r) = "mp4" <=> r.type = "burn_in")
  BY DEF OutputExtension, Asks, OrderOK
<1>2. Mine # NoPath
  BY DEF Mine, NoPath
<1>3. CASE r.save = Mine
  <2>1. a = Mine
    BY <1>2, <1>3 DEF OutputPathFor
  <2>2. NameOK(<<"mine">>)
    BY OnePart DEF NameOK, Parts
  <2>3. IsPath(Mine) /\ Mine.stem = <<"mine">> /\ Mine.dir # "" /\ Mine.ext # ""
    BY DEF IsPath, Mine
  <2> QED
    BY <1>2, <1>3, <2>1, <2>2, <2>3
<1>4. CASE r.save = NoPath
  <2>1. a = [dir |-> r.dir, stem |-> r.input.stem \o Suffix[r.type], ext |-> OutputExtension(r)]
    BY <1>4 DEF OutputPathFor, Named
  <2> HIDE DEF a
  <2>2. /\ IsPath(a) /\ a.dir = r.dir /\ a.ext = OutputExtension(r)
        /\ a.stem = r.input.stem \o Suffix[r.type]
    <3>1. /\ a.dir = r.dir /\ a.ext = OutputExtension(r)
          /\ a.stem = r.input.stem \o Suffix[r.type]
      BY <2>1
    <3> QED
      BY <2>1, <3>1 DEF IsPath
  <2>3. NameOK(a.stem) /\ (Bad(a) <=> Bad(r.input))
    BY <2>2, OutputName DEF Asks, OrderOK, SourceOK, Bad
  <2>4. OutputPathFromRequest(r) = a
    BY <1>4 DEF a, OutputPathFor, OutputPathFromRequest, Asks
  <2>5. a = Named(r.dir, r.input.stem, r.type, a.ext)
    BY <2>1, <2>2 DEF Named
  <2>6. a # NoPath /\ a.dir # "" /\ a.ext # ""
    <3>1. NoPath.ext = ""
      BY DEF NoPath
    <3> QED
      BY <1>1, <2>2, <3>1 DEF Asks
  <2> QED
    BY <1>1, <1>2, <1>4, <2>2, <2>3, <2>4, <2>5, <2>6 DEF a
<1> QED
  BY <1>3, <1>4 DEF Asks

(* The fields of a card that was put together from them.                      *)
LEMMA MadeJob ==
  ASSUME NEW t, NEW i, NEW d, NEW p, NEW e, e = Job(t, i, d, p)
  PROVE  IsJob(e) /\ e.type = t /\ e.input = i /\ e.dir = d /\ e.result = p
<1>1. e.type = t /\ e.input = i /\ e.dir = d /\ e.result = p
  BY DEF Job
<1> QED
  BY <1>1 DEF IsJob, Job

(* The event of the end changes the result alone.                             *)
LEMMA EndedJob ==
  ASSUME NEW e, IsJob(e), NEW q
  PROVE  [e EXCEPT !.result = q] = Job(e.type, e.input, e.dir, q)
<1> SUFFICES ASSUME NEW t, NEW i, NEW d, NEW p, e = Job(t, i, d, p), t = e.type, i = e.input, d = e.dir
             PROVE  [e EXCEPT !.result = q] = Job(t, i, d, q)
  BY DEF IsJob
<1> QED
  BY DEF Job

(* The repair of a card changes its input, directory and result alone.        *)
LEMMA RepairedJob ==
  ASSUME NEW e, IsJob(e), NEW i2, NEW d2, NEW p2
  PROVE  Repaired(e, i2, d2, p2) = Job(e.type, i2, d2, p2)
<1> SUFFICES ASSUME NEW t, NEW i, NEW d, NEW p, e = Job(t, i, d, p), t = e.type
             PROVE  Repaired(e, i2, d2, p2) = Job(t, i2, d2, p2)
  BY DEF IsJob
<1>1. ASSUME NEW f, f = Job(t, i2, d, p)
      PROVE  [f EXCEPT !.dir = d2] = Job(t, i2, d2, p)
  BY <1>1 DEF Job
<1>2. ASSUME NEW g, g = Job(t, i2, d2, p)
      PROVE  [g EXCEPT !.result = p2] = Job(t, i2, d2, p2)
  BY <1>2 DEF Job
<1>3. [e EXCEPT !.input = i2] = Job(t, i2, d, p)
  BY DEF Job
<1>4. Repaired(e, i2, d2, p2) = [[[e EXCEPT !.input = i2] EXCEPT !.dir = d2] EXCEPT !.result = p2]
  BY DEF Repaired
<1>5. [[[e EXCEPT !.input = i2] EXCEPT !.dir = d2] EXCEPT !.result = p2] = Job(t, i2, d2, p2)
  BY <1>1, <1>2, <1>3
<1> QED
  BY <1>4, <1>5, Zenon

(* The main process repairs the result from the input of the same report: what*)
(* it leaves damaged is a path whose input came back damaged as well.         *)
LEMMA MappedJob ==
  ASSUME Asks(order), NEW how, NEW result \in BOOLEAN
  PROVE  LET a == OutputPathFor(order)
             m == MapJob(Reported(a, result, how), order.type)
         IN /\ IsJob(m)
            /\ m.type = order.type /\ m.dir = IF "dir" \in how THEN "bad" ELSE a.dir
            /\ m.input = order.input \/ Bad(m.input)
            /\ Bad(order.input) => m.input = order.input
            /\ (order.save = NoPath /\ "dir" \notin how) =>
                 m.result = a \/ (Bad(m.result) /\ ~Bad(order.input) /\ {"name", "input"} \subseteq how)
<1> DEFINE a == OutputPathFor(order)
           hurtInput == IF "input" \in how THEN {"name"} ELSE {}
           i == Through(order.input, hurtInput)
           t == Through(a, how)
           repaired == RepairCorruptOutputPath(t, i, order.type)
           m == MapJob(Reported(a, result, how), order.type)
<1>1. /\ IsPath(a) /\ NameOK(a.stem) /\ a.dir # "" /\ a.ext # ""
      /\ order.save = NoPath =>
           a = Named(order.dir, order.input.stem, order.type, a.ext) /\ a.dir = order.dir
             /\ (Bad(a) <=> Bad(order.input))
  BY AskedPath
<1>2. IsPath(order.input) /\ NameOK(order.input.stem)
  BY DEF Asks, OrderOK, SourceOK
<1> HIDE DEF a
<1>3. /\ t.ext = a.ext /\ t.dir = IF "dir" \in how THEN "bad" ELSE a.dir
      /\ "name" \in how => Bad(t)
      /\ Bad(a) => Bad(t)
      /\ "dir" \notin how /\ ("name" \notin how \/ Bad(a)) => t = a
  BY <1>1, ThroughPath
<1>4. /\ "input" \in how => Bad(i)
      /\ "input" \notin how \/ Bad(order.input) => i = order.input
  BY <1>2, ThroughPath
<1> HIDE DEF i, t
<1>5. t # NoPath
  <2>1. NoPath.ext = ""
    BY DEF NoPath
  <2> QED
    BY <1>1, <1>3, <2>1
<1>6. m = Job(order.type, i, t.dir, repaired)
  <2>1. Reported(a, result, how) = [input |-> i, output |-> t, result |-> IF result THEN t ELSE NoPath]
    BY DEF Reported, i, t
  <2>2. /\ Reported(a, result, how).input = i /\ Reported(a, result, how).output = t
        /\ Reported(a, result, how).result = IF result THEN t ELSE NoPath
    BY <2>1
  <2>3. (IF Reported(a, result, how).result # NoPath
         THEN Reported(a, result, how).result ELSE Reported(a, result, how).output) = t
    BY <1>5, <2>2
  <2> QED
    BY <2>2, <2>3 DEF MapJob, Job
<1>7. ASSUME order.save = NoPath, "dir" \notin how
      PROVE  repaired = a \/ (Bad(repaired) /\ ~Bad(order.input) /\ {"name", "input"} \subseteq how)
  <2>1. CASE ~Bad(t)
    BY <1>3, <1>5, <1>7, <2>1 DEF RepairCorruptOutputPath
  <2>2. CASE Bad(t) /\ Bad(i)
    <3>1. repaired = t
      BY <2>2 DEF RepairCorruptOutputPath
    <3>2. CASE "name" \notin how \/ Bad(order.input)
      BY <1>1, <1>3, <1>7, <3>1, <3>2
    <3>3. CASE "name" \in how /\ ~Bad(order.input)
      BY <1>4, <2>2, <3>1, <3>3
    <3> QED
      BY <3>2, <3>3
  <2>3. CASE Bad(t) /\ ~Bad(i)
    <3>1. i = order.input
      BY <1>4, <2>3
    <3>2. repaired = Rebuilt(t.dir, order.input, order.type, t)
      BY <1>1, <1>3, <1>5, <1>7, <2>3, <3>1 DEF RepairCorruptOutputPath
    <3>3. Rebuilt(t.dir, order.input, order.type, t) = Named(order.dir, order.input.stem, order.type, a.ext)
      BY <1>1, <1>3, <1>7 DEF Rebuilt
    <3> QED
      BY <1>1, <1>7, <3>2, <3>3
  <2> QED
    BY <2>1, <2>2, <2>3
<1> HIDE DEF repaired, m
<1>8. IsJob(m) /\ m.type = order.type /\ m.input = i /\ m.dir = t.dir /\ m.result = repaired
  BY <1>6, MadeJob
<1> QED
  BY <1>3, <1>4, <1>7, <1>8 DEF m, a

(* The renderer, which has the request, repairs that too.                     *)
LEMMA CreatedJob ==
  ASSUME Asks(order), NEW how, NEW result \in BOOLEAN
  PROVE  LET a == OutputPathFor(order)
             c == RepairJobPathFromRequest(MapJob(Reported(a, result, how), order.type), order)
         IN /\ IsJob(c) /\ c.type = order.type /\ c.input = order.input /\ c.dir # ""
            /\ ~Bad(order.input) /\ order.save = NoPath => c.dir = order.dir
            /\ order.save = NoPath /\ "dir" \notin how => c.result = a
<1> DEFINE a == OutputPathFor(order)
           m == MapJob(Reported(a, result, how), order.type)
           c == RepairJobPathFromRequest(m, order)
<1>1. /\ IsJob(m)
      /\ m.type = order.type /\ m.dir = IF "dir" \in how THEN "bad" ELSE a.dir
      /\ m.input = order.input \/ Bad(m.input)
      /\ Bad(order.input) => m.input = order.input
      /\ (order.save = NoPath /\ "dir" \notin how) => m.result = a \/ (Bad(m.result) /\ ~Bad(order.input))
  BY MappedJob
<1>2. /\ a.dir # "" /\ order.dir # ""
      /\ order.save = NoPath =>
           a.dir = order.dir /\ OutputPathFromRequest(order) = a /\ (Bad(a) <=> Bad(order.input))
  BY AskedPath DEF Asks
<1> HIDE DEF a, m
<1>3. CASE Bad(order.input)
  BY <1>1, <1>2, <1>3 DEF RepairJobPathFromRequest, a, m
<1>4. CASE ~Bad(order.input)
  <2> DEFINE input == IF Bad(m.input) THEN order.input ELSE m.input
             dir == IF m.dir \notin {"", "bad"} THEN m.dir ELSE order.dir
             path == IF Bad(m.result) THEN OutputPathFromRequest(order) ELSE m.result
  <2>1. c = Repaired(m, input, dir, path)
    BY <1>4 DEF RepairJobPathFromRequest, Repaired
  <2> HIDE DEF c, input, dir, path
  <2>2. c = Job(m.type, input, dir, path)
    <3>1. Repaired(m, input, dir, path) = Job(m.type, input, dir, path)
      BY <1>1, RepairedJob
    <3> QED
      BY <2>1, <3>1
  <2>3. IsJob(c) /\ c.type = m.type /\ c.input = input /\ c.dir = dir /\ c.result = path
    BY <2>2, MadeJob
  <2>4. input = order.input
    BY <1>1 DEF input
  <2>5. dir # "" /\ (order.save = NoPath => dir = order.dir)
    BY <1>1, <1>2 DEF dir
  <2>6. order.save = NoPath /\ "dir" \notin how => path = a
    BY <1>1, <1>2 DEF path
  <2> QED
    BY <1>1, <2>3, <2>4, <2>5, <2>6 DEF c, a, m
<1> QED
  BY <1>3, <1>4
(* There always is a directory for the output.                                *)
LEMMA SourceUsed ==
  ASSUME NEW p, SourceOK(p), PlaceOK(place)
  PROVE  EffectiveOutputDirectory(p) # ""
BY DEF SourceOK, PlaceOK, EffectiveOutputDirectory, SourceDirectory

(* The card repairs the result of an event, and leaves a sound one alone.     *)
LEMMA ShownPath ==
  ASSUME PathsInv, phase \in {"ended", "done"}, order.save = NoPath, Sound,
         asked.ext \in SubtitleExtensions \cup {"mp4"}
  PROVE  SubtitleOutputPath(card) = asked
<1> DEFINE repaired == RepairCorruptSubtitlePath(card.result, card)
<1>1. /\ Asks(order) /\ asked = OutputPathFor(order) /\ card.type = order.type
  BY DEF PathsInv, RequestOK, CardOK, Asks
<1>2. /\ IsPath(asked) /\ NameOK(asked.stem) /\ asked.dir = order.dir /\ asked.ext # "" /\ order.dir # ""
      /\ asked = Named(order.dir, order.input.stem, order.type, asked.ext)
      /\ (Bad(asked) <=> Bad(order.input)) /\ (asked.ext = "mp4" <=> order.type = "burn_in")
  BY <1>1, AskedPath DEF Asks
<1>3. card.result = asked \/ repaired = asked
  <2>1. CASE phase = "ended"
    <3>1. /\ card.input = order.input /\ (~Bad(order.input) => card.dir = order.dir)
          /\ card.result = Through(asked, hurt)
      BY <2>1 DEF PathsInv, CardOK
    <3> DEFINE t == Through(asked, hurt)
    <3>2. /\ t.ext = asked.ext
          /\ "name" \in hurt => Bad(t)
          /\ "dir" \notin hurt /\ ("name" \notin hurt \/ Bad(asked)) => t = asked
      BY <1>2, ThroughPath
    <3>4. card.result.ext = asked.ext /\ (card.result = asked \/ (Bad(card.result) /\ ~Bad(asked)))
      <4> HIDE DEF t
      <4>1. card.result = t /\ "dir" \notin hurt
        BY <3>1 DEF t, Sound
      <4> QED
        BY <3>2, <4>1
    <3>3. CASE Bad(card.result) /\ ~Bad(asked)
      <4>1. repaired = Rebuilt(order.dir, order.input, order.type, card.result)
        BY <1>1, <1>2, <3>1, <3>3 DEF RepairCorruptSubtitlePath
      <4> QED
        BY <1>2, <3>4, <4>1 DEF Rebuilt
    <3> QED
      BY <3>3, <3>4
  <2>2. CASE phase = "done"
    BY <2>2 DEF PathsInv, CardOK
  <2> QED
    BY <2>1, <2>2
<1>4. card.result = asked => repaired = asked
  <2>1. CASE card.result = asked /\ Bad(asked)
    <3>1. Bad(card.input)
      BY <1>2, <2>1 DEF PathsInv, CardOK
    <3> QED
      BY <2>1, <3>1 DEF RepairCorruptSubtitlePath
  <2>2. CASE card.result = asked /\ ~Bad(asked)
    BY <2>2 DEF RepairCorruptSubtitlePath
  <2> QED
    BY <2>1, <2>2
<1>5. asked.ext \in SubtitleExtensions \/ card.type = "burn_in"
  BY <1>1, <1>2
<1> QED
  BY <1>3, <1>4, <1>5 DEF SubtitleOutputPath

(* The invariant holds of the first request.                                  *)
LEMMA PathsInvInit ==
  ASSUME NEW orders, NEW places, \A q \in places : PlaceOK(q), PathsInit(orders, places),
         \A r \in orders : OrderOK(r)
  PROVE  PathsInv
<1>1. PICK r \in orders :
        order = [type |-> r.type, input |-> r.input, subtitle |-> NoPath, save |-> NoPath,
                 dir |-> EffectiveOutputDirectory(r.input), format |-> r.format]
  BY DEF PathsInit
<1>2. OrderOK(r) /\ PlaceOK(place)
  BY DEF PathsInit
<1>3. /\ order.type = r.type /\ order.input = r.input /\ order.save = NoPath /\ order.format = r.format
      /\ order.dir = EffectiveOutputDirectory(r.input)
  BY <1>1
<1>4. OrderOK(order) /\ order.dir # ""
  BY <1>2, <1>3, SourceUsed DEF OrderOK
<1>5. phase = "asked" /\ spoken = NoPath
  BY DEF PathsInit
<1>6. IsRequest(order)
  <2>1. order.subtitle = NoPath
    BY <1>1
  <2> QED
    BY <1>1, <1>3, <2>1 DEF IsRequest
<1>7. RequestOK
  BY <1>2, <1>3, <1>4, <1>5, <1>6 DEF RequestOK
<1>8. CardOK
  <2>1. PICK t, i, d, p : card = Job(t, i, d, p)
    BY DEF PathsInit, Job
  <2>2. IsJob(card)
    BY <2>1, MadeJob
  <2> QED
    BY <1>5, <2>2 DEF CardOK
<1> QED
  BY <1>7, <1>8 DEF PathsInv

(* Every step keeps it.                                                       *)
LEMMA PathsInvStep ==
  ASSUME PathsInv, [PathsNext]_pathVars
  PROVE  PathsInv'
<1>1. Asks(order) /\ PlaceOK(place)
  BY DEF PathsInv, RequestOK, Asks
<1>2. CASE Create
  <2>1. PICK how \in Damages, result \in BOOLEAN :
          /\ card' = RepairJobPathFromRequest(
                       MapJob(Reported(OutputPathFor(order), result, how), order.type), order)
          /\ hurt' = how
    BY <1>2 DEF Create
  <2>2. /\ IsJob(card') /\ card'.type = order.type /\ card'.input = order.input /\ card'.dir # ""
        /\ ~Bad(order.input) /\ order.save = NoPath => card'.dir = order.dir
        /\ order.save = NoPath /\ "dir" \notin hurt' => card'.result = OutputPathFor(order)
    BY <1>1, <2>1, CreatedJob
  <2>3. /\ phase' = "made" /\ asked' = OutputPathFor(order)
        /\ UNCHANGED <<order, place, spoken, opened>>
    BY <1>2 DEF Create
  <2>4. RequestOK'
    BY <2>3 DEF PathsInv, RequestOK, IsRequest, OutputPathFor, OutputExtension, OrderOK, PlaceOK,
              EffectiveOutputDirectory
  <2>5. CardOK'
    BY <2>2, <2>3 DEF CardOK, IsJob, Job
  <2> QED
    BY <2>4, <2>5 DEF PathsInv
<1>3. CASE Ends
  <2>1. PICK how \in SUBSET {"name", "dir"} :
          card' = [card EXCEPT !.result = Through(asked, how)] /\ hurt' = how
    BY <1>3 DEF Ends
  <2>2. /\ phase = "made" /\ phase' = "ended" /\ UNCHANGED <<order, place, asked, spoken, opened>>
    BY <1>3 DEF Ends
  <2>3. card' = Job(card.type, card.input, card.dir, Through(asked, hurt'))
    BY <2>1, EndedJob DEF PathsInv, CardOK
  <2>4. /\ IsJob(card') /\ card'.type = card.type /\ card'.input = card.input /\ card'.dir = card.dir
        /\ card'.result = Through(asked, hurt')
    BY <2>3, MadeJob
  <2>5. RequestOK'
    BY <2>2 DEF PathsInv, RequestOK, IsRequest, OutputPathFor, OutputExtension, OrderOK, PlaceOK,
              EffectiveOutputDirectory
  <2>6. CardOK'
    BY <2>1, <2>2, <2>4 DEF PathsInv, CardOK, IsJob, Job, Through
  <2> QED
    BY <2>5, <2>6 DEF PathsInv
<1>4. CASE Reload
  <2>1. PICK how \in Damages : card' = MapJob(Reported(asked, TRUE, how), order.type) /\ hurt' = how
    BY <1>4 DEF Reload
  <2>2. /\ phase \in {"made", "ended", "done"} /\ phase' = "done"
        /\ UNCHANGED <<order, place, asked, spoken, opened>>
    BY <1>4 DEF Reload
  <2>3. asked = OutputPathFor(order)
    BY <2>2 DEF PathsInv, RequestOK
  <2>4. /\ IsJob(card') /\ card'.type = order.type
        /\ Bad(order.input) => card'.input = order.input
        /\ (order.save = NoPath /\ "dir" \notin how) =>
             card'.result = asked \/ (Bad(card'.result) /\ ~Bad(order.input) /\ {"name", "input"} \subseteq how)
    BY <1>1, <2>1, <2>3, MappedJob
  <2>5. order.save = NoPath => (Bad(asked) <=> Bad(order.input))
    BY <1>1, <2>3, AskedPath
  <2>6. (order.save = NoPath /\ Sound') => card'.result = asked /\ (Bad(asked) => Bad(card'.input))
    BY <2>1, <2>4, <2>5 DEF Sound
  <2>7. RequestOK'
    BY <2>2 DEF PathsInv, RequestOK, IsRequest, OutputPathFor, OutputExtension, OrderOK, PlaceOK,
              EffectiveOutputDirectory
  <2>8. CardOK'
    BY <2>2, <2>4, <2>6 DEF CardOK, IsJob, Job, Bad
  <2> QED
    BY <2>7, <2>8 DEF PathsInv
<1>5. CASE BurnIn
  <2>1. /\ phase = "ended" /\ phase' = "asked" /\ order' = BurnInRequest /\ spoken' = asked
        /\ UNCHANGED <<place, asked, card, hurt, opened>>
    BY <1>5 DEF BurnIn
  <2>2. /\ card.input = order.input /\ card.dir # "" /\ card.result = Through(asked, hurt)
        /\ ~Bad(order.input) /\ order.save = NoPath => card.dir = order.dir
    BY <2>1 DEF PathsInv, CardOK
  <2>3. /\ order'.type = "burn_in" /\ order'.input = order.input /\ order'.subtitle = card.result
        /\ order'.save = NoPath /\ order'.dir = card.dir /\ order'.format = order.format
    BY <2>1, <2>2 DEF BurnInRequest
  <2>12. IsRequest(order')
    <3>1. order' = [type |-> "burn_in", input |-> order'.input, subtitle |-> order'.subtitle,
                    save |-> NoPath, dir |-> order'.dir, format |-> order'.format]
      BY <2>1, <2>3 DEF BurnInRequest
    <3> QED
      BY <2>3, <3>1 DEF IsRequest
  <2>4. /\ asked = OutputPathFor(order) /\ IsPath(asked) /\ NameOK(asked.stem) /\ asked # NoPath
        /\ order.save = NoPath => asked.dir = order.dir
        /\ order.save = Mine => asked = Mine
    BY <1>1, <2>1, AskedPath DEF PathsInv, RequestOK
  <2>5. hurt = {} => card.result = asked
    <3>1. ASSUME NEW how, how = {}
          PROVE  Through(asked, how) = asked
      BY <2>4, <3>1, ThroughPath
    <3> QED
      BY <2>2, <3>1
  <2>6. order.save = Mine => asked.stem = <<"mine">>
    BY <2>4 DEF Mine
  <2>7. order.save \in {NoPath, Mine}
    BY DEF PathsInv, RequestOK
  <2>8. (hurt = {} /\ ~Bad(order.input)) =>
          order'.subtitle = spoken' /\ (order'.dir = spoken'.dir \/ spoken'.stem = <<"mine">>)
    BY <2>1, <2>2, <2>3, <2>4, <2>5, <2>6, <2>7
  <2>9. OrderOK(order)' /\ PlaceOK(place)'
    BY <1>1, <2>1, <2>3 DEF Asks, OrderOK, PlaceOK, Suffix
  <2>10. RequestOK'
    BY <2>1, <2>2, <2>3, <2>4, <2>8, <2>9, <2>12 DEF RequestOK, Bad, IsRequest
  <2>11. CardOK'
    BY <2>1 DEF PathsInv, CardOK, IsJob, Job
  <2> QED
    BY <2>10, <2>11 DEF PathsInv
<1>6. CASE Conflict
  <2>1. PICK errorPath \in {asked, NoPath} : opened' = ConflictOutputPath(card, errorPath)
    BY <1>6 DEF Conflict
  <2>2. /\ phase = "made" /\ phase' = "conflict" /\ order.type = "transcribe" /\ order.save = NoPath
        /\ UNCHANGED <<order, place, asked, spoken, card, hurt>>
    BY <1>6 DEF Conflict
  <2>3. asked # NoPath /\ ("dir" \notin hurt => card.result = asked)
    BY <1>1, <2>2, AskedPath DEF PathsInv, RequestOK, CardOK
  <2>4. opened' = asked \/ "dir" \in hurt
    BY <2>1, <2>3 DEF ConflictOutputPath
  <2>5. RequestOK'
    BY <2>2 DEF PathsInv, RequestOK, IsRequest, OutputPathFor, OutputExtension, OrderOK, PlaceOK,
              EffectiveOutputDirectory
  <2>6. CardOK'
    BY <2>2, <2>4 DEF PathsInv, CardOK, IsJob, Job
  <2> QED
    BY <2>5, <2>6 DEF PathsInv
<1>7. CASE SaveAs
  <2>1. /\ phase = "conflict" /\ phase' = "asked" /\ order' = [order EXCEPT !.save = Mine]
        /\ UNCHANGED <<place, asked, spoken, card, hurt>>
    BY <1>7 DEF SaveAs, Mine
  <2>2. order.type = "transcribe" /\ spoken = NoPath
    BY <2>1 DEF PathsInv, RequestOK
  <2>3. /\ order'.type = order.type /\ order'.input = order.input /\ order'.save = Mine
        /\ order'.dir = order.dir /\ order'.format = order.format /\ IsRequest(order')
    <3>1. ASSUME NEW r, NEW type, NEW input, NEW subtitle, NEW dir, NEW format, NEW save, NEW s,
                 r = [type |-> type, input |-> input, subtitle |-> subtitle, save |-> s,
                      dir |-> dir, format |-> format]
          PROVE  LET q == [r EXCEPT !.save = save]
                 IN /\ q.type = type /\ q.input = input /\ q.save = save /\ q.dir = dir /\ q.format = format
                    /\ IsRequest(q)
      <4> DEFINE q == [r EXCEPT !.save = save]
      <4>1. q = [type |-> type, input |-> input, subtitle |-> subtitle, save |-> save,
                 dir |-> dir, format |-> format]
        BY <3>1
      <4> HIDE DEF q
      <4>2. /\ q.type = type /\ q.input = input /\ q.save = save /\ q.dir = dir /\ q.format = format
            /\ q.subtitle = subtitle
        BY <4>1
      <4>3. IsRequest(q)
        BY <4>1, <4>2 DEF IsRequest
      <4> QED
        BY <4>2, <4>3 DEF q
    <3>2. IsRequest(order)
      BY DEF PathsInv, RequestOK
    <3> QED
      BY <2>1, <3>1, <3>2 DEF IsRequest
  <2>4. OrderOK(order)' /\ PlaceOK(place)'
    BY <1>1, <2>1, <2>3 DEF Asks, OrderOK, PlaceOK, Suffix
  <2>7. EffectiveOutputDirectory(order.input)' = EffectiveOutputDirectory(order.input)
    BY <2>1, <2>3 DEF EffectiveOutputDirectory
  <2>5. RequestOK'
    BY <2>1, <2>2, <2>3, <2>4, <2>7 DEF PathsInv, RequestOK, IsRequest
  <2>6. CardOK'
    BY <2>1 DEF PathsInv, CardOK, IsJob, Job
  <2> QED
    BY <2>5, <2>6 DEF PathsInv
<1>8. CASE Open
  <2>1. /\ phase \in {"ended", "done"} /\ phase' = "shown" /\ opened' = SubtitleOutputPath(card)
        /\ UNCHANGED <<order, place, asked, spoken, card, hurt>>
    BY <1>8 DEF Open
  <2>2. (order.save = NoPath /\ asked.ext \in SubtitleExtensions \cup {"mp4"} /\ Sound) => opened' = asked
    BY <2>1, ShownPath
  <2>3. RequestOK'
    BY <2>1 DEF PathsInv, RequestOK, IsRequest, OutputPathFor, OutputExtension, OrderOK, PlaceOK,
              EffectiveOutputDirectory
  <2>4. CardOK'
    BY <2>1, <2>2 DEF PathsInv, CardOK, IsJob, Job, Sound
  <2> QED
    BY <2>3, <2>4 DEF PathsInv
<1>9. CASE UNCHANGED pathVars
  <2>1. UNCHANGED <<phase, order, place, asked, spoken, card, hurt, opened>>
    BY <1>9 DEF pathVars
  <2>2. RequestOK'
    BY <2>1 DEF PathsInv, RequestOK, IsRequest, OutputPathFor, OutputExtension, OrderOK, PlaceOK,
              EffectiveOutputDirectory
  <2>3. CardOK'
    BY <2>1 DEF PathsInv, CardOK, IsJob, Job, Sound, Through
  <2> QED
    BY <2>2, <2>3 DEF PathsInv
<1> QED
  BY <1>2, <1>3, <1>4, <1>5, <1>6, <1>7, <1>8, <1>9 DEF PathsNext

(* What the property says, it says of every state with the invariant.         *)
LEMMA PathsInvOpened ==
  ASSUME PathsInv
  PROVE  OpenedIsAsked
<1>1. Asks(order)
  BY DEF PathsInv, RequestOK, Asks
<1>2. ASSUME phase = "made", order.save = NoPath, spoken = NoPath, order.input.dir # "root"
      PROVE  asked.dir = IF place.location = "custom" /\ place.selected # "mock"
                         THEN place.selected ELSE order.input.dir
  <2>1. asked.dir = EffectiveOutputDirectory(order.input)
    BY <1>1, <1>2, AskedPath DEF PathsInv, RequestOK
  <2> QED
    BY <1>1, <1>2, <2>1 DEF EffectiveOutputDirectory, SourceDirectory, Asks, OrderOK, SourceOK
<1>3. (phase = "shown" /\ order.save = NoPath /\ asked.ext \in SubtitleExtensions \cup {"mp4"}) =>
        opened = asked \/ "dir" \in hurt \/ {"name", "input"} \subseteq hurt
  BY DEF PathsInv, CardOK, Sound
<1>4. phase = "conflict" => opened = asked \/ "dir" \in hurt
  BY DEF PathsInv, CardOK
<1>5. (spoken # NoPath /\ phase = "asked" /\ hurt = {} /\ ~Bad(order.input)) =>
        order.subtitle = spoken /\ (order.dir = spoken.dir \/ spoken.stem = <<"mine">>)
  BY DEF PathsInv, RequestOK
<1> QED
  BY <1>2, <1>3, <1>4, <1>5 DEF OpenedIsAsked

(* The result that is opened is the file the daemon was asked for, for any set*)
(* of requests and settings, whatever the names and however the reports are   *)
(* damaged, if the names that look damaged are so where a report damages them,*)
(* in the part before the first dot: of <<"a", "bad">> a report may make      *)
(* <<"bad", "bad">>, and an input that looks damaged repairs nothing.         *)
THEOREM OpenedIsAskedHolds ==
  ASSUME NEW CONSTANT orders, NEW CONSTANT places,
         \A r \in orders : OrderOK(r), \A q \in places : PlaceOK(q)
  PROVE  PathsSpec(orders, places) => []OpenedIsAsked
<1>1. PathsInit(orders, places) => PathsInv
  BY PathsInvInit
<1>2. PathsInv /\ [PathsNext]_pathVars => PathsInv'
  BY PathsInvStep
<1>3. PathsInv => OpenedIsAsked
  BY PathsInvOpened
<1> QED
  BY <1>1, <1>2, <1>3, PTL DEF PathsSpec
==============================================================================
