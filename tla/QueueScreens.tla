---------------------------- MODULE QueueScreens -----------------------------
(***************************************************************************)
(* The screens of the queue (queue.tsx): the list, with its filters, its   *)
(* limit and its selection, whose buttons cancel and delete jobs, and the  *)
(* log panel of a job, which loads the lines again and again.  The list is *)
(* what listJobs answered last; meanwhile the daemon goes on.              *)
(***************************************************************************)
EXTENDS Naturals, Sequences, SequencesExt, FiniteSetsExt

CONSTANTS
  JobCount,     \* bound: the jobs, which are numbers in the order of listJobs
  HistoryLimit, \* RECENT_HISTORY_LIMIT, 40
  MaxGestures,  \* bound: what the user does
  Loads         \* bound: loads of the log panel at a time, a set of numbers

QueueJobs == 1..JobCount

VARIABLES
  truth,    \* [QueueJobs -> status]: the daemon
  listed,   \* [SUBSET QueueJobs -> status]: the jobs of App
  ends,     \* the order of completedAt: the jobs that have ended, the last first
  filter,   \* queueFilter
  selected, \* selectedIds
  anchor,   \* selectionAnchorId, or 0
  bulk,     \* the click on its way: [what, ids], at most one
  gestures, \* what the user did so far
  seenOver, \* history: the jobs that the list has shown as over
  shown,    \* the job of the log panel, or 0 while there is none
  loads,    \* [Loads -> [job, alive]]: getJobLogs on its way
  logs,     \* the job of remoteLogs, or 0
  heard     \* history: a load of the job that is shown has come

listVars == <<truth, listed, ends, filter, selected, anchor, bulk, seenOver>>
panelVars == <<shown, loads, logs, heard>>
queueVars == <<listVars, panelVars, gestures>>

Working == {"running", "canceling"}
ActiveJob == Working \cup {"queued"}
OverJob == {"succeeded", "failed", "canceled"}
Filters == {"all", "running", "done", "failed"}
NoLoad == [job |-> 0, alive |-> FALSE]

(* What is selected is on the list.                                           *)
QueueTypeOK ==
  /\ \A j \in QueueJobs : truth[j] \in ActiveJob \cup OverJob \cup {"gone"}
  /\ DOMAIN listed \subseteq QueueJobs /\ Range(listed) \subseteq ActiveJob \cup OverJob
  /\ Range(ends) \subseteq QueueJobs /\ IsInjective(ends) /\ filter \in Filters
  /\ selected \subseteq DOMAIN listed /\ anchor \in DOMAIN listed \cup {0}
  /\ Cardinality(bulk) <= 1 /\ \A b \in bulk : b.ids # {} /\ b.ids \subseteq QueueJobs
  /\ gestures \in 0..MaxGestures /\ seenOver \subseteq QueueJobs /\ heard \in BOOLEAN
  /\ {shown, logs} \cup {loads[l].job : l \in Loads} \subseteq QueueJobs \cup {0}

QueueInit ==
  /\ truth = [j \in QueueJobs |-> "queued"] /\ listed = truth /\ ends = <<>>
  /\ filter \in {"all", "running"} /\ selected = {} /\ anchor = 0 /\ bulk = {} /\ gestures = 0
  /\ seenOver = {} /\ shown = 0 /\ loads = [l \in Loads |-> NoLoad] /\ logs = 0 /\ heard = FALSE

Gesture == gestures < MaxGestures /\ gestures' = gestures + 1

-------------------------------------------------------------------------------
(* The list *)

InOrder == SelectSeq([j \in QueueJobs |-> j], LAMBDA j : j \in DOMAIN listed)
With(statuses, list) == SelectSeq(list, LAMBDA j : listed[j] \in statuses)
History == SelectSeq(ends, LAMBDA j : j \in DOMAIN listed)

(* orderedJobs by its parts; a canceled job is in none of the filters.        *)
FilteredJobs ==
  (IF filter \in {"all", "running"}
   THEN With(Working, InOrder) \o With({"queued"}, InOrder) ELSE <<>>)
  \o (IF filter \in {"all", "done"} THEN With({"succeeded"}, History) ELSE <<>>)
  \o (IF filter \in {"all", "failed"} THEN With({"failed"}, History) ELSE <<>>)
VisibleJobs ==
  LET shownTo == IF Len(FilteredJobs) < HistoryLimit THEN Len(FilteredJobs) ELSE HistoryLimit
  IN Range(SubSeq(FilteredJobs, 1, shownTo))

(* Faulty: what is selected, whatever the list says of it.                    *)
OfSelected(statuses) == selected \cap Range(FilteredJobs)

(* selectedActive and selectedDeletable, of the jobs of the list.             *)
SelectedOf(statuses) ==
  {j \in DOMAIN listed : j \in selected \cap Range(FilteredJobs) /\ listed[j] \in statuses}

(* The daemon on its own.                                                     *)
DaemonMoves(j) ==
  /\ \/ truth[j] = "queued" /\ truth' = [truth EXCEPT ![j] = "running"] /\ UNCHANGED ends
     \/ /\ truth[j] = "running" /\ ends' = <<j>> \o ends
        /\ \E st \in {"succeeded", "failed"} : truth' = [truth EXCEPT ![j] = st]
     \/ truth[j] = "canceling" /\ truth' = [truth EXCEPT ![j] = "canceled"] /\ ends' = <<j>> \o ends
  /\ UNCHANGED <<listed, filter, selected, anchor, bulk, gestures, seenOver, panelVars>>

(* refreshJobs: what is gone leaves the selection.                            *)
Relisted(st) ==
  LET there == {j \in QueueJobs : st[j] # "gone"} IN
  /\ listed' = [j \in there |-> st[j]]
  /\ anchor' = IF anchor \in there THEN anchor ELSE 0
  /\ seenOver' = seenOver \cup {j \in there : st[j] \in OverJob}
RefreshJobs ==
  /\ listed # truth /\ Relisted(truth) /\ selected' = selected \cap DOMAIN listed'
  /\ UNCHANGED <<truth, ends, filter, bulk, gestures, panelVars>>

-------------------------------------------------------------------------------
(* The selection *)

Selects(ids, from) ==
  /\ selected' = ids /\ anchor' = from
  /\ UNCHANGED <<truth, listed, ends, filter, bulk, seenOver, panelVars>>

SetFilter(f) ==
  /\ Gesture /\ f # filter /\ filter' = f
  /\ UNCHANGED <<truth, listed, ends, selected, anchor, bulk, seenOver, panelVars>>

ToggleJob(j) ==
  Gesture /\ Selects(IF j \in selected THEN selected \ {j} ELSE selected \cup {j}, j)

(* The box of all: what the limit hides is taken along.                       *)
ToggleFiltered ==
  /\ Gesture /\ VisibleJobs # {}
  /\ IF Range(FilteredJobs) \subseteq selected
     THEN Selects(selected \ Range(FilteredJobs), 0)
     ELSE Selects(selected \cup Range(FilteredJobs), Head(FilteredJobs))

ClearSelection == Gesture /\ selected # {} /\ Selects({}, anchor)

(* From the anchor to the target, what lies between them now.                 *)
Span(j) ==
  LET at(x) == SelectInSeq(FilteredJobs, LAMBDA y : y = x)
      low == IF at(anchor) < at(j) THEN at(anchor) ELSE at(j)
      high == IF at(anchor) < at(j) THEN at(j) ELSE at(anchor)
  IN Range(SubSeq(FilteredJobs, low, high))

(* A click on a card, with shift or control.                                  *)
SelectJob(j, shift, ctrl) ==
  LET kept == IF ctrl THEN selected ELSE {} IN
  /\ Gesture
  /\ IF shift /\ anchor \in Range(FilteredJobs) THEN Selects(kept \cup Span(j), anchor)
     ELSE IF ctrl THEN Selects(IF j \in selected THEN selected \ {j} ELSE selected \cup {j}, j)
     ELSE Selects({j}, j)

(* The buttons.  The requests are sent at once, and then the list is asked    *)
(* for; what was selected meanwhile is lost.                                  *)
Press(what, ids) ==
  /\ Gesture /\ bulk = {} /\ ids # {} /\ bulk' = {[what |-> what, ids |-> ids]}
  /\ UNCHANGED <<truth, listed, ends, filter, selected, anchor, seenOver, panelVars>>
CancelSelected == Press("cancel", SelectedOf(ActiveJob))
DeleteSelected == Press("delete", SelectedOf(OverJob))

(* One of them is answered: the daemon cancels what is active, deletes what   *)
(* is over, and refuses the rest.                                             *)
CanceledFrom(st) == IF st = "queued" THEN "canceled" ELSE IF st = "running" THEN "canceling" ELSE st
BulkStep(j) ==
  \E b \in bulk :
    /\ j \in b.ids
    /\ truth' = [truth EXCEPT ![j] = CASE b.what = "cancel" -> CanceledFrom(@)
                                       [] b.what = "delete" /\ @ \in OverJob -> "gone"
                                       [] OTHER -> @]
    /\ ends' = IF truth'[j] = "gone" THEN Remove(ends, j)
               ELSE IF truth'[j] = "canceled" /\ truth[j] = "queued" THEN <<j>> \o ends ELSE ends
    /\ IF b.ids = {j}
       THEN bulk' = {} /\ Relisted(truth') /\ selected' = {}
       ELSE bulk' = {[b EXCEPT !.ids = @ \ {j}]} /\ UNCHANGED <<listed, anchor, seenOver, selected>>
    /\ UNCHANGED <<filter, gestures, panelVars>>

-------------------------------------------------------------------------------
(* The log panel *)

(* The effect runs again, also for each render of App, whose getJobLogs is a  *)
(* new one: what is on its way is not waited for any more.                    *)
Reloaded(j) ==
  IF j = 0 THEN {[l \in Loads |-> [loads[l] EXCEPT !.alive = FALSE]]}
  ELSE {[l \in Loads |-> IF l = new THEN [job |-> j, alive |-> TRUE]
                                    ELSE [loads[l] EXCEPT !.alive = FALSE]] :
          new \in {l \in Loads : loads[l] = NoLoad}}

(* Another job is shown, by openJob or its late answer; or the tab is left.   *)
ShowJob(j) ==
  /\ Gesture /\ j # shown /\ shown' = j /\ loads' \in Reloaded(j)
  /\ logs' = IF j = 0 \/ shown = 0 THEN 0 ELSE logs
  /\ heard' = FALSE /\ UNCHANGED listVars

Render ==
  /\ Gesture /\ shown # 0 /\ loads' \in Reloaded(shown)
  /\ UNCHANGED <<listVars, shown, logs, heard>>

(* The interval of 2.5 s, while the job is active.                            *)
LoadAgain(l) ==
  /\ shown # 0 /\ truth[shown] \in ActiveJob /\ loads[l] = NoLoad
  /\ \E k \in Loads : loads[k] = [job |-> shown, alive |-> TRUE] /\ k # l
  /\ loads' = [loads EXCEPT ![l] = [job |-> shown, alive |-> TRUE]]
  /\ UNCHANGED <<listVars, gestures, shown, logs, heard>>

(* A load answers, or fails and leaves the lines as they are.                 *)
LogsLoaded(l) ==
  /\ loads[l] # NoLoad
  /\ \/ /\ logs' = IF loads[l].alive THEN loads[l].job ELSE logs
        /\ heard' = (heard \/ loads[l].alive)
     \/ UNCHANGED <<logs, heard>>
  /\ loads' = [loads EXCEPT ![l] = NoLoad]
  /\ UNCHANGED <<listVars, gestures, shown>>

ListNext ==
  \/ RefreshJobs \/ ToggleFiltered \/ ClearSelection \/ CancelSelected \/ DeleteSelected
  \/ \E j \in QueueJobs : DaemonMoves(j) \/ BulkStep(j)
  \/ \E j \in VisibleJobs :
       ToggleJob(j) \/ \E shift \in BOOLEAN, ctrl \in BOOLEAN : SelectJob(j, shift, ctrl)
  \/ \E f \in Filters : SetFilter(f)

PanelNext ==
  \/ Render
  \/ \E j \in QueueJobs : DaemonMoves(j)
  \/ \E j \in QueueJobs \cup {0} : ShowJob(j)
  \/ \E l \in Loads : LoadAgain(l) \/ LogsLoaded(l)

QueueSpec == QueueInit /\ [][ListNext \/ PanelNext]_queueVars

-------------------------------------------------------------------------------
(* Properties *)

(* A job that the buttons delete was shown to be over: the list is old, and   *)
(* between it, the click and the answers jobs end and are canceled, but no    *)
(* job is lost whose end the user has not been shown (queue.tsx:50).          *)
SeenBeforeDeleted == \A j \in QueueJobs : truth[j] = "gone" => j \in seenOver

(* The lines are those of the job that is shown as soon as one load of it has *)
(* come, whatever comes late of a job shown before (queue.tsx:269).  Until    *)
(* then, or if its loads fail, the lines of another job may stay.             *)
LogsOfShownJob == heard => logs = shown

(* Neither screen takes one job for another, or for what it was before: a job *)
(* is deleted only once it was shown to be over, and its log panel shows no   *)
(* other one's lines (queue.tsx:50, queue.tsx:269).                           *)
NoJobMistaken == SeenBeforeDeleted /\ LogsOfShownJob
==============================================================================
