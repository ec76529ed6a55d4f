-------------------------- MODULE JobHistory_proofs --------------------------
(* What the clients of JobManager were told stays true, over crashes and      *)
(* restarts: the theorems of its properties over told and executed.  Two of   *)
(* them hold for one client at a time (OneCaller), for any number of jobs:    *)
(* with more the handlers undo each other's work.                             *)
EXTENDS JobManager_proofs

------------------------------------------------------------------------------
(* What the threads hold.  A thread at rest holds no job; a goroutine holds   *)
(* its own job, or one that it has popped; so does Main, or one that it has   *)
(* recovered; a handler holds the job of its request.                         *)
Resting == \A t \in Threads : pc[t] = "idle" => arg[t] = NoJob /\ own[t] = NoJob
Snapped == \A t \in Threads : pc[t] \in {"marshal", "open", "put"} => snap[t] \in Statuses
Foreign == \A k \in Jobs : arg[k] \in {NoJob, k} \/ op[k] = "started"
MainHolds == arg[Main] # NoJob => op[Main] = "started" \/ (Recovering /\ arg[Main] \in jobs)
HandlerOps == {"created", "queued", "canceled", "canceling", "deleted"}
HandlerHolds ==
  \A c \in Callers : /\ pc[c] \in {"unlink", "rmdir"} <=> op[c] = "deleted"
                     /\ op[c] \notin {"finished", "interrupted", "requeued"}
                     /\ op[c] \in HandlerOps => own[c] \in Jobs /\ arg[c] = own[c]
                     /\ op[c] \in {"canceled", "canceling"} => pc[c] \in Writing \cup {"signal", "reply"}
Dirs == \A j \in Jobs : disk[j] # "none" => "dir" \in files[j]
Holds == Resting /\ Snapped /\ Foreign /\ MainHolds /\ HandlerHolds /\ Dirs

(* The steps of a thread that go on with the transition at hand.              *)
LEMMA MovesHold ==
  ASSUME IInv, Holds, NEW t \in Threads,
         UNCHANGED <<jobs, arg, own, op>>, NEW point, pc' = [pc EXCEPT ![t] = point],
         pc[t] \notin {"idle", "unlink", "rmdir", "recover"}, point \notin {"idle", "unlink", "rmdir"},
         NEW seen, snap' = [snap EXCEPT ![t] = seen],
         point \in {"marshal", "open", "put"} => seen \in Statuses, Dirs',
         op[t] \in {"canceled", "canceling"} => point \in Writing \cup {"signal", "reply"} \/ t \notin Callers
  PROVE  Holds'
<1> USE NamesAssumption DEF IInv, TypeOK, Holds, Threads
<1>1. Resting'
  BY DEF Resting
<1>2. Snapped'
  BY DEF Snapped
<1>3. Foreign'
  BY DEF Foreign
<1>4. MainHolds'
  BY DEF MainHolds, Recovering
<1>5. HandlerHolds'
  BY DEF HandlerHolds
<1> QED
  BY <1>1, <1>2, <1>3, <1>4, <1>5

LEMMA WritesHold ==
  ASSUME IInv, Holds, NEW t \in Threads,
         AppendEvent(t) \/ AppendEventFails(t) \/ SaveLookup(t) \/ SaveMarshal(t) \/ SaveOpen(t) \/ SavePut(t)
  PROVE  Holds'
<1> USE DEF Goto, memory, process, store, history
<1>a. /\ UNCHANGED <<jobs, arg, own, op>> /\ arg[t] \in Jobs
      /\ pc[t] \notin {"idle", "unlink", "rmdir", "recover"}
  BY DEF AppendEvent, AppendEventFails, SaveLookup, SaveMarshal, SaveOpen, SavePut, IInv, ControlOK, Writing
<1>b. /\ AfterAppend(op[t]) \notin {"idle", "unlink", "rmdir", "marshal", "open", "put"}
      /\ AfterSave(op[t]) \notin {"idle", "unlink", "rmdir", "marshal", "open", "put"}
      /\ op[t] \in {"canceled", "canceling"} =>
           /\ AfterAppend(op[t]) \in Writing \cup {"signal", "reply"}
           /\ AfterSave(op[t]) \in Writing \cup {"signal", "reply"}
      /\ {"marshal", "open", "put"} \subseteq Writing
  BY DEF AfterAppend, AfterSave, Writing
<1>c. /\ snap = [snap EXCEPT ![t] = snap[t]]
      /\ pc[t] \in {"marshal", "open", "put"} => snap[t] \in Statuses
      /\ status[arg[t]] \in Statuses /\ "garbled" \in Statuses
  BY <1>a DEF IInv, TypeOK, Holds, Snapped, Statuses
<1>1. CASE AppendEvent(t) \/ AppendEventFails(t)
  <2>1. pc' = [pc EXCEPT ![t] = AfterAppend(op[t])] /\ snap' = [snap EXCEPT ![t] = snap[t]]
    BY <1>1, <1>c DEF AppendEvent, AppendEventFails
  <2>2. Dirs'
    BY <1>1 DEF AppendEvent, AppendEventFails, Holds, Dirs, IInv, TypeOK
  <2> QED
    BY <1>a, <1>b, <2>1, <2>2, MovesHold
<1>2. Dirs'
  BY <1>1, <1>a DEF SaveLookup, SaveMarshal, SaveOpen, SavePut, Holds, Dirs, IInv, TypeOK
<1>3. CASE SaveLookup(t)
  <2>1. PICK point \in {"marshal", AfterSave(op[t])}, seen \in {status[arg[t]], snap[t]} :
          /\ pc' = [pc EXCEPT ![t] = point] /\ snap' = [snap EXCEPT ![t] = seen]
          /\ point = "marshal" => seen = status[arg[t]]
    BY <1>3, <1>b, <1>c DEF SaveLookup
  <2> QED
    BY <1>2, <1>a, <1>b, <1>c, <2>1, MovesHold
<1>4. CASE SaveMarshal(t)
  <2>1. PICK seen \in Statuses : snap' = [snap EXCEPT ![t] = seen] /\ pc' = [pc EXCEPT ![t] = "open"]
    BY <1>4, <1>c DEF SaveMarshal
  <2> QED
    BY <1>2, <1>a, <1>b, <2>1, MovesHold
<1>5. CASE SaveOpen(t)
  <2>1. pc' = [pc EXCEPT ![t] = "put"] /\ snap' = [snap EXCEPT ![t] = snap[t]] /\ snap[t] \in Statuses
    BY <1>5, <1>c DEF SaveOpen
  <2> QED
    BY <1>2, <1>a, <1>b, <2>1, MovesHold
<1>6. CASE SavePut(t)
  <2>1. pc' = [pc EXCEPT ![t] = AfterSave(op[t])] /\ snap' = [snap EXCEPT ![t] = "none"]
    BY <1>6 DEF SavePut
  <2> QED
    BY <1>2, <1>a, <1>b, <2>1, MovesHold
<1> QED
  BY <1>1, <1>3, <1>4, <1>5, <1>6

LEMMA LeavesHold ==
  ASSUME IInv, Holds, NEW t \in Threads, UNCHANGED jobs, pc[t] # "recover",
         pc' = [pc EXCEPT ![t] = "idle"], op' = [op EXCEPT ![t] = "none"],
         arg' = [arg EXCEPT ![t] = NoJob], own' = [own EXCEPT ![t] = NoJob],
         NEW seen, snap' = [snap EXCEPT ![t] = seen], Dirs'
  PROVE  Holds'
<1> USE NamesAssumption DEF IInv, TypeOK, Holds, Threads
<1>1. Resting'
  BY DEF Resting
<1>2. Snapped'
  BY DEF Snapped
<1>3. Foreign'
  BY DEF Foreign
<1>4. MainHolds'
  BY DEF MainHolds, Recovering
<1>5. HandlerHolds'
  BY DEF HandlerHolds, HandlerOps
<1> QED
  BY <1>1, <1>2, <1>3, <1>4, <1>5

(* A handler begins a request, while Main is at rest.                         *)
LEMMA RequestsHold ==
  ASSUME IInv, Holds, NEW c \in Callers, NEW j \in Jobs, Serving,
         NEW point, NEW o, Receive(c, point, o, j), o \in HandlerOps,
         point \in {"files", "append", "unlink"}, o \in {"canceled", "canceling"} => point = "append",
         point = "unlink" <=> o = "deleted", Dirs'
  PROVE  Holds'
<1> USE NamesAssumption DEF IInv, TypeOK, Holds, Threads, Receive
<1>0. c # Main /\ c \in Threads /\ c \notin Jobs /\ arg[Main] = NoJob
  BY DEF Serving, Resting
<1>1. Resting'
  BY <1>0 DEF Resting
<1>2. Snapped'
  BY <1>0 DEF Snapped
<1>3. Foreign'
  BY <1>0 DEF Foreign
<1>4. MainHolds'
  BY <1>0 DEF MainHolds
<1>5. HandlerHolds'
  BY <1>0 DEF HandlerHolds, HandlerOps, Writing
<1> QED
  BY <1>1, <1>2, <1>3, <1>4, <1>5

LEMMA CallsHold ==
  ASSUME IInv, Holds, NEW c \in Callers, NEW j \in Jobs, Call(c, j)
  PROVE  Holds'
<1>a. c # Main /\ c \in Threads /\ c \notin Jobs
  BY NamesAssumption DEF Threads
<1>1. CASE Create(c, j)
  <2>1. Serving /\ Receive(c, "files", "created", j) /\ Dirs'
    BY <1>1 DEF Create, store, Holds, Dirs
  <2> QED
    BY <2>1, RequestsHold DEF HandlerOps
<1>2. CASE CancelWaiting(c, j)
  <2>1. Serving /\ Receive(c, "append", "canceled", j) /\ Dirs'
    BY <1>2 DEF CancelWaiting, store, Holds, Dirs
  <2> QED
    BY <2>1, RequestsHold DEF HandlerOps
<1>3. CASE CancelRunning(c, j)
  <2>1. Serving /\ Receive(c, "append", "canceling", j) /\ Dirs'
    BY <1>3 DEF CancelRunning, store, Holds, Dirs
  <2> QED
    BY <2>1, RequestsHold DEF HandlerOps
<1>4. CASE Delete(c, j)
  <2>1. Serving /\ Receive(c, "unlink", "deleted", j) /\ Dirs'
    BY <1>4 DEF Delete, store, Holds, Dirs
  <2> QED
    BY <2>1, RequestsHold DEF HandlerOps
<1>5. CASE Events(c, j)
  <2> USE <1>5, <1>a DEF IInv, TypeOK, Holds, Threads, Events, Begin, memory, store
  <2>1. Resting' /\ Snapped' /\ Dirs'
    BY DEF Resting, Snapped, Dirs
  <2>2. Foreign'
    BY DEF Foreign
  <2>3. MainHolds'
    BY DEF MainHolds, Recovering
  <2>4. HandlerHolds'
    BY DEF HandlerHolds, HandlerOps, ControlOK
  <2> QED
    BY <2>1, <2>2, <2>3, <2>4
<1> QED
  BY <1>1, <1>2, <1>3, <1>4, <1>5 DEF Call

LEMMA HandlersHold ==
  ASSUME IInv, Holds, NEW c \in Callers, Handle(c) \/ SaveFails(c)
  PROVE  Holds'
<1> USE DEF Goto, memory, process, store, history
<1>a. /\ c # Main /\ c \in Threads /\ c \notin Jobs
      /\ snap = [snap EXCEPT ![c] = snap[c]]
      /\ pc[c] \in {"marshal", "open", "put"} => snap[c] \in Statuses
  BY NamesAssumption DEF Threads, IInv, TypeOK, Holds, Snapped
<1>1. CASE EnsureJobFiles(c) \/ Signal(c)
  <2>1. pc' = [pc EXCEPT ![c] = "lookup"] /\ pc[c] \notin {"idle", "unlink", "rmdir", "recover"} /\ Dirs'
    BY <1>1 DEF EnsureJobFiles, Signal, Holds, Dirs, IInv, TypeOK
  <2>2. UNCHANGED <<jobs, arg, own, op>> /\ snap' = [snap EXCEPT ![c] = snap[c]]
    BY <1>1, <1>a DEF EnsureJobFiles, Signal
  <2>3. /\ "lookup" \notin {"idle", "unlink", "rmdir"}
        /\ "lookup" \in {"marshal", "open", "put"} => snap[c] \in Statuses
        /\ "lookup" \in Writing \cup {"signal", "reply"}
    BY DEF Writing
  <2> QED
    BY <1>a, <2>1, <2>2, <2>3, MovesHold
<1>2. CASE EnsureJobFilesFails(c) \/ Reply(c) \/ RemoveDir(c) \/ RemoveFails(c) \/ OpenEvents(c)
  <2>1. Dirs'
    BY <1>2, <1>a DEF EnsureJobFilesFails, Reply, RemoveDir, RemoveFails, OpenEvents, Holds, Dirs, IInv, TypeOK
  <2>2. Return(c) /\ UNCHANGED jobs /\ pc[c] # "recover"
    BY <1>2 DEF EnsureJobFilesFails, Reply, RemoveDir, RemoveFails, OpenEvents
  <2>3. /\ pc' = [pc EXCEPT ![c] = "idle"] /\ op' = [op EXCEPT ![c] = "none"]
        /\ arg' = [arg EXCEPT ![c] = NoJob] /\ own' = [own EXCEPT ![c] = NoJob]
        /\ snap' = [snap EXCEPT ![c] = snap[c]]
    BY <1>a, <2>2 DEF Return
  <2> QED
    BY <1>a, <2>1, <2>2, <2>3, LeavesHold
<1>3. CASE Enqueue(c)
  <2> USE <1>3, <1>a, NamesAssumption DEF IInv, TypeOK, Holds, Threads, Enqueue, Begin
  <2>1. op[c] = "created"
    BY DEF ControlOK
  <2>2. Resting' /\ Snapped' /\ Dirs'
    BY DEF Resting, Snapped, Dirs
  <2>3. Foreign'
    BY DEF Foreign
  <2>4. MainHolds'
    BY DEF MainHolds, Recovering
  <2>5. HandlerHolds'
    BY <2>1 DEF HandlerHolds, HandlerOps
  <2> QED
    BY <2>2, <2>3, <2>4, <2>5
<1>4. CASE RemoveEntries(c)
  <2> USE <1>4, <1>a, NamesAssumption DEF IInv, TypeOK, Holds, Threads, RemoveEntries
  <2>1. Resting' /\ Snapped' /\ Dirs'
    BY DEF Resting, Snapped, Dirs
  <2>2. Foreign'
    BY DEF Foreign
  <2>3. MainHolds'
    BY DEF MainHolds, Recovering
  <2>4. HandlerHolds'
    BY DEF HandlerHolds, HandlerOps
  <2> QED
    BY <2>1, <2>2, <2>3, <2>4
<1>5. CASE SaveFails(c)
  <2>0. Dirs' /\ UNCHANGED jobs /\ snap' = [snap EXCEPT ![c] = "none"] /\ pc[c] \in {"open", "put"}
    BY <1>5 DEF SaveFails, WriteFails, Holds, Dirs, IInv, TypeOK
  <2>1. CASE op[c] = "created"
    <3>1. /\ pc' = [pc EXCEPT ![c] = "idle"] /\ op' = [op EXCEPT ![c] = "none"]
          /\ arg' = [arg EXCEPT ![c] = NoJob] /\ own' = [own EXCEPT ![c] = NoJob]
      BY <1>5, <2>1 DEF SaveFails, WriteFails
    <3> QED
      BY <1>a, <2>0, <3>1, LeavesHold
  <2>2. CASE op[c] # "created"
    <3>1. pc' = [pc EXCEPT ![c] = AfterSave(op[c])] /\ UNCHANGED <<arg, own, op>>
      BY <1>5, <2>2 DEF SaveFails, WriteFails
    <3>2. /\ AfterSave(op[c]) \notin {"idle", "unlink", "rmdir", "marshal", "open", "put"}
          /\ op[c] \in {"canceled", "canceling"} => AfterSave(op[c]) \in Writing \cup {"signal", "reply"}
      BY DEF AfterSave
    <3> QED
      BY <1>a, <2>0, <3>1, <3>2, MovesHold
  <2> QED
    BY <2>1, <2>2
<1> QED
  BY <1>1, <1>2, <1>3, <1>4, <1>5 DEF Handle

(* Threads stay where they are, jobs are only added.                          *)
LEMMA RestsHold ==
  ASSUME IInv, Holds, UNCHANGED locals, jobs \subseteq jobs', Dirs'
  PROVE  Holds'
BY DEF locals, Holds, Resting, Snapped, Foreign, MainHolds, HandlerHolds, Recovering

LEMMA SchedulesHold ==
  ASSUME IInv, Holds, NEW t \in Threads, Schedule(t)
  PROVE  Holds'
<1> USE DEF memory, process, store, history
<1>a. /\ Dirs' /\ UNCHANGED jobs
      /\ snap = [snap EXCEPT ![t] = snap[t]]
      /\ pc[t] \in {"marshal", "open", "put"} => snap[t] \in Statuses
  BY DEF Schedule, SchedulePop, ScheduleStop, Spawn, IInv, TypeOK, Holds, Snapped, Dirs
<1>1. CASE SchedulePop(t)
  <2>1. Head(queue) \in Jobs
    BY <1>1, QueuePop DEF SchedulePop, CanStart, IInv, TypeOK, QueueSound, Distinct
  <2> USE <1>1, <1>a, <2>1, NamesAssumption DEF IInv, TypeOK, Holds, Threads, SchedulePop, Begin
  <2>2. Resting' /\ Snapped'
    BY DEF Resting, Snapped
  <2>3. Foreign'
    BY DEF Foreign
  <2>4. MainHolds'
    BY DEF MainHolds, Recovering, ControlOK
  <2>5. HandlerHolds'
    BY DEF HandlerHolds, HandlerOps
  <2> QED
    BY <2>2, <2>3, <2>4, <2>5
<1>2. CASE ScheduleStop(t)
  <2>1. CASE t \in Callers
    <3>1. /\ pc' = [pc EXCEPT ![t] = "reply"] /\ UNCHANGED <<jobs, arg, own, op>>
          /\ snap' = [snap EXCEPT ![t] = snap[t]]
          /\ pc[t] \notin {"idle", "unlink", "rmdir", "recover"}
      BY <1>2, <1>a, <2>1 DEF ScheduleStop, Goto
    <3>2. /\ "reply" \notin {"idle", "unlink", "rmdir"}
          /\ "reply" \in {"marshal", "open", "put"} => snap[t] \in Statuses
          /\ "reply" \in Writing \cup {"signal", "reply"}
      OBVIOUS
    <3> QED
      BY <1>a, <3>1, <3>2, MovesHold
  <2>2. CASE t \notin Callers
    <3>1. /\ pc' = [pc EXCEPT ![t] = "idle"] /\ op' = [op EXCEPT ![t] = "none"]
          /\ arg' = [arg EXCEPT ![t] = NoJob] /\ own' = [own EXCEPT ![t] = NoJob]
          /\ snap' = [snap EXCEPT ![t] = snap[t]] /\ pc[t] # "recover"
      BY <1>2, <1>a, <2>2 DEF ScheduleStop, Return
    <3> QED
      BY <1>a, <3>1, LeavesHold
  <2> QED
    BY <2>1, <2>2
<1>3. CASE Spawn(t)
  <2> DEFINE j == arg[t]
  <2>1. j \in Jobs /\ op[t] = "started" /\ pc[t] = "spawn"
    BY <1>3 DEF Spawn, IInv, ControlOK
  <2>2. pc[j] = "idle" /\ j # t /\ j \in Threads
    BY <2>1 DEF IInv, SlotsOwned, Starter, Threads
  <2>3. /\ pc'[t] = "schedule" /\ pc'[j] = "get" /\ arg'[t] = NoJob /\ arg'[j] = j /\ op'[t] = "none"
        /\ \A u \in Threads \ {t, j} : pc'[u] = pc[u] /\ arg'[u] = arg[u]
        /\ \A u \in Threads \ {t} : op'[u] = op[u]
        /\ UNCHANGED <<own, snap>>
    BY <1>3, <2>1, <2>2 DEF Spawn, IInv, TypeOK
  <2>c. j \notin Callers /\ j # Main /\ Main \in Threads /\ Main \notin Callers
    BY <2>1, NamesAssumption DEF Threads
  <2> HIDE DEF j
  <2>4. Resting' /\ Snapped'
    BY <2>2, <2>3 DEF Holds, Resting, Snapped
  <2>5. Foreign'
    BY <2>1, <2>2, <2>3 DEF Holds, Foreign, Threads
  <2>6. MainHolds'
    BY <1>a, <2>1, <2>2, <2>3, <2>c DEF Holds, MainHolds, Recovering
  <2>7. HandlerHolds'
    BY <2>1, <2>2, <2>3, <2>c DEF Holds, HandlerHolds, HandlerOps, Threads
  <2> QED
    BY <1>a, <2>4, <2>5, <2>6, <2>7 DEF Holds
<1> QED
  BY <1>1, <1>2, <1>3 DEF Schedule

LEMMA RunnersHold ==
  ASSUME IInv, Holds, NEW j \in Jobs, RunJob(j) \/ Finish(j) \/ SaveFails(j)
  PROVE  Holds'
<1> USE DEF memory, process, store, history
<1>a. /\ Dirs' /\ UNCHANGED jobs /\ j \in Threads /\ j # Main /\ j \notin Callers
      /\ snap = [snap EXCEPT ![j] = snap[j]]
  BY NamesAssumption DEF RunJob, Finish, SaveFails, WriteFails, IInv, TypeOK, Holds, Dirs, Threads
<1>1. CASE RunJob(j)
  <2>1. /\ pc' = [pc EXCEPT ![j] = "runner"] /\ UNCHANGED <<jobs, arg, own, op>>
        /\ snap' = [snap EXCEPT ![j] = snap[j]]
        /\ pc[j] \notin {"idle", "unlink", "rmdir", "recover"}
    BY <1>1, <1>a DEF RunJob, Goto
  <2>2. /\ "runner" \notin {"idle", "unlink", "rmdir"}
        /\ "runner" \in {"marshal", "open", "put"} => snap[j] \in Statuses
    OBVIOUS
  <2> QED
    BY <1>a, <2>1, <2>2, MovesHold
<1>2. CASE Finish(j)
  <2>1. CASE j \in jobs
    <3> USE <1>2, <1>a, <2>1 DEF IInv, TypeOK, Holds, Threads, Finish, Begin
    <3>1. Resting' /\ Snapped'
      BY DEF Resting, Snapped
    <3>2. Foreign'
      BY DEF Foreign
    <3>3. MainHolds'
      BY DEF MainHolds, Recovering
    <3>4. HandlerHolds'
      BY DEF HandlerHolds
    <3> QED
      BY <3>1, <3>2, <3>3, <3>4
  <2>2. CASE j \notin jobs
    <3>1. /\ pc' = [pc EXCEPT ![j] = "idle"] /\ op' = [op EXCEPT ![j] = "none"]
          /\ arg' = [arg EXCEPT ![j] = NoJob] /\ own' = [own EXCEPT ![j] = NoJob]
          /\ snap' = [snap EXCEPT ![j] = snap[j]] /\ pc[j] # "recover"
      BY <1>2, <1>a, <2>2 DEF Finish, Return
    <3> QED
      BY <1>a, <3>1, LeavesHold
  <2> QED
    BY <2>1, <2>2
<1>3. CASE SaveFails(j)
  <2>1. op[j] # "created" /\ pc[j] \in {"open", "put"}
    BY <1>3, <1>a DEF SaveFails, WriteFails, IInv, ControlOK
  <2>2. /\ pc' = [pc EXCEPT ![j] = AfterSave(op[j])] /\ UNCHANGED <<jobs, arg, own, op>>
        /\ snap' = [snap EXCEPT ![j] = "none"]
    BY <1>3, <2>1 DEF SaveFails, WriteFails
  <2>3. AfterSave(op[j]) \notin {"idle", "unlink", "rmdir", "marshal", "open", "put"}
    BY DEF AfterSave
  <2> QED
    BY <1>a, <2>1, <2>2, <2>3, MovesHold
<1> QED
  BY <1>1, <1>2, <1>3

LEMMA MainsHold ==
  ASSUME IInv, Holds, Recover \/ SaveFails(Main) \/ Restart
  PROVE  Holds'
<1> USE DEF memory, process, store, history
<1>a. /\ Dirs' /\ Main \in Threads /\ Main \notin Jobs /\ Main \notin Callers
      /\ snap = [snap EXCEPT ![Main] = snap[Main]]
  BY NamesAssumption DEF Recover, RecoverSkip, RecoverInterrupted, RecoverWaiting, RecoverSettled, Visit,
     RecoverDone, SaveFails, WriteFails, Restart, IInv, TypeOK, Holds, Dirs, Threads
<1>1. ASSUME NEW j \in Jobs, RecoverSkip(j) \/ RecoverSettled(j)
      PROVE  Holds'
  BY <1>1, <1>a, RestsHold DEF RecoverSkip, RecoverSettled
<1>2. ASSUME NEW j \in Jobs, NEW point \in {"append", "lookup"}, NEW o \in {"interrupted", "requeued"},
             jobs' = jobs \cup {j}, Begin(Main, point, o, j)
      PROVE  Holds'
  <2> USE <1>2, <1>a DEF IInv, TypeOK, Holds, Threads, Begin
  <2>1. Resting' /\ Snapped'
    BY DEF Resting, Snapped
  <2>2. Foreign'
    BY DEF Foreign
  <2>3. MainHolds'
    BY DEF MainHolds, Recovering
  <2>4. HandlerHolds'
    BY DEF HandlerHolds
  <2> QED
    BY <2>1, <2>2, <2>3, <2>4
<1>3. ASSUME NEW j \in Jobs, RecoverInterrupted(j)
      PROVE  Holds'
  BY <1>2, <1>3 DEF RecoverInterrupted
<1>4. ASSUME NEW j \in Jobs, RecoverWaiting(j)
      PROVE  Holds'
  <2>1. CASE disk[j] = "created"
    BY <1>2, <1>4, <2>1 DEF RecoverWaiting
  <2>2. CASE disk[j] # "created"
    BY <1>a, <1>4, <2>2, RestsHold DEF RecoverWaiting
  <2> QED
    BY <2>1, <2>2
<1>5. CASE RecoverDone
  <2> USE <1>5, <1>a DEF IInv, TypeOK, Holds, Threads, RecoverDone, Begin
  <2>1. Resting' /\ Snapped'
    BY DEF Resting, Snapped
  <2>2. Foreign'
    BY DEF Foreign
  <2>3. MainHolds'
    BY DEF MainHolds, Recovering
  <2>4. HandlerHolds'
    BY DEF HandlerHolds
  <2> QED
    BY <2>1, <2>2, <2>3, <2>4
<1>6. CASE SaveFails(Main)
  <2>1. op[Main] # "created" /\ pc[Main] \in {"open", "put"}
    BY <1>6, <1>a DEF SaveFails, WriteFails, IInv, ControlOK
  <2>2. /\ pc' = [pc EXCEPT ![Main] = AfterSave(op[Main])] /\ UNCHANGED <<jobs, arg, own, op>>
        /\ snap' = [snap EXCEPT ![Main] = "none"]
    BY <1>6, <2>1 DEF SaveFails, WriteFails
  <2>3. AfterSave(op[Main]) \notin {"idle", "unlink", "rmdir", "marshal", "open", "put"}
    BY DEF AfterSave
  <2> QED
    BY <1>a, <2>1, <2>2, <2>3, MovesHold
<1>7. CASE Restart
  <2> USE <1>7, <1>a DEF IInv, TypeOK, Holds, Threads, Restart, Goto
  <2>0. arg[Main] = NoJob /\ op[Main] = "none"
    BY DEF RecoverOK, Resting, ControlOK
  <2>1. Resting' /\ Snapped'
    BY DEF Resting, Snapped
  <2>2. Foreign' /\ HandlerHolds'
    BY DEF Foreign, HandlerHolds
  <2>3. MainHolds'
    BY <2>0 DEF MainHolds, Recovering
  <2> QED
    BY <2>1, <2>2, <2>3
<1> QED
  BY <1>1, <1>3, <1>4, <1>5, <1>6, <1>7 DEF Recover

LEMMA InitHolds == Init => Holds
BY NamesAssumption DEF Init, Holds, Resting, Snapped, Foreign, MainHolds, HandlerHolds, HandlerOps, Dirs, Threads

LEMMA HoldsKeep == IInv /\ Holds /\ [Next]_vars => Holds'
<1> SUFFICES ASSUME IInv, Holds, [Next]_vars PROVE Holds'
  OBVIOUS
<1>1. ASSUME NEW t \in Threads, Advance(t) PROVE Holds'
  BY <1>1, WritesHold, HandlersHold, SchedulesHold, RunnersHold, MainsHold DEF Advance, Save, Threads
<1>2. ASSUME NEW c \in Callers, NEW j \in Jobs, Call(c, j) PROVE Holds'
  BY <1>2, CallsHold
<1>3. ASSUME NEW j \in Jobs, Finish(j) PROVE Holds'
  BY <1>3, RunnersHold
<1>4. CASE ShutdownCancel \/ ShutdownReturn \/ UNCHANGED vars
  <2>1. UNCHANGED locals /\ jobs \subseteq jobs' /\ Dirs'
    BY <1>4 DEF ShutdownCancel, ShutdownReturn, vars, memory, store, Holds, Dirs
  <2> QED
    BY <2>1, RestsHold
<1>5. CASE Exit
  BY <1>5, NamesAssumption
     DEF Exit, store, Holds, Resting, Snapped, Foreign, MainHolds, HandlerHolds, HandlerOps, Dirs, Threads
<1>6. CASE Restart
  BY <1>6, MainsHold
<1> QED
  BY <1>1, <1>2, <1>3, <1>4, <1>5, <1>6 DEF Next

------------------------------------------------------------------------------
(* A job that was deleted stays gone.                                         *)

(* The requests of one client, one after the other.                           *)
OneCaller == \A c, d \in Callers : c = d

(* The job of a request is there; that of a delete is not, and nobody but its *)
(* own goroutine still works on it.                                           *)
Served ==
  \A c \in Callers : own[c] # NoJob =>
    IF op[c] = "deleted"
    THEN /\ own[c] \notin jobs /\ told[own[c]] = "deleting"
         /\ \A t \in Threads : arg[t] = own[c] => t \in {c, own[c]}
    ELSE own[c] \in jobs

(* Only the goroutine of a deleted job may still write it, into no directory. *)
Gone ==
  \A j \in Jobs : told[j] = "deleted" =>
    /\ j \notin jobs /\ disk[j] = "none"
    /\ \A t \in Threads : arg[t] = j => t = j
    /\ arg[j] = j /\ pc[j] \in {"marshal", "open"} => "dir" \notin files[j]

Deletes == Served /\ Gone

LEMMA DeletesFrame ==
  ASSUME IInv, Deletes,
         \A c \in Callers : own'[c] # NoJob =>
           /\ own'[c] = own[c] /\ (op'[c] = "deleted" <=> op[c] = "deleted")
           /\ (own[c] \in jobs' <=> own[c] \in jobs) /\ told'[own[c]] = told[own[c]],
         \A t \in Threads : arg'[t] \in {arg[t], NoJob, t} \cup jobs,
         \A j \in Jobs : told'[j] = "deleted" =>
           /\ told[j] = "deleted" /\ j \notin jobs' /\ disk'[j] = "none"
           /\ arg'[j] = j /\ pc'[j] \in {"marshal", "open"} => "dir" \notin files'[j]
  PROVE  Deletes'
<1> USE NamesAssumption DEF IInv, TypeOK, Deletes
<1>1. Served'
  BY DEF Served
<1>2. Gone'
  BY DEF Gone
<1> QED
  BY <1>1, <1>2

LEMMA WritesDelete ==
  ASSUME IInv, Holds, Deletes, NEW t \in Threads,
         AppendEvent(t) \/ AppendEventFails(t) \/ SaveLookup(t) \/ SaveMarshal(t) \/ SaveOpen(t) \/ SavePut(t)
         \/ (SaveFails(t) /\ op[t] # "created")
  PROVE  Deletes'
<1> USE DEF Goto, memory, process, store, history
<1>1. UNCHANGED <<jobs, arg, own, op, told>> /\ arg[t] \in Jobs
  BY DEF AppendEvent, AppendEventFails, SaveLookup, SaveMarshal, SaveOpen, SavePut, SaveFails, WriteFails, IInv, ControlOK, Writing
<1>2. \A j \in Jobs \ {arg[t]} : disk'[j] = disk[j] /\ files'[j] = files[j]
  BY <1>1 DEF AppendEvent, AppendEventFails, SaveLookup, SaveMarshal, SaveOpen, SavePut, SaveFails, WriteFails, IInv, TypeOK
<1>3. \A u \in Threads \ {t} : pc'[u] = pc[u]
  BY DEF AppendEvent, AppendEventFails, SaveLookup, SaveMarshal, SaveOpen, SavePut, SaveFails, WriteFails, IInv, TypeOK
<1>4. ASSUME NEW j \in Jobs, told[j] = "deleted"
      PROVE  /\ j \notin jobs /\ disk'[j] = "none"
             /\ arg[j] = j /\ pc'[j] \in {"marshal", "open"} => "dir" \notin files'[j]
  <2>1. /\ j \notin jobs /\ disk[j] = "none" /\ (arg[t] = j => t = j)
        /\ arg[j] = j /\ pc[j] \in {"marshal", "open"} => "dir" \notin files[j]
    BY <1>4 DEF Deletes, Gone
  <2>2. CASE t # j
    BY <1>2, <1>3, <2>1, <2>2 DEF Threads
  <2>3. CASE t = j
    <3>1. CASE arg[t] # j
      BY <1>2, <2>1, <2>3, <3>1
    <3>2. CASE arg[t] = j
      <4>1. /\ AfterAppend(op[t]) \notin {"marshal", "open"}
            /\ AfterSave(op[t]) \notin {"marshal", "open"}
        BY DEF AfterAppend, AfterSave
      <4>2. disk'[j] = "none"
        BY <2>1, <2>3, <3>2
           DEF AppendEvent, AppendEventFails, SaveLookup, SaveMarshal, SaveOpen, SavePut, SaveFails, WriteFails, IInv, TypeOK
      <4>3. pc'[j] \in {"marshal", "open"} => pc[j] \in {"marshal", "open"} /\ files'[j] = files[j]
        BY <2>1, <2>3, <3>2, <4>1
           DEF AppendEvent, AppendEventFails, SaveLookup, SaveMarshal, SaveOpen, SavePut, SaveFails, WriteFails, IInv, TypeOK
      <4> QED
        BY <2>1, <3>2, <4>2, <4>3
    <3> QED
      BY <3>1, <3>2
  <2> QED
    BY <2>2, <2>3
<1> QED
  BY <1>1, <1>4, DeletesFrame

(* What a handler does of a request: its end, too.                            *)
LEMMA HandlersDelete ==
  ASSUME OneCaller, IInv, Holds, Deletes, NEW c \in Callers,
         Handle(c) \/ (SaveFails(c) /\ op[c] = "created"), ~RemoveDir(c)
  PROVE  Deletes'
<1> USE DEF Goto, Return, Begin, memory, process, store, history
<1>a. c \notin Jobs /\ c \in Threads
  BY NamesAssumption DEF Threads
<1>b. op[c] # "deleted" \/ RemoveEntries(c) \/ RemoveFails(c)
  BY DEF Handle, EnsureJobFiles, EnsureJobFilesFails, Enqueue, Signal, Reply, OpenEvents, SaveFails, WriteFails, Holds, HandlerHolds
<1>1. /\ UNCHANGED jobs /\ own'[c] \in {own[c], NoJob}
      /\ own'[c] # NoJob => UNCHANGED told /\ (op'[c] = "deleted" <=> op[c] = "deleted")
  BY <1>a, <1>b DEF Handle, EnsureJobFiles, EnsureJobFilesFails, Enqueue, Signal, Reply, RemoveEntries, RemoveDir,
     RemoveFails, OpenEvents, SaveFails, WriteFails, IInv, TypeOK
<1>2. \A t \in Threads \ {c} : /\ pc'[t] = pc[t] /\ arg'[t] = arg[t] /\ own'[t] = own[t] /\ op'[t] = op[t]
  BY <1>a DEF Handle, EnsureJobFiles, EnsureJobFilesFails, Enqueue, Signal, Reply, RemoveEntries, RemoveDir, 
     RemoveFails, OpenEvents, SaveFails, WriteFails, IInv, TypeOK
<1>3. arg'[c] \in {arg[c], NoJob} /\ (arg[c] \in Jobs \/ (UNCHANGED files /\ UNCHANGED disk))
  BY <1>a DEF Handle, EnsureJobFiles, EnsureJobFilesFails, Enqueue, Signal, Reply, RemoveEntries, RemoveDir, 
     RemoveFails, OpenEvents, SaveFails, WriteFails, IInv, TypeOK, ControlOK, Holds, HandlerHolds, HandlerOps
<1>4. \A j \in Jobs : j # arg[c] => files'[j] = files[j] /\ disk'[j] = disk[j]
  BY <1>a DEF Handle, EnsureJobFiles, EnsureJobFilesFails, Enqueue, Signal, Reply, RemoveEntries, RemoveDir, 
     RemoveFails, OpenEvents, SaveFails, WriteFails, IInv, TypeOK
<1>5. \A j \in Jobs : told'[j] = "deleted" => told[j] = "deleted"
  BY <1>a DEF Handle, EnsureJobFiles, EnsureJobFilesFails, Enqueue, Signal, Reply, RemoveEntries, RemoveDir, 
     RemoveFails, OpenEvents, SaveFails, WriteFails, IInv, TypeOK
<1>6. \A d \in Callers : own'[d] # NoJob =>
        /\ own'[d] = own[d] /\ (op'[d] = "deleted" <=> op[d] = "deleted")
        /\ (own[d] \in jobs' <=> own[d] \in jobs) /\ told'[own[d]] = told[own[d]]
  BY <1>1 DEF OneCaller
<1>7. \A t \in Threads : arg'[t] \in {arg[t], NoJob, t} \cup jobs
  BY <1>2, <1>3
<1>8. \A j \in Jobs : told'[j] = "deleted" =>
        /\ told[j] = "deleted" /\ j \notin jobs' /\ disk'[j] = "none"
        /\ arg'[j] = j /\ pc'[j] \in {"marshal", "open"} => "dir" \notin files'[j]
  <2> SUFFICES ASSUME NEW j \in Jobs, told'[j] = "deleted"
               PROVE  /\ told[j] = "deleted" /\ j \notin jobs' /\ disk'[j] = "none"
                      /\ arg'[j] = j /\ pc'[j] \in {"marshal", "open"} => "dir" \notin files'[j]
    OBVIOUS
  <2>1. told[j] = "deleted" /\ j # c /\ j \in Threads
    BY <1>5, <1>a DEF Threads
  <2>2. arg[c] # j /\ j \notin jobs /\ disk[j] = "none"
        /\ (arg[j] = j /\ pc[j] \in {"marshal", "open"} => "dir" \notin files[j])
    BY <1>a, <2>1 DEF Deletes, Gone
  <2> QED
    BY <1>1, <1>2, <1>4, <2>1, <2>2
<1> QED
  BY <1>6, <1>7, <1>8, DeletesFrame

(* The end of a delete: what the others still do is not seen.                 *)
LEMMA RemoveDirDeletes ==
  ASSUME OneCaller, IInv, Holds, Deletes, NEW c \in Callers, RemoveDir(c)
  PROVE  Deletes'
<1> USE NamesAssumption DEF Holds, IInv, TypeOK, Return, RemoveDir, memory
<1> DEFINE j == arg[c]
<1>1. c \in Threads /\ c \notin Jobs /\ op[c] = "deleted" /\ own[c] = j /\ j \in Jobs
  BY DEF Threads, HandlerHolds, HandlerOps
<1>2. j \notin jobs /\ \A t \in Threads : arg[t] = j => t \in {c, j}
  BY <1>1 DEF Deletes, Served
<1> HIDE DEF j
<1>3. Served'
  <2>1. own'[c] = NoJob
    BY <1>1
  <2>2. \A d \in Callers : own'[d] = NoJob
    BY <2>1 DEF OneCaller
  <2> QED
    BY <2>2 DEF Served
<1>4. /\ files' = [files EXCEPT ![j] = {}] /\ told' = [told EXCEPT ![j] = "deleted"] /\ disk[j] = "none"
      /\ UNCHANGED <<jobs, disk>> /\ arg'[c] = NoJob
      /\ \A t \in Threads \ {c} : arg'[t] = arg[t] /\ pc'[t] = pc[t]
  BY <1>1 DEF j
<1>5. ASSUME NEW k \in Jobs, told'[k] = "deleted"
      PROVE  /\ k \notin jobs' /\ disk'[k] = "none"
             /\ \A t \in Threads : arg'[t] = k => t = k
             /\ arg'[k] = k /\ pc'[k] \in {"marshal", "open"} => "dir" \notin files'[k]
  <2>1. k # c /\ k \in Threads
    BY <1>1 DEF Threads
  <2>2. CASE k = j
    BY <1>1, <1>2, <1>4, <2>1, <2>2
  <2>3. CASE k # j
    <3>1. /\ k \notin jobs /\ disk[k] = "none" /\ \A t \in Threads : arg[t] = k => t = k
          /\ arg[k] = k /\ pc[k] \in {"marshal", "open"} => "dir" \notin files[k]
      BY <1>4, <1>5, <2>3 DEF Deletes, Gone
    <3> QED
      BY <1>1, <1>4, <2>1, <2>3, <3>1
  <2> QED
    BY <2>2, <2>3
<1> QED
  BY <1>3, <1>5 DEF Deletes, Gone

(* A request begins; only a delete makes its job not there.                   *)
LEMMA RequestsDelete ==
  ASSUME OneCaller, IInv, Holds, Deletes, NEW c \in Callers, NEW j \in Jobs,
         Serving, pc[c] = "idle", NEW point, NEW o, Receive(c, point, o, j),
         o # "deleted", j \in jobs', told[j] # "deleted",
         \A k \in Jobs \ {j} : (k \in jobs' <=> k \in jobs) /\ told'[k] = told[k], told'[j] # "deleted",
         UNCHANGED <<files, disk>>
  PROVE  Deletes'
<1> USE NamesAssumption DEF IInv, TypeOK, Receive
<1>1. c \in Threads /\ c \notin Jobs
  BY DEF Threads
<1>2. Served'
  <2>1. own'[c] = j /\ op'[c] # "deleted"
    BY <1>1
  <2>2. \A d \in Callers : own'[d] = j /\ op'[d] # "deleted"
    BY <2>1 DEF OneCaller
  <2> QED
    BY <2>2 DEF Served
<1>3. ASSUME NEW k \in Jobs, told'[k] = "deleted"
      PROVE  /\ k \notin jobs' /\ disk'[k] = "none"
             /\ \A t \in Threads : arg'[t] = k => t = k
             /\ arg'[k] = k /\ pc'[k] \in {"marshal", "open"} => "dir" \notin files'[k]
  <2>1. k # c /\ k # j /\ k \in Threads
    BY <1>1, <1>3 DEF Threads
  <2>2. /\ k \notin jobs /\ disk[k] = "none" /\ \A t \in Threads : arg[t] = k => t = k
        /\ arg[k] = k /\ pc[k] \in {"marshal", "open"} => "dir" \notin files[k]
    BY <1>3, <2>1 DEF Deletes, Gone
  <2>3. arg'[c] = j /\ \A t \in Threads \ {c} : arg'[t] = arg[t] /\ pc'[t] = pc[t]
    BY <1>1
  <2> QED
    BY <2>1, <2>2, <2>3
<1> QED
  BY <1>2, <1>3 DEF Deletes, Gone

LEMMA DeleteDeletes ==
  ASSUME OneCaller, IInv, Holds, Deletes, NEW c \in Callers, NEW j \in Jobs, Delete(c, j)
  PROVE  Deletes'
<1> USE NamesAssumption DEF IInv, TypeOK, Receive, Delete, store, process
<1>1. c \in Threads /\ c \notin Jobs /\ c # Main
  BY DEF Threads
<1>2. \A t \in Threads : arg[t] = j => t \in {c, j}
  <2> SUFFICES ASSUME NEW t \in Threads, arg[t] = j, t # j  PROVE t = c
    OBVIOUS
  <2>1. t # Main
    BY DEF Serving, Holds, Resting, Threads
  <2>2. t \notin Jobs
    <3> SUFFICES ASSUME t \in Jobs PROVE FALSE
      OBVIOUS
    <3>1. op[t] = "started"
      BY DEF Holds, Foreign
    <3>2. j \in running
      BY <3>1 DEF SlotsOwned, Starter
    <3> QED
      BY <3>2 DEF SlotsOwned, ActiveStatuses, TerminalStatuses
  <2> QED
    BY <2>1, <2>2 DEF Threads, OneCaller
<1>3. /\ j \notin jobs' /\ told' = [told EXCEPT ![j] = "deleting"] /\ jobs' = jobs \ {j}
      /\ own'[c] = j /\ op'[c] = "deleted" /\ arg'[c] = j /\ UNCHANGED <<files, disk>>
      /\ \A t \in Threads \ {c} : arg'[t] = arg[t] /\ pc'[t] = pc[t]
  BY <1>1
<1>4. Served'
  <2> SUFFICES ASSUME NEW d \in Callers PROVE
         /\ d = c /\ own'[d] \notin jobs' /\ told'[own'[d]] = "deleting" /\ op'[d] = "deleted"
         /\ \A t \in Threads : arg'[t] = own'[d] => t \in {d, own'[d]}
    BY DEF Served
  <2>1. d = c
    BY DEF OneCaller
  <2>2. told'[j] = "deleting"
    BY <1>3
  <2>3. \A t \in Threads : arg'[t] = j => t \in {c, j}
    BY <1>2, <1>3
  <2> QED
    BY <1>3, <2>1, <2>2, <2>3
<1>5. ASSUME NEW k \in Jobs, told'[k] = "deleted"
      PROVE  /\ k \notin jobs' /\ disk'[k] = "none"
             /\ \A t \in Threads : arg'[t] = k => t = k
             /\ arg'[k] = k /\ pc'[k] \in {"marshal", "open"} => "dir" \notin files'[k]
  <2>1. k # c /\ k # j /\ k \in Threads /\ told[k] = "deleted"
    BY <1>1, <1>3, <1>5 DEF Threads
  <2>2. /\ k \notin jobs /\ disk[k] = "none" /\ \A t \in Threads : arg[t] = k => t = k
        /\ arg[k] = k /\ pc[k] \in {"marshal", "open"} => "dir" \notin files[k]
    BY <2>1 DEF Deletes, Gone
  <2> QED
    BY <1>3, <2>1, <2>2
<1> QED
  BY <1>4, <1>5 DEF Deletes, Gone

LEMMA CallsDelete ==
  ASSUME OneCaller, IInv, Holds, Deletes, NEW c \in Callers, NEW j \in Jobs, Call(c, j)
  PROVE  Deletes'
<1> USE DEF memory, store, history
<1>a. told[j] = "deleted" => j \notin jobs
  BY DEF Deletes, Gone
<1>1. CASE Create(c, j)
  <2>1. /\ Serving /\ pc[c] = "idle" /\ Receive(c, "files", "created", j) /\ "created" # "deleted"
        /\ j \in jobs' /\ told[j] # "deleted" /\ told'[j] # "deleted" /\ UNCHANGED <<files, disk>>
        /\ \A k \in Jobs \ {j} : (k \in jobs' <=> k \in jobs) /\ told'[k] = told[k]
    BY <1>1 DEF Create, IInv, TypeOK
  <2> QED
    BY <2>1, RequestsDelete
<1>2. CASE CancelWaiting(c, j)
  <2>1. /\ Serving /\ pc[c] = "idle" /\ Receive(c, "append", "canceled", j) /\ "canceled" # "deleted"
        /\ j \in jobs' /\ told[j] # "deleted" /\ told'[j] # "deleted" /\ UNCHANGED <<files, disk>>
        /\ \A k \in Jobs \ {j} : (k \in jobs' <=> k \in jobs) /\ told'[k] = told[k]
    BY <1>2, <1>a DEF CancelWaiting
  <2> QED
    BY <2>1, RequestsDelete
<1>3. CASE CancelRunning(c, j)
  <2>1. /\ Serving /\ pc[c] = "idle" /\ Receive(c, "append", "canceling", j) /\ "canceling" # "deleted"
        /\ j \in jobs' /\ told[j] # "deleted" /\ told'[j] # "deleted" /\ UNCHANGED <<files, disk>>
        /\ \A k \in Jobs \ {j} : (k \in jobs' <=> k \in jobs) /\ told'[k] = told[k]
    BY <1>3, <1>a DEF CancelRunning
  <2> QED
    BY <2>1, RequestsDelete
<1>4. CASE Events(c, j)
  <2>1. own'[c] = NoJob /\ own' = own /\ c \in Threads /\ c \notin Jobs
    BY <1>4, NamesAssumption DEF Events, Begin, Holds, Resting, Threads
  <2>2. \A d \in Callers : own'[d] = NoJob
    BY <2>1 DEF OneCaller
  <2>3. \A t \in Threads : arg'[t] \in {arg[t], NoJob, t} \cup jobs
    BY <1>4 DEF Events, Begin, IInv, TypeOK
  <2>4. \A k \in Jobs : told'[k] = "deleted" =>
           /\ told[k] = "deleted" /\ k \notin jobs' /\ disk'[k] = "none"
           /\ arg'[k] = k /\ pc'[k] \in {"marshal", "open"} => "dir" \notin files'[k]
    BY <1>4, <2>1 DEF Events, Begin, Deletes, Gone, IInv, TypeOK
  <2> QED
    BY <2>2, <2>3, <2>4, DeletesFrame
<1>5. CASE Delete(c, j)
  BY <1>5, DeleteDeletes
<1> QED
  BY <1>1, <1>2, <1>3, <1>4, <1>5 DEF Call

(* schedule, the goroutines of jobs, and the end of a shutdown.               *)
LEMMA RunsDelete ==
  ASSUME IInv, Holds, Deletes,
         \/ \E t \in Threads : Schedule(t)
         \/ \E j \in Jobs : RunJob(j) \/ Finish(j)
         \/ ShutdownCancel \/ ShutdownReturn \/ UNCHANGED vars
  PROVE  Deletes'
<1> USE DEF memory, process, store, history, locals, vars, Goto, Begin, Return
<1>1. UNCHANGED <<jobs, told, files, disk>>
  BY DEF Schedule, SchedulePop, ScheduleStop, Spawn, RunJob, Finish, ShutdownCancel, ShutdownReturn
<1>2. \A c \in Callers : own'[c] = own[c] /\ (op'[c] = "deleted" <=> op[c] = "deleted")
  BY NamesAssumption DEF Schedule, SchedulePop, ScheduleStop, Spawn, RunJob, Finish, ShutdownCancel, ShutdownReturn,
     Holds, HandlerHolds, IInv, TypeOK, Threads
<1>3. \A t \in Threads : arg'[t] \in {arg[t], NoJob, t} \cup jobs
  <2>1. CASE \E t \in Threads : SchedulePop(t)
    <3>1. Head(queue) \in jobs
      <4>1. queue \in Seq(Jobs) /\ queue # <<>> /\ Distinct(queue)
        BY <2>1 DEF IInv, TypeOK, QueueSound, Distinct, SchedulePop, CanStart
      <4>2. Head(queue) \in Elements(queue)
        BY <4>1, QueuePop
      <4> QED
        BY <4>2 DEF IInv, QueueSound, Queued, Elements
    <3> QED
      BY <2>1, <3>1 DEF SchedulePop, IInv, TypeOK
  <2>2. CASE ~ \E t \in Threads : SchedulePop(t)
    BY <2>2 DEF Schedule, ScheduleStop, Spawn, RunJob, Finish, ShutdownCancel, ShutdownReturn, IInv, TypeOK
  <2> QED
    BY <2>1, <2>2
<1>4. \A j \in Jobs : pc'[j] \in {"marshal", "open"} => pc[j] \in {"marshal", "open"} /\ arg'[j] = arg[j]
  BY DEF Schedule, SchedulePop, ScheduleStop, Spawn, RunJob, Finish, ShutdownCancel, ShutdownReturn, IInv, TypeOK,
     ControlOK, Threads
<1>5. \A j \in Jobs : told'[j] = "deleted" =>
           /\ told[j] = "deleted" /\ j \notin jobs' /\ disk'[j] = "none"
           /\ arg'[j] = j /\ pc'[j] \in {"marshal", "open"} => "dir" \notin files'[j]
  BY <1>1, <1>4 DEF Deletes, Gone
<1> QED
  BY <1>1, <1>2, <1>3, <1>5, DeletesFrame

(* No request is under way when the process ends, or while it recovers.       *)
LEMMA NobodyAsks ==
  ASSUME IInv, Holds, Exit \/ Restart \/ Recover
  PROVE  \A c \in Callers : own'[c] = NoJob
<1> USE NamesAssumption DEF memory, process, store, history
<1>a. Main \in Threads /\ Main \notin Callers /\ Main \notin Jobs
  BY DEF Threads
<1>1. CASE Exit
  BY <1>1 DEF Exit, Threads
<1>2. CASE Restart
  BY <1>2 DEF Restart, Goto, IInv, RecoverOK, Holds, Resting, Threads
<1>3. CASE Recover
  <2>1. Recovering /\ UNCHANGED own
    BY <1>3 DEF Recover, RecoverSkip, RecoverInterrupted, RecoverWaiting, RecoverSettled, RecoverDone, Visit,
       Recovering, Begin, locals
  <2> QED
    BY <1>a, <2>1 DEF IInv, RecoverOK, Holds, Resting, Threads
<1> QED
  BY <1>1, <1>2, <1>3

(* The end of the process and the recovery: what was removed is not read.     *)
LEMMA RestartsDelete ==
  ASSUME IInv, Holds, Deletes, Exit \/ Restart \/ Recover
  PROVE  Deletes'
<1> USE NamesAssumption DEF memory, process, store, history
<1>a. Main \in Threads /\ Main \notin Callers /\ Main \notin Jobs
  BY DEF Threads
<1>1. \A c \in Callers : own'[c] = NoJob
  BY NobodyAsks
<1>2. UNCHANGED <<told, files, disk>>
  BY DEF Exit, Restart, Recover, RecoverSkip, RecoverInterrupted, RecoverWaiting, RecoverSettled, RecoverDone, Visit
<1>3. \A k \in Jobs : told[k] = "deleted" => k \notin jobs'
  BY DEF Exit, Restart, Recover, RecoverSkip, RecoverInterrupted, RecoverWaiting, RecoverSettled, RecoverDone, Visit,
     Deletes, Gone, ActiveStatuses, TerminalStatuses
<1>4. \A k \in Jobs : told[k] = "deleted" => \A t \in Threads : arg'[t] = k => t = k
  <2>1. CASE Exit
    BY <2>1 DEF Exit
  <2>2. CASE Restart
    BY <2>2 DEF Restart, Goto, Deletes, Gone
  <2>3. CASE Recover
    <3>1. /\ \A t \in Threads \ {Main} : arg'[t] = arg[t]
          /\ arg'[Main] \in {arg[Main], NoJob} \/ disk[arg'[Main]] # "none"
      BY <1>a, <2>3 DEF Recover, RecoverSkip, RecoverInterrupted, RecoverWaiting, RecoverSettled, RecoverDone, Visit,
         Begin, locals, ActiveStatuses, IInv, TypeOK
    <3> QED
      BY <1>a, <3>1 DEF Deletes, Gone
  <2> QED
    BY <2>1, <2>2, <2>3
<1>5. \A k \in Jobs : pc'[k] \in {"marshal", "open"} => pc'[k] = pc[k] /\ arg'[k] = arg[k]
  <2>1. CASE Exit
    BY <2>1 DEF Exit, Threads
  <2>2. CASE Restart
    BY <1>a, <2>2 DEF Restart, Goto, IInv, TypeOK
  <2>3. CASE Recover
    <3>1. \A t \in Threads \ {Main} : pc'[t] = pc[t] /\ arg'[t] = arg[t]
      BY <2>3 DEF Recover, RecoverSkip, RecoverInterrupted, RecoverWaiting, RecoverSettled, RecoverDone, Visit,
         Begin, locals, IInv, TypeOK
    <3> QED
      BY <1>a, <3>1 DEF Threads
  <2> QED
    BY <2>1, <2>2, <2>3
<1>6. Served'
  BY <1>1 DEF Served
<1>7. Gone'
  BY <1>2, <1>3, <1>4, <1>5 DEF Deletes, Gone
<1> QED
  BY <1>6, <1>7 DEF Deletes

LEMMA DeletesKeep == OneCaller /\ IInv /\ Holds /\ Deletes /\ [Next]_vars => Deletes'
<1> SUFFICES ASSUME OneCaller, IInv, Holds, Deletes, [Next]_vars PROVE Deletes'
  OBVIOUS
<1>1. ASSUME NEW t \in Threads, Advance(t) PROVE Deletes'
  <2>1. SaveFails(t) /\ op[t] = "created" => t \in Callers
    BY DEF IInv, ControlOK
  <2> QED
    BY <1>1, <2>1, WritesDelete, HandlersDelete, RemoveDirDeletes, RunsDelete, RestartsDelete
       DEF Advance, Save, Threads
<1>2. ASSUME NEW c \in Callers, NEW j \in Jobs, Call(c, j) PROVE Deletes'
  BY <1>2, CallsDelete
<1> QED
  BY <1>1, <1>2, RunsDelete, RestartsDelete DEF Next

LEMMA InitDeletes == Init => Deletes
BY DEF Init, Deletes, Served, Gone, Threads

(* With the requests of one client at a time, a job whose Delete was answered *)
(* with success is not in m.jobs again, in this or in a later life of the     *)
(* daemon, whatever crashes and fails on the disk in between.                 *)
THEOREM DeletedStaysGoneHolds ==
  ASSUME OneCaller
  PROVE  Spec => []DeletedStaysGone
<1>1. Init => Holds /\ Deletes
  BY InitHolds, InitDeletes
<1>2. IInv /\ Holds /\ Deletes /\ [Next]_vars => Holds' /\ Deletes'
  BY HoldsKeep, DeletesKeep
<1>3. Deletes => DeletedStaysGone
  BY DEF Deletes, Gone, DeletedStaysGone
<1> QED
  BY <1>1, <1>2, <1>3, Invariance, PTL DEF Spec

------------------------------------------------------------------------------
(* A job that was accepted is kept.                                           *)

OnDisk(j) == "dir" \in files[j] /\ disk[j] # "none"

(* The job is in the map, or will be recovered, or its file cannot be read and*)
(* nobody is at work on it.                                                   *)
Known(j) == \/ j \in jobs \/ daemon = "down" \/ (Recovering /\ j \in todo)
            \/ disk[j] = "torn" /\ \A t \in Threads : arg[t] # j

(* Create has not got as far as job.json.                                     *)
Unsaved(c) == op[c] = "created" /\ pc[c] \in {"files", "lookup", "marshal", "open"}

Saved ==
  \A c \in Callers, j \in Jobs :
    own[c] = j /\ told[j] = "pending" /\ op[c] \notin {"canceled", "canceling"} /\ ~Unsaved(c) => OnDisk(j)

(* What is accepted is in a file that recoverJobs will find.                  *)
Accepted == Saved /\ \A j \in Jobs : told[j] = "accepted" => OnDisk(j) /\ Known(j)

(* The client of a pending job finds it in the map, and a delete under way is *)
(* of a job that is neither pending nor accepted.                             *)
Marked ==
  \A c \in Callers : own[c] # NoJob =>
    /\ told[own[c]] # "unborn"
    /\ op[c] = "deleted" => told[own[c]] \notin {"pending", "accepted"}
    /\ told[own[c]] = "pending" => own[c] \in jobs

(* How an answer comes about, and who takes a job out of the map.             *)
LEMMA AnswersMove ==
  ASSUME IInv, [Next]_vars, NEW j \in Jobs
  PROVE  /\ told'[j] = "unborn" => told[j] = "unborn"
         /\ told'[j] = "pending" => told[j] \in {"unborn", "pending"}
         /\ told'[j] = "accepted" =>
              told[j] = "accepted" \/ \E c \in Callers : Reply(c) /\ own[c] = j /\ told[j] = "pending"
         /\ j \in jobs /\ j \notin jobs' => told'[j] = "deleting" \/ Exit
<1> USE DEF memory, process, store, history, IInv, TypeOK
<1> DEFINE A == /\ told'[j] = "unborn" => told[j] = "unborn"
                /\ told'[j] = "pending" => told[j] \in {"unborn", "pending"}
                /\ told'[j] = "accepted" =>
                     told[j] = "accepted" \/ \E c \in Callers : Reply(c) /\ own[c] = j /\ told[j] = "pending"
                /\ j \in jobs /\ j \notin jobs' => told'[j] = "deleting" \/ Exit
<1>1. ASSUME NEW t \in Threads, Advance(t) PROVE A
  <2>1. CASE t \in Callers /\ Reply(t)
    BY <2>1 DEF Reply
  <2>2. CASE t \in Callers /\ Handle(t) /\ ~Reply(t)
    BY <2>2 DEF Handle, EnsureJobFiles, EnsureJobFilesFails, Enqueue, Signal, RemoveEntries, RemoveDir, RemoveFails,
       OpenEvents
  <2>3. CASE AppendEvent(t) \/ AppendEventFails(t) \/ Save(t)
    BY <2>3 DEF AppendEvent, AppendEventFails, Save, SaveLookup, SaveMarshal, SaveOpen, SavePut, SaveFails, WriteFails
  <2>4. CASE Schedule(t) \/ (t \in Jobs /\ RunJob(t)) \/ (t = Main /\ Recover)
    BY <2>4 DEF Schedule, SchedulePop, ScheduleStop, Spawn, RunJob, Recover, RecoverSkip, RecoverInterrupted,
       RecoverWaiting, RecoverSettled, RecoverDone, Visit
  <2> QED
    BY <1>1, <2>1, <2>2, <2>3, <2>4 DEF Advance
<1>2. ASSUME NEW c \in Callers, NEW k \in Jobs, Call(c, k) PROVE A
  BY <1>2 DEF Call, Create, CancelWaiting, CancelRunning, Delete, Events
<1>3. CASE (\E k \in Jobs : Finish(k)) \/ ShutdownCancel \/ ShutdownReturn \/ Restart \/ Exit \/ UNCHANGED vars
  BY <1>3 DEF Finish, ShutdownCancel, ShutdownReturn, Exit, Restart, vars
<1> QED
  BY <1>1, <1>2, <1>3 DEF Next

(* What becomes of a handler at work: it has answered, has got a request, or  *)
(* goes on with the one it has.                                               *)
GoesOn(c) ==
  /\ own'[c] = own[c]
  /\ op'[c] = "deleted" => op[c] = "deleted"
  /\ op[c] \in {"canceled", "canceling"} /\ own[c] # NoJob => op'[c] = op[c]
  /\ Unsaved(c) /\ own[c] \in jobs => Unsaved(c)' \/ SaveOpen(c)

LEMMA RequestsMove ==
  ASSUME IInv, Holds, [Next]_vars, NEW c \in Callers, own'[c] # NoJob
  PROVE  GoesOn(c) \/ \E j \in Jobs : Create(c, j) \/ CancelWaiting(c, j) \/ CancelRunning(c, j) \/ Delete(c, j)
<1> USE NamesAssumption DEF Goto, Begin, Return, memory, process, store, history, locals, IInv, TypeOK
<1>a. c \in Threads /\ c # Main /\ c \notin Jobs
  BY DEF Threads
<1>b. own'[c] = own[c] /\ op'[c] = op[c] /\ pc'[c] = pc[c] => GoesOn(c)
  BY DEF GoesOn, Unsaved
<1>1. ASSUME NEW t \in Threads, Advance(t) PROVE GoesOn(c)
  <2>1. CASE t # c
    <3>1. /\ own'[c] = own[c] /\ op'[c] = op[c]
      BY <1>1, <1>a, <2>1 DEF Advance, AppendEvent, AppendEventFails, Save, SaveLookup, SaveMarshal, SaveOpen, SavePut,
         SaveFails, WriteFails, Schedule, SchedulePop, ScheduleStop, Spawn, RunJob, Recover, RecoverSkip, RecoverInterrupted,
         RecoverWaiting, RecoverSettled, RecoverDone, Visit, Handle, EnsureJobFiles, EnsureJobFilesFails, Enqueue,
         Signal, Reply, RemoveEntries, RemoveDir, RemoveFails, OpenEvents
    <3>2. pc'[c] = pc[c]
      BY <1>1, <1>a, <2>1 DEF Advance, AppendEvent, AppendEventFails, Save, SaveLookup, SaveMarshal, SaveOpen, SavePut,
         SaveFails, WriteFails, Schedule, SchedulePop, ScheduleStop, Spawn, RunJob, Recover, RecoverSkip, RecoverInterrupted,
         RecoverWaiting, RecoverSettled, RecoverDone, Visit, Handle, EnsureJobFiles, EnsureJobFilesFails, Enqueue,
         Signal, Reply, RemoveEntries, RemoveDir, RemoveFails, OpenEvents, ControlOK
    <3> QED
      BY <1>b, <3>1, <3>2
  <2>2. CASE AppendEvent(c) \/ AppendEventFails(c) \/ Save(c)
    <3>1. op[c] = "created" => arg[c] = own[c]
      BY DEF Holds, HandlerHolds, HandlerOps
    <3>2. own'[c] = own[c] /\ op'[c] = op[c]
      BY <1>a, <2>2 DEF AppendEvent, AppendEventFails, Save, SaveLookup, SaveMarshal, SaveOpen, SavePut, SaveFails, WriteFails
    <3>3. Unsaved(c) /\ own[c] \in jobs => Unsaved(c)' \/ SaveOpen(c)
      BY <1>a, <2>2, <3>1, <3>2 DEF AppendEvent, AppendEventFails, Save, SaveLookup, SaveMarshal, SaveOpen, SavePut,
         SaveFails, WriteFails, Unsaved
    <3> QED
      BY <3>2, <3>3 DEF GoesOn
  <2>3. CASE Schedule(c) \/ Enqueue(c)
    <3>1. own'[c] = own[c] /\ op'[c] # "deleted" /\ ~Unsaved(c) /\ op[c] \notin {"canceled", "canceling"}
      BY <1>a, <2>3 DEF Enqueue, Schedule, SchedulePop, ScheduleStop, Spawn, Unsaved, ControlOK, Holds, HandlerHolds,
         Writing
    <3> QED
      BY <3>1 DEF GoesOn
  <2>4. CASE EnsureJobFiles(c) \/ Signal(c) \/ RemoveEntries(c)
    <3>1. own'[c] = own[c] /\ op'[c] = op[c]
      BY <1>a, <2>4 DEF EnsureJobFiles, Signal, RemoveEntries
    <3>2. Unsaved(c) => Unsaved(c)'
      BY <1>a, <2>4, <3>1 DEF EnsureJobFiles, Signal, RemoveEntries, Unsaved
    <3> QED
      BY <3>1, <3>2 DEF GoesOn
  <2>5. CASE EnsureJobFilesFails(c) \/ Reply(c) \/ RemoveDir(c) \/ RemoveFails(c) \/ OpenEvents(c)
    BY <1>a, <2>5 DEF EnsureJobFilesFails, Reply, RemoveDir, RemoveFails, OpenEvents
  <2> QED
    BY <1>1, <1>a, <2>1, <2>2, <2>3, <2>4, <2>5 DEF Advance, Handle
<1>2. ASSUME NEW d \in Callers, NEW k \in Jobs, Call(d, k), d # c PROVE GoesOn(c)
  BY <1>a, <1>b, <1>2 DEF Call, Create, CancelWaiting, CancelRunning, Delete, Events, Receive
<1>3. ASSUME NEW k \in Jobs, Events(c, k) PROVE GoesOn(c)
  <2>1. own'[c] = own[c] /\ own[c] = NoJob
    BY <1>a, <1>3 DEF Events, Holds, Resting
  <2> QED
    BY <2>1
<1>4. CASE (\E k \in Jobs : Finish(k)) \/ ShutdownCancel \/ ShutdownReturn \/ Restart \/ Exit \/ UNCHANGED vars
  BY <1>a, <1>b, <1>4 DEF Finish, ShutdownCancel, ShutdownReturn, Exit, Restart, vars
<1> QED
  BY <1>1, <1>2, <1>3, <1>4 DEF Next, Call

LEMMA MarkedKeeps ==
  ASSUME IInv, Holds, Marked, [Next]_vars
  PROVE  Marked'
<1> USE NamesAssumption DEF IInv, TypeOK
<1> SUFFICES ASSUME NEW c \in Callers, NEW j \in Jobs, own'[c] = j
             PROVE  /\ told'[j] # "unborn"
                    /\ op'[c] = "deleted" => told'[j] \notin {"pending", "accepted"}
                    /\ told'[j] = "pending" => j \in jobs'
  <2>1. own' \in [Threads -> Jobs \cup {NoJob}]
    BY NextIInv
  <2> QED
    BY <2>1 DEF Marked, Threads
<1>a. /\ told'[j] = "unborn" => told[j] = "unborn"
      /\ told'[j] = "pending" => told[j] \in {"unborn", "pending"}
      /\ told'[j] = "accepted" => told[j] \in {"pending", "accepted"}
      /\ j \in jobs /\ j \notin jobs' => told'[j] = "deleting" \/ Exit
  BY AnswersMove
<1>b. own'[c] # NoJob /\ c \in Threads /\ ~Exit
  BY DEF Threads, Exit
<1>1. CASE GoesOn(c)
  BY <1>1, <1>a, <1>b DEF Marked, GoesOn
<1>2. ASSUME NEW k \in Jobs, Create(c, k) \/ CancelWaiting(c, k) \/ CancelRunning(c, k) \/ Delete(c, k)
      PROVE  /\ told'[j] # "unborn"
             /\ op'[c] = "deleted" => told'[j] \notin {"pending", "accepted"}
             /\ told'[j] = "pending" => j \in jobs'
  BY <1>2, <1>b DEF Create, CancelWaiting, CancelRunning, Delete, Receive, LifeOK, history
<1> QED
  BY <1>1, <1>2, <1>b, RequestsMove

(* Only a delete takes the files of a job.                                    *)
LEMMA OnDiskKeeps ==
  ASSUME IInv, Holds, Marked, [Next]_vars, NEW j \in Jobs, told[j] \in {"pending", "accepted"}, OnDisk(j)
  PROVE  OnDisk(j)'
<1> USE DEF memory, process, store, history
<1>1. \A c \in Callers : op[c] = "deleted" => arg[c] # j
  BY NamesAssumption DEF Holds, HandlerHolds, HandlerOps, Marked
<1>2. ASSUME NEW t \in Threads, Advance(t) PROVE OnDisk(j)'
  <2>1. CASE AppendEvent(t) \/ AppendEventFails(t)
    BY <2>1 DEF AppendEvent, AppendEventFails, OnDisk, IInv, TypeOK
  <2>2. CASE Save(t)
    <3>1. snap[t] # "none" \/ pc[t] # "put"
      BY DEF Holds, Snapped, Statuses, ActiveStatuses, TerminalStatuses
    <3> QED
      BY <2>2, <3>1 DEF Save, SaveLookup, SaveMarshal, SaveOpen, SavePut, SaveFails, WriteFails, OnDisk, IInv, TypeOK
  <2>3. CASE Schedule(t) \/ (t \in Jobs /\ RunJob(t)) \/ Recover
    BY <2>3 DEF Schedule, SchedulePop, ScheduleStop, Spawn, RunJob, OnDisk, Recover, RecoverSkip,
       RecoverInterrupted, RecoverWaiting, RecoverSettled, RecoverDone, Visit
  <2>4. CASE t \in Callers /\ Handle(t)
    BY <1>1, <2>4 DEF Handle, EnsureJobFiles, EnsureJobFilesFails, Enqueue, Signal, Reply, RemoveEntries, RemoveDir,
       RemoveFails, OpenEvents, OnDisk, IInv, TypeOK, Holds, HandlerHolds
  <2> QED
    BY <1>2, <2>1, <2>2, <2>3, <2>4 DEF Advance
<1>3. ASSUME NEW c \in Callers, NEW k \in Jobs, Call(c, k) PROVE OnDisk(j)'
  BY <1>3 DEF Call, Create, CancelWaiting, CancelRunning, Delete, Events, OnDisk
<1>4. CASE (\E k \in Jobs : Finish(k)) \/ ShutdownCancel \/ ShutdownReturn \/ Exit \/ Restart \/ UNCHANGED vars
  BY <1>4 DEF Finish, ShutdownCancel, ShutdownReturn, Exit, Restart, vars, OnDisk
<1> QED
  BY <1>2, <1>3, <1>4 DEF Next

LEMMA KnownFrame ==
  ASSUME NEW j \in Jobs, Known(j), j \in jobs => j \in jobs', daemon = "down" => daemon' = "down",
         Recovering /\ j \in todo => Recovering' /\ j \in todo',
         \A t \in Threads : arg'[t] = j => j \in jobs' \/ \E u \in Threads : arg[u] = j,
         disk'[j] = disk[j] \/ \E u \in Threads : arg[u] = j
  PROVE  Known(j)'
BY DEF Known

LEMMA WritesKnow ==
  ASSUME IInv, NEW j \in Jobs, Known(j), NEW t \in Threads, AppendEvent(t) \/ AppendEventFails(t) \/ Save(t)
  PROVE  Known(j)'
<1> USE DEF Goto, memory, process, store, history, Save, IInv
<1>1. UNCHANGED <<jobs, daemon, todo>> /\ pc[t] \in Writing /\ pc[t] # "recover"
  BY DEF AppendEvent, AppendEventFails, SaveLookup, SaveMarshal, SaveOpen, SavePut, SaveFails, WriteFails, Writing
<1>2. /\ arg'[t] \in {arg[t], NoJob} /\ \A u \in Threads \ {t} : arg'[u] = arg[u] /\ pc'[u] = pc[u] /\ op'[u] = op[u]
      /\ op'[t] # op[t] => op[t] = "created"
  BY DEF AppendEvent, AppendEventFails, SaveLookup, SaveMarshal, SaveOpen, SavePut, SaveFails, WriteFails, TypeOK
<1>3. disk'[j] = disk[j] \/ arg[t] = j
  BY DEF AppendEvent, AppendEventFails, SaveLookup, SaveMarshal, SaveOpen, SavePut, SaveFails, WriteFails, TypeOK
<1>4. Recovering => Recovering'
  BY <1>1, <1>2 DEF Recovering, Threads
<1>5. \A u \in Threads : arg'[u] = j => arg[u] = j
  BY <1>2, NamesAssumption
<1> QED
  BY <1>1, <1>3, <1>4, <1>5, KnownFrame

(* While somebody else than Main is at work Main does not recover.            *)
LEMMA Serves ==
  ASSUME IInv, NEW t \in Threads, pc[t] # "idle", t # Main \/ pc[t] \notin Writing \cup {"recover"}
  PROVE  ~Recovering /\ daemon # "down"
BY DEF IInv, ControlOK, RecoverOK, Recovering, Threads

LEMMA HandlersKnow ==
  ASSUME IInv, NEW j \in Jobs, Known(j), NEW c \in Callers, Handle(c)
  PROVE  Known(j)'
<1> USE DEF Goto, Begin, Return, memory, process, store, history, IInv
<1>a. c \in Threads /\ c # Main /\ pc[c] # "idle"
  BY NamesAssumption DEF Threads, Handle, EnsureJobFiles, EnsureJobFilesFails, Enqueue, Signal, Reply, RemoveEntries,
     RemoveDir, RemoveFails, OpenEvents
<1>1. ~Recovering
  BY <1>a, Serves
<1>2. UNCHANGED <<jobs, daemon, todo>> /\ \A u \in Threads : arg'[u] \in {arg[u], NoJob}
  BY DEF Handle, EnsureJobFiles, EnsureJobFilesFails, Enqueue, Signal, Reply, RemoveEntries, RemoveDir, RemoveFails,
     OpenEvents, TypeOK
<1>3. disk'[j] = disk[j] \/ arg[c] = j
  BY DEF Handle, EnsureJobFiles, EnsureJobFilesFails, Enqueue, Signal, Reply, RemoveEntries, RemoveDir, RemoveFails,
     OpenEvents, TypeOK
<1>4. \A u \in Threads : arg'[u] = j => arg[u] = j
  BY <1>2, NamesAssumption
<1> QED
  BY <1>a, <1>1, <1>2, <1>3, <1>4, KnownFrame

LEMMA CallsKnow ==
  ASSUME IInv, NEW j \in Jobs, Known(j), told'[j] # "deleting", NEW c \in Callers, NEW k \in Jobs, Call(c, k)
  PROVE  Known(j)'
<1> USE DEF Begin, Receive, memory, process, store, history, IInv
<1>1. ~Recovering /\ UNCHANGED <<daemon, todo, disk>>
  BY DEF Call, Create, CancelWaiting, CancelRunning, Delete, Events, Serving, ControlOK, Recovering, Threads
<1>2. j \in jobs => j \in jobs'
  BY DEF Call, Create, CancelWaiting, CancelRunning, Delete, Events, TypeOK
<1>3. \A u \in Threads : arg'[u] = j => arg[u] = j \/ j \in jobs'
  BY DEF Call, Create, CancelWaiting, CancelRunning, Delete, Events, TypeOK
<1> QED
  BY <1>1, <1>2, <1>3, KnownFrame

LEMMA RunsKnow ==
  ASSUME IInv, NEW j \in Jobs, Known(j),
         (\E t \in Threads : Schedule(t)) \/ (\E k \in Jobs : RunJob(k) \/ Finish(k))
  PROVE  Known(j)'
<1> USE NamesAssumption DEF Goto, Begin, Return, memory, process, store, history, IInv
<1>1. ~Recovering
  <2>1. \E t \in Threads : pc[t] \in {"schedule", "spawn", "get", "runner"}
    BY DEF Schedule, SchedulePop, ScheduleStop, Spawn, RunJob, Finish, Threads
  <2> QED
    BY <2>1, Serves DEF Writing
<1>2. UNCHANGED <<jobs, daemon, todo, disk>>
  BY DEF Schedule, SchedulePop, ScheduleStop, Spawn, RunJob, Finish
<1>3. \A u \in Threads : arg'[u] = j => j \in jobs' \/ \E v \in Threads : arg[v] = j
  <2>1. CASE \E t \in Threads : SchedulePop(t)
    <3>1. queue \in Seq(Jobs) /\ queue # <<>> /\ Distinct(queue)
      BY <2>1 DEF TypeOK, QueueSound, Distinct, SchedulePop, CanStart
    <3>2. Head(queue) \in Elements(queue)
      BY <3>1, QueuePop
    <3>3. Head(queue) \in jobs
      BY <3>2 DEF QueueSound, Queued, Elements
    <3> QED
      BY <1>2, <2>1, <3>3 DEF SchedulePop, TypeOK
  <2>2. CASE \E t \in Threads : ScheduleStop(t) \/ Spawn(t)
    BY <2>2 DEF ScheduleStop, Spawn, TypeOK
  <2>3. CASE \E k \in Jobs : RunJob(k) \/ Finish(k)
    BY <1>2, <2>3 DEF RunJob, Finish, TypeOK
  <2> QED
    BY <2>1, <2>2, <2>3 DEF Schedule
<1> QED
  BY <1>1, <1>2, <1>3, KnownFrame, Serves DEF Known

LEMMA ProcessKnows ==
  ASSUME IInv, Holds, NEW j \in Jobs, Known(j), OnDisk(j),
         Exit \/ Restart \/ Recover \/ ShutdownCancel \/ ShutdownReturn \/ UNCHANGED vars
  PROVE  Known(j)'
<1> USE NamesAssumption DEF Goto, Begin, Return, memory, process, store, history, locals, vars
<1>a. Main \in Threads /\ Main \notin Callers /\ Main \notin Jobs
  BY DEF Threads
<1>1. CASE Exit
  BY <1>1 DEF Exit, Known
<1>2. CASE Restart
  BY <1>2, <1>a DEF Restart, Known, OnDisk, Recovering, IInv, TypeOK
<1>3. CASE ShutdownCancel \/ ShutdownReturn \/ UNCHANGED vars
  BY <1>3 DEF ShutdownCancel, ShutdownReturn, Known, Recovering
<1>4. CASE Recover
  <2>1. CASE RecoverDone
    <3>1. todo = {} /\ UNCHANGED <<jobs, daemon, disk, todo>> /\ daemon # "down"
      BY <1>4, <2>1 DEF RecoverDone, IInv, RecoverOK, Recovering
    <3>2. \A u \in Threads : arg'[u] = j => arg[u] = j
      BY <2>1, <1>a DEF RecoverDone, IInv, TypeOK
    <3> QED
      BY <3>1, <3>2, KnownFrame
  <2>2. ASSUME NEW k \in Jobs, k # j,
               RecoverSkip(k) \/ RecoverInterrupted(k) \/ RecoverWaiting(k) \/ RecoverSettled(k)
        PROVE  Known(j)'
    <3>1. jobs \subseteq jobs' /\ todo' = todo \ {k} /\ UNCHANGED <<disk, daemon>>
      BY <2>2 DEF RecoverSkip, RecoverInterrupted, RecoverWaiting, RecoverSettled, Visit
    <3>2. Recovering'
      BY <1>a, <2>2 DEF RecoverSkip, RecoverInterrupted, RecoverWaiting, RecoverSettled, Visit, Recovering, IInv, TypeOK
    <3>3. \A u \in Threads : arg'[u] = j => arg[u] = j
      BY <1>a, <2>2 DEF RecoverSkip, RecoverInterrupted, RecoverWaiting, RecoverSettled, Visit, IInv, TypeOK
    <3> QED
      BY <2>2, <3>1, <3>2, <3>3, KnownFrame
  <2>3. CASE RecoverInterrupted(j) \/ RecoverWaiting(j) \/ RecoverSettled(j)
    BY <2>3 DEF RecoverInterrupted, RecoverWaiting, RecoverSettled, Known
  <2>4. CASE RecoverSkip(j)
    <3>1. disk'[j] = "torn" /\ j \in todo /\ UNCHANGED arg /\ pc[Main] = "recover"
      BY <2>4 DEF RecoverSkip, Visit, OnDisk
    <3>2. Recovering /\ j \notin jobs /\ j # NoJob
      BY <3>1 DEF Recovering, IInv, RecoverOK
    <3>3. arg[Main] # j
      BY <3>1, <3>2, <1>a DEF IInv, ControlOK, Holds, MainHolds, Writing
    <3>4. \A t \in Threads \ {Main} : arg[t] # j
      BY <3>2 DEF IInv, RecoverOK, Holds, Resting
    <3> QED
      BY <3>1, <3>3, <3>4 DEF Known
  <2> QED
    BY <1>4, <2>1, <2>2, <2>3, <2>4 DEF Recover
<1> QED
  BY <1>1, <1>2, <1>3, <1>4

LEMMA KnownKeeps ==
  ASSUME IInv, Holds, [Next]_vars, NEW j \in Jobs, Known(j), OnDisk(j), told'[j] # "deleting"
  PROVE  Known(j)'
<1>1. ASSUME NEW t \in Threads, Advance(t) PROVE Known(j)'
  BY <1>1, WritesKnow, HandlersKnow, RunsKnow, ProcessKnows DEF Advance
<1> QED
  BY <1>1, CallsKnow, RunsKnow, ProcessKnows DEF Next

LEMMA SavedKeeps ==
  ASSUME IInv, Holds, Marked, Saved, [Next]_vars
  PROVE  Saved'
<1> USE NamesAssumption DEF IInv, TypeOK
<1> SUFFICES ASSUME NEW c \in Callers, NEW j \in Jobs, own'[c] = j, told'[j] = "pending",
                    op'[c] \notin {"canceled", "canceling"}, ~Unsaved(c)'
             PROVE  OnDisk(j)'
  BY DEF Saved
<1>a. c \in Threads /\ own'[c] # NoJob /\ told[j] \in {"unborn", "pending"}
  BY AnswersMove DEF Threads
<1>1. CASE GoesOn(c)
  <2>1. own[c] = j /\ told[j] = "pending" /\ j \in jobs /\ op[c] \notin {"canceled", "canceling"}
    BY <1>1, <1>a DEF GoesOn, Marked
  <2>2. CASE ~Unsaved(c)
    BY <2>1, <2>2, OnDiskKeeps DEF Saved
  <2>3. CASE SaveOpen(c) /\ Unsaved(c)
    <3>1. arg[c] = j
      BY <2>1, <2>3 DEF Unsaved, Holds, HandlerHolds, HandlerOps
    <3> QED
      BY <2>3, <3>1 DEF SaveOpen, OnDisk
  <2> QED
    BY <1>1, <2>1, <2>2, <2>3 DEF GoesOn
<1>2. ASSUME NEW k \in Jobs, Create(c, k) PROVE FALSE
  BY <1>2, <1>a DEF Create, Receive, Unsaved
<1>3. ASSUME NEW k \in Jobs, CancelWaiting(c, k) \/ CancelRunning(c, k) PROVE FALSE
  BY <1>3, <1>a DEF CancelWaiting, CancelRunning, Receive
<1>4. ASSUME NEW k \in Jobs, Delete(c, k) PROVE FALSE
  BY <1>4, <1>a DEF Delete, Receive
<1> QED
  BY <1>1, <1>2, <1>3, <1>4, <1>a, RequestsMove

(* What is accepted was saved: Reply is the only one to accept a job.         *)
LEMMA AcceptedKeeps ==
  ASSUME IInv, Holds, Marked, Accepted, [Next]_vars
  PROVE  Accepted'
<1>1. Saved'
  BY SavedKeeps DEF Accepted
<1>2. ASSUME NEW j \in Jobs, told'[j] = "accepted"
      PROVE  OnDisk(j)' /\ Known(j)'
  <2>1. CASE told[j] = "accepted"
    BY <1>2, <2>1, OnDiskKeeps, KnownKeeps DEF Accepted
  <2>2. CASE told[j] # "accepted"
    <3>1. PICK c \in Callers : Reply(c) /\ own[c] = j /\ told[j] = "pending"
      BY <1>2, <2>2, AnswersMove
    <3>2. op[c] \notin {"canceled", "canceling"} /\ ~Unsaved(c) /\ j \in jobs
      BY <1>2, <3>1 DEF Reply, Unsaved, IInv, TypeOK
    <3>3. OnDisk(j) /\ Known(j)
      BY <3>1, <3>2 DEF Accepted, Saved, Known
    <3> QED
      BY <1>2, <3>1, <3>3, OnDiskKeeps, KnownKeeps
  <2> QED
    BY <2>1, <2>2
<1> QED
  BY <1>1, <1>2 DEF Accepted

(* A file that is not whole: some thread is inside of the only write of it, or*)
(* a write of it has been spoiled.                                            *)
Putting(t, j) == pc[t] = "put" /\ arg[t] = j

Explained ==
  \A j \in Jobs :
    /\ disk[j] = "torn" => j \in spoiled \/ \E t \in Threads : Putting(t, j)
    /\ \A t \in Threads : Putting(t, j) =>
         /\ disk[j] \in {"none", "torn"} \/ j \in spoiled
         /\ \A u \in Threads \ {t} : Putting(u, j) => j \in spoiled

(* A step that begins and ends no write of a file.                            *)
LEMMA ExplainedFrame ==
  ASSUME Explained, UNCHANGED spoiled,
         \A j \in Jobs : disk'[j] \in {"none", disk[j]},
         \A t \in Threads, j \in Jobs : Putting(t, j)' <=> Putting(t, j)
  PROVE  Explained'
BY DEF Explained

LEMMA WritesExplain ==
  ASSUME IInv, Explained, NEW t \in Threads, SaveOpen(t) \/ SavePut(t) \/ SaveFails(t)
  PROVE  Explained'
<1>0. arg[t] \in Jobs /\ pc[t] \in {"open", "put"}
  BY DEF SaveOpen, SavePut, SaveFails, WriteFails, IInv, ControlOK, Writing
<1>1. PICK j \in Jobs : arg[t] = j
  BY <1>0
<1>a. j \in Jobs /\ j # NoJob /\ pc[t] \in {"open", "put"} /\ arg[t] = j
  BY <1>0, <1>1, NamesAssumption
<1>b. /\ \A k \in Jobs \ {j} : disk'[k] = disk[k] /\ (k \in spoiled' <=> k \in spoiled)
      /\ \A u \in Threads \ {t}, k \in Jobs : Putting(u, k)' <=> Putting(u, k)
      /\ \A k \in Jobs \ {j} : ~Putting(t, k) /\ ~Putting(t, k)'
  BY <1>a, NamesAssumption
     DEF SaveOpen, SavePut, SaveFails, WriteFails, Goto, Putting, IInv, TypeOK, store, history
<1>c. AnotherWrites(t) <=> \E u \in Threads \ {t} : Putting(u, j)
  BY <1>a DEF AnotherWrites, Putting
<1>d. /\ Putting(t, j)' => pc[t] = "open"
      /\ SaveFails(t) => ~Putting(t, j)'
      /\ SavePut(t) => ~Putting(t, j)'
  BY <1>a DEF SaveOpen, SavePut, SaveFails, WriteFails, Goto, Putting, IInv, TypeOK, AfterSave
<1>2. CASE SaveOpen(t)
  <2>1. /\ disk'[j] = "torn" /\ (j \in spoiled => j \in spoiled')
        /\ (\E u \in Threads \ {t} : Putting(u, j)) => j \in spoiled'
    BY <1>2, <1>a, <1>c DEF SaveOpen, IInv, TypeOK
  <2>2. \A k \in Jobs \ {j} : \A u \in Threads : Putting(u, k)' <=> Putting(u, k)
    BY <1>b
  <2>3. \A u \in Threads \ {t} : Putting(u, j)' => j \in spoiled'
    BY <1>b, <2>1
  <2>4. Putting(t, j)'
    BY <1>2, <1>a DEF SaveOpen, Goto, Putting, IInv, TypeOK
  <2>5. \A k \in Jobs \ {j} : disk'[k] = disk[k] /\ (k \in spoiled' <=> k \in spoiled)
    BY <1>b
  <2> QED
    BY <2>1, <2>2, <2>3, <2>4, <2>5 DEF Explained
<1>3. CASE SavePut(t)
  <2>1. Putting(t, j)
    BY <1>3, <1>a DEF SavePut, Putting
  <2>2. PICK left \in {"none", "torn", snap[t]} :
          /\ disk'[j] = left
          /\ spoiled' = IF left = snap[t] /\ ~AnotherWrites(t) THEN spoiled \ {j} ELSE spoiled
          /\ disk[j] \in {"none", "torn"} => left \in {"none", snap[t]}
    BY <1>3, <1>a DEF SavePut, IInv, TypeOK
  <2>3. CASE AnotherWrites(t)
    <3>1. j \in spoiled /\ j \in spoiled'
      BY <1>a, <1>c, <2>1, <2>2, <2>3 DEF Explained
    <3> QED
      BY <1>a, <1>b, <3>1 DEF Explained
  <2>4. CASE ~AnotherWrites(t)
    <3>1. \A u \in Threads : ~Putting(u, j)'
      BY <1>3, <1>a, <1>b, <1>c, <1>d, <2>4
    <3>2. disk[j] \in {"none", "torn"} \/ j \in spoiled
      BY <1>a, <2>1 DEF Explained
    <3>3. snap[t] # "torn"
      BY <1>a DEF IInv, TypeOK, Statuses, ActiveStatuses, TerminalStatuses
    <3>4. disk'[j] = "torn" => j \in spoiled'
      BY <2>2, <3>2, <3>3
    <3>5. \A k \in Jobs \ {j} : disk'[k] = disk[k] /\ (k \in spoiled' <=> k \in spoiled)
      BY <1>b
    <3>6. \A k \in Jobs \ {j} : \A u \in Threads : Putting(u, k)' <=> Putting(u, k)
      BY <1>b
    <3> QED
      BY <3>1, <3>4, <3>5, <3>6 DEF Explained
  <2> QED
    BY <2>3, <2>4
<1>4. CASE SaveFails(t) /\ pc[t] = "put"
  <2>1. j \in spoiled'
    BY <1>4, <1>a DEF SaveFails, WriteFails
  <2> QED
    BY <1>b, <2>1 DEF Explained
<1>5. CASE SaveFails(t) /\ pc[t] = "open"
  <2>1. UNCHANGED <<disk, spoiled>> /\ ~Putting(t, j) /\ ~Putting(t, j)'
    BY <1>5, <1>a, <1>d DEF SaveFails, WriteFails, Putting
  <2>2. \A u \in Threads, k \in Jobs : Putting(u, k)' <=> Putting(u, k)
    BY <1>b, <2>1, <1>a
  <2> QED
    BY <2>1, <2>2, ExplainedFrame
<1> QED
  BY <1>2, <1>3, <1>4, <1>5, <1>a

LEMMA ExplainedKeeps ==
  ASSUME IInv, Explained, [Next]_vars
  PROVE  Explained'
<1> USE NamesAssumption DEF Goto, Begin, Receive, Return, memory, process, store, history, locals, IInv, TypeOK
<1>1. ASSUME NEW t \in Threads, Advance(t) PROVE Explained'
  <2>1. CASE AppendEvent(t) \/ AppendEventFails(t) \/ SaveLookup(t) \/ SaveMarshal(t)
    <3>1. UNCHANGED <<disk, spoiled>>
      BY <2>1 DEF AppendEvent, AppendEventFails, SaveLookup, SaveMarshal
    <3>2. \A u \in Threads, j \in Jobs : Putting(u, j)' <=> Putting(u, j)
      BY <2>1 DEF AppendEvent, AppendEventFails, SaveLookup, SaveMarshal, AfterAppend, AfterSave, Putting
    <3> QED
      BY <3>1, <3>2, ExplainedFrame
  <2>2. CASE Schedule(t) \/ (t \in Jobs /\ RunJob(t))
    <3>1. UNCHANGED <<disk, spoiled>>
      BY <2>2 DEF Schedule, SchedulePop, ScheduleStop, Spawn, RunJob
    <3>2. \A u \in Threads, j \in Jobs : Putting(u, j)' <=> Putting(u, j)
      BY <2>2 DEF Schedule, SchedulePop, ScheduleStop, Spawn, RunJob, Putting, ControlOK, SlotsOwned, Starter, Threads
    <3> QED
      BY <3>1, <3>2, ExplainedFrame
  <2>3. CASE t \in Callers /\ Handle(t)
    <3>1. UNCHANGED spoiled /\ \A j \in Jobs : disk'[j] \in {"none", disk[j]}
      BY <2>3 DEF Handle, EnsureJobFiles, EnsureJobFilesFails, Enqueue, Signal, Reply, RemoveEntries, RemoveDir,
         RemoveFails, OpenEvents
    <3>2. \A u \in Threads, j \in Jobs : Putting(u, j)' <=> Putting(u, j)
      BY <2>3 DEF Handle, EnsureJobFiles, EnsureJobFilesFails, Enqueue, Signal, Reply, RemoveEntries, RemoveDir,
         RemoveFails, OpenEvents, Putting
    <3> QED
      BY <3>1, <3>2, ExplainedFrame
  <2>4. CASE t = Main /\ Recover
    <3>1. UNCHANGED <<disk, spoiled>> /\ Main \in Threads
      BY <2>4 DEF Recover, RecoverSkip, RecoverInterrupted, RecoverWaiting, RecoverSettled, RecoverDone, Visit, Threads
    <3>2. \A u \in Threads, j \in Jobs : Putting(u, j)' <=> Putting(u, j)
      BY <2>4, <3>1 DEF Recover, RecoverSkip, RecoverInterrupted, RecoverWaiting, RecoverSettled, RecoverDone, Visit,
         Putting
    <3> QED
      BY <3>1, <3>2, ExplainedFrame
  <2> QED
    BY <1>1, <2>1, <2>2, <2>3, <2>4, WritesExplain DEF Advance, Save
<1>2. ASSUME NEW c \in Callers, NEW k \in Jobs, Call(c, k) PROVE Explained'
  <2>1. UNCHANGED <<disk, spoiled>>
    BY <1>2 DEF Call, Create, CancelWaiting, CancelRunning, Delete, Events
  <2>2. \A u \in Threads, j \in Jobs : Putting(u, j)' <=> Putting(u, j)
    BY <1>2 DEF Call, Create, CancelWaiting, CancelRunning, Delete, Events, Putting
  <2> QED
    BY <2>1, <2>2, ExplainedFrame
<1>3. ASSUME NEW k \in Jobs, Finish(k) PROVE Explained'
  <2>1. \A u \in Threads, j \in Jobs : Putting(u, j)' <=> Putting(u, j)
    BY <1>3 DEF Finish, Putting, Threads
  <2> QED
    BY <1>3, <2>1, ExplainedFrame DEF Finish
<1>4. CASE Exit
  <2>1. /\ \A u \in Threads, j \in Jobs : ~Putting(u, j)' /\ (Putting(u, j) => j \in spoiled')
        /\ spoiled \subseteq spoiled' /\ UNCHANGED disk
    BY <1>4 DEF Exit, Putting
  <2> QED
    BY <2>1 DEF Explained
<1>5. CASE ShutdownCancel \/ ShutdownReturn \/ Restart \/ UNCHANGED vars
  <2>1. /\ UNCHANGED <<disk, spoiled>>
        /\ \A u \in Threads, j \in Jobs : Putting(u, j)' <=> Putting(u, j)
    BY <1>5 DEF ShutdownCancel, ShutdownReturn, Restart, vars, Putting, RecoverOK, Threads
  <2> QED
    BY <2>1, ExplainedFrame
<1> QED
  BY <1>1, <1>2, <1>3, <1>4, <1>5 DEF Next

LEMMA InitAccepted == Init => Marked /\ Accepted /\ Explained
BY DEF Init, Marked, Accepted, Saved, Explained, Putting, Threads

(* A job whose Create was answered is in m.jobs until it is deleted, with any *)
(* number of handlers at work and over any number of crashes, unless its      *)
(* job.json cannot be read; and that is so only after the process ended inside*)
(* of a write of it, the disk was full inside of one, or two were at work.    *)
THEOREM AcceptedIsKeptHolds == Spec => []AcceptedIsKept
<1>1. Init => Holds /\ Marked /\ Accepted /\ Explained
  BY InitHolds, InitAccepted
<1>2. /\ IInv /\ Holds /\ Marked /\ Accepted /\ Explained /\ [Next]_vars
      => Holds' /\ Marked' /\ Accepted' /\ Explained'
  BY HoldsKeep, MarkedKeeps, AcceptedKeeps, ExplainedKeeps
<1>3. IInv /\ Accepted /\ Explained => AcceptedIsKept
  BY DEF IInv, ControlOK, Threads, Accepted, Known, Recovering, Serving, AcceptedIsKept, Explained, Putting
<1> QED
  BY <1>1, <1>2, <1>3, Invariance, PTL DEF Spec

------------------------------------------------------------------------------
(* A job that was canceled before it started is never started.                *)

Writer(t, j) == pc[t] \in Writing /\ arg[t] = j

(* RunJob comes first of what the goroutine of a job does.                    *)
Started == \A j \in Jobs : pc[j] \notin {"idle", "get"} => j \in executed

(* Nothing that recoverJobs would queue or call interrupted.                  *)
Unmarked(j) == disk[j] \in {"none", "torn", "canceled"}

(* A cancel under way of a job that was never started: once it has saved the  *)
(* job nothing else is on disk, and the job keeps its status.                 *)
Cancels ==
  \A c \in Callers, j \in Jobs : own[c] = j =>
    /\ op[c] = "created" => told[j] = "pending"
    /\ op[c] = "canceling" /\ j \notin executed => status[j] = "canceling"
    /\ op[c] = "canceled" /\ j \notin executed =>
         /\ status[j] = "canceled" /\ \A t \in Threads \ {c} : ~Writer(t, j)
         /\ pc[c] \in {"marshal", "open", "put"} => snap[c] = "canceled"
         /\ pc[c] \in {"put", "reply"} => Unmarked(j)

(* A job whose cancel was answered and that never ran.                        *)
Never ==
  \A j \in Jobs : told[j] = "canceled" /\ j \notin executed =>
    /\ j \in jobs => status[j] = "canceled"
    /\ Unmarked(j) /\ \A t \in Threads : ~Writer(t, j)

LEMMA StartedKeeps ==
  ASSUME IInv, Holds, Started, [Next]_vars
  PROVE  Started' /\ executed \subseteq executed'
<1> USE NamesAssumption DEF Goto, Begin, Receive, Return, memory, process, store, history, locals, IInv, TypeOK
<1>1. ASSUME NEW t \in Threads, Advance(t) PROVE Started' /\ executed \subseteq executed'
  <2>1. CASE AppendEvent(t) \/ AppendEventFails(t) \/ Save(t)
    BY <2>1 DEF AppendEvent, AppendEventFails, Save, SaveLookup, SaveMarshal, SaveOpen, SavePut, SaveFails, WriteFails,
       Started, Threads
  <2>2. CASE SchedulePop(t) \/ ScheduleStop(t)
    BY <2>2 DEF SchedulePop, ScheduleStop, Started, Threads
  <2>3. CASE Spawn(t)
    <3>1. arg[t] \in Jobs /\ arg[t] # t /\ pc[t] = "spawn"
      BY <2>3 DEF Spawn, ControlOK, SlotsOwned, Starter
    <3> QED
      BY <2>3, <3>1 DEF Spawn, Started, Threads
  <2>4. CASE t \in Callers /\ Handle(t)
    BY <2>4 DEF Handle, EnsureJobFiles, EnsureJobFilesFails, Enqueue, Signal, Reply, RemoveEntries, RemoveDir,
       RemoveFails, OpenEvents, Started, Threads
  <2>5. CASE t \in Jobs /\ RunJob(t)
    BY <2>5 DEF RunJob, Started, Threads
  <2>6. CASE t = Main /\ Recover
    <3>1. UNCHANGED executed
      BY <2>6 DEF Recover, RecoverSkip, RecoverInterrupted, RecoverWaiting, RecoverSettled, RecoverDone, Visit
    <3>2. \A k \in Jobs : pc'[k] = pc[k]
      BY <2>6 DEF Recover, RecoverSkip, RecoverInterrupted, RecoverWaiting, RecoverSettled, RecoverDone, Visit, Threads
    <3> QED
      BY <3>1, <3>2 DEF Started
  <2> QED
    BY <1>1, <2>1, <2>2, <2>3, <2>4, <2>5, <2>6 DEF Advance, Schedule
<1>2. ASSUME NEW c \in Callers, NEW k \in Jobs, Call(c, k) PROVE Started' /\ executed \subseteq executed'
  BY <1>2 DEF Call, Create, CancelWaiting, CancelRunning, Delete, Events, Started, Threads
<1>3. ASSUME NEW k \in Jobs, Finish(k) PROVE Started' /\ executed \subseteq executed'
  BY <1>3 DEF Finish, Started, Threads
<1>4. CASE ShutdownCancel \/ ShutdownReturn \/ Exit \/ Restart \/ UNCHANGED vars
  BY <1>4 DEF ShutdownCancel, ShutdownReturn, Exit, Restart, vars, Started, Threads
<1> QED
  BY <1>1, <1>2, <1>3, <1>4 DEF Next

(* What goes on beside a job that is not waiting and was never started.       *)
Untouched(j) ==
  /\ status'[j] = status[j] /\ disk'[j] = disk[j] /\ UNCHANGED jobs
  /\ \A t \in Threads : Writer(t, j)' => Writer(t, j)

Beside ==
  \/ \E t \in Threads : Schedule(t)
  \/ \E k \in Jobs : RunJob(k) \/ Finish(k)
  \/ ShutdownCancel \/ ShutdownReturn \/ UNCHANGED vars

LEMMA BesideLeaves ==
  ASSUME IInv, Started, Beside, NEW j \in Jobs, j \notin executed, j \in jobs => status[j] # "queued"
  PROVE  Untouched(j)
<1> USE DEF Goto, Begin, Return, memory, process, store, history, locals, IInv, TypeOK
<1>1. UNCHANGED <<jobs, disk>>
  BY DEF Beside, Schedule, SchedulePop, ScheduleStop, Spawn, RunJob, Finish, ShutdownCancel, ShutdownReturn, vars
<1>2. ASSUME NEW t \in Threads, SchedulePop(t)
      PROVE  status'[j] = status[j] /\ \A u \in Threads : Writer(u, j)' => Writer(u, j)
  <2>1. Head(queue) \in Elements(queue) /\ Head(queue) \in Jobs
    BY <1>2, QueuePop DEF QueueSound, Distinct, SchedulePop, CanStart
  <2>2. Head(queue) # j
    BY <2>1 DEF QueueSound, Queued, Elements
  <2> QED
    BY <1>2, <2>1, <2>2 DEF SchedulePop, Writer
<1>3. ASSUME NEW t \in Threads, ScheduleStop(t) \/ Spawn(t)
      PROVE  status'[j] = status[j] /\ \A u \in Threads : Writer(u, j)' => Writer(u, j)
  BY <1>3 DEF ScheduleStop, Spawn, Writer, Writing, ControlOK, Threads
<1>4. ASSUME NEW k \in Jobs, RunJob(k) \/ Finish(k)
      PROVE  status'[j] = status[j] /\ \A u \in Threads : Writer(u, j)' => Writer(u, j)
  <2>1. Finish(k) => k # j
    BY DEF Started, Finish
  <2> QED
    BY <1>4, <2>1 DEF RunJob, Finish, Writer, Writing, Threads
<1>5. CASE ShutdownCancel \/ ShutdownReturn \/ UNCHANGED vars
  BY <1>5 DEF ShutdownCancel, ShutdownReturn, vars, Untouched, Writer
<1> QED
  BY <1>1, <1>2, <1>3, <1>4, <1>5 DEF Beside, Schedule, Untouched

LEMMA WritesLeave ==
  ASSUME IInv, NEW t \in Threads, AppendEvent(t) \/ AppendEventFails(t) \/ Save(t),
         NEW j \in Jobs, ~Writer(t, j)
  PROVE  Untouched(j)
<1> USE DEF Goto, memory, process, store, history, IInv, TypeOK, Save
<1>1. arg[t] # j /\ arg[t] \in Jobs /\ pc[t] \in Writing
  BY DEF AppendEvent, AppendEventFails, SaveLookup, SaveMarshal, SaveOpen, SavePut, SaveFails, WriteFails, Writer, Writing,
     ControlOK
<1>2. UNCHANGED <<jobs, status>> /\ disk'[j] = disk[j]
  BY <1>1 DEF AppendEvent, AppendEventFails, SaveLookup, SaveMarshal, SaveOpen, SavePut, SaveFails, WriteFails
<1>3. arg'[t] # j /\ \A u \in Threads \ {t} : arg'[u] = arg[u] /\ pc'[u] = pc[u]
  BY <1>1, NamesAssumption DEF AppendEvent, AppendEventFails, SaveLookup, SaveMarshal, SaveOpen, SavePut, SaveFails, WriteFails
<1> QED
  BY <1>2, <1>3 DEF Untouched, Writer

LEMMA OthersCancel ==
  ASSUME IInv, Started, Cancels, UNCHANGED told, executed \subseteq executed',
         \A c \in Callers : own'[c] = own[c] /\ op'[c] = op[c] /\ pc'[c] = pc[c] /\ snap'[c] = snap[c],
         \/ Beside
         \/ \E t \in Threads \ Callers : AppendEvent(t) \/ AppendEventFails(t) \/ Save(t)
  PROVE  Cancels'
<1>1. ASSUME NEW c \in Callers, NEW j \in Jobs, own[c] = j, j \notin executed, op[c] = "canceling"
      PROVE  status'[j] = status[j]
  <2>1. status[j] = "canceling"
    BY <1>1 DEF Cancels
  <2>2. CASE Beside
    BY <1>1, <2>1, <2>2, BesideLeaves DEF Untouched
  <2>3. CASE ~Beside
    BY <2>3 DEF AppendEvent, AppendEventFails, Save, SaveLookup, SaveMarshal, SaveOpen, SavePut, SaveFails, WriteFails, memory
  <2> QED
    BY <2>2, <2>3
<1>2. ASSUME NEW c \in Callers, NEW j \in Jobs, own[c] = j, j \notin executed, op[c] = "canceled"
      PROVE  Untouched(j)
  <2>1. status[j] = "canceled" /\ \A t \in Threads \ {c} : ~Writer(t, j)
    BY <1>2 DEF Cancels
  <2>2. CASE Beside
    BY <1>2, <2>1, <2>2, BesideLeaves
  <2>3. CASE ~Beside
    BY <2>1, <2>3, WritesLeave
  <2> QED
    BY <2>2, <2>3
<1> SUFFICES ASSUME NEW c \in Callers, NEW j \in Jobs, own'[c] = j
             PROVE  /\ op'[c] = "created" => told'[j] = "pending"
                    /\ op'[c] = "canceling" /\ j \notin executed' => status'[j] = "canceling"
                    /\ op'[c] = "canceled" /\ j \notin executed' =>
                         /\ status'[j] = "canceled" /\ \A t \in Threads \ {c} : ~Writer(t, j)'
                         /\ pc'[c] \in {"marshal", "open", "put"} => snap'[c] = "canceled"
                         /\ pc'[c] \in {"put", "reply"} => Unmarked(j)'
  BY DEF Cancels
<1>3. CASE op[c] = "canceled"
  BY <1>2, <1>3 DEF Cancels, Untouched, Unmarked
<1>4. CASE op[c] # "canceled"
  BY <1>1, <1>4 DEF Cancels
<1> QED
  BY <1>3, <1>4

LEMMA WritesCancel ==
  ASSUME OneCaller, "disk" \notin Faults, IInv, Holds, Deletes, Cancels, NEW c \in Callers,
         AppendEvent(c) \/ AppendEventFails(c) \/ Save(c)
  PROVE  Cancels'
<1> USE DEF Goto, memory, process, store, history, Save, IInv, TypeOK
<1>a. c \in Threads /\ \A d \in Callers : d = c
  BY DEF Threads, OneCaller
<1>1. CASE own'[c] = NoJob
  BY <1>1, <1>a, NamesAssumption DEF Cancels
<1>2. CASE own'[c] # NoJob
  <2>1. UNCHANGED <<own, op, arg, told, status, executed, jobs>>
    BY <1>2, <1>a DEF AppendEvent, AppendEventFails, SaveLookup, SaveMarshal, SaveOpen, SavePut, SaveFails, WriteFails
  <2>2. \A t \in Threads \ {c} : pc'[t] = pc[t]
    BY DEF AppendEvent, AppendEventFails, SaveLookup, SaveMarshal, SaveOpen, SavePut, SaveFails, WriteFails
  <2>3. ASSUME NEW j \in Jobs, own[c] = j, op[c] = "canceled", j \notin executed
        PROVE  /\ pc'[c] \in {"marshal", "open", "put"} => snap'[c] = "canceled"
               /\ pc'[c] \in {"put", "reply"} => Unmarked(j)'
    <3>1. arg[c] = j /\ j \in jobs /\ AfterAppend(op[c]) = "lookup" /\ AfterSave(op[c]) = "reply"
      BY <2>3, NamesAssumption DEF Holds, HandlerHolds, HandlerOps, Deletes, Served, AfterAppend, AfterSave
    <3>2. /\ status[j] = "canceled" /\ (pc[c] \in {"marshal", "open", "put"} => snap[c] = "canceled")
          /\ (pc[c] \in {"put", "reply"} => Unmarked(j))
      BY <2>3 DEF Cancels
    <3>3. CASE AppendEvent(c) \/ AppendEventFails(c) \/ SaveLookup(c) \/ SaveMarshal(c)
      BY <1>a, <3>1, <3>2, <3>3 DEF AppendEvent, AppendEventFails, SaveLookup, SaveMarshal
    <3>4. CASE SaveOpen(c)
      BY <1>a, <3>1, <3>2, <3>4 DEF SaveOpen, Unmarked
    <3>5. CASE SavePut(c)
      BY <1>a, <3>1, <3>2, <3>5 DEF SavePut, Unmarked
    <3>6. CASE SaveFails(c)
      BY <1>a, <2>3, <3>1, <3>2, <3>6 DEF SaveFails, WriteFails, Unmarked, Holds, Dirs
    <3> QED
      BY <3>3, <3>4, <3>5, <3>6
  <2>4. \A j \in Jobs : \A t \in Threads \ {c} : Writer(t, j)' => Writer(t, j)
    BY <2>1, <2>2 DEF Writer
  <2> QED
    BY <1>a, <2>1, <2>3, <2>4 DEF Cancels
<1> QED
  BY <1>1, <1>2

LEMMA HandlersCancel ==
  ASSUME OneCaller, IInv, Holds, Cancels, NEW c \in Callers, Handle(c) \/ Schedule(c)
  PROVE  Cancels'
<1> USE DEF Goto, Begin, Return, memory, process, store, history, IInv, TypeOK
<1>a. c \in Threads /\ \A d \in Callers : d = c
  BY DEF Threads, OneCaller
<1>1. CASE EnsureJobFilesFails(c) \/ Reply(c) \/ RemoveDir(c) \/ RemoveFails(c) \/ OpenEvents(c)
  <2>1. own'[c] = NoJob
    BY <1>1, <1>a DEF EnsureJobFilesFails, Reply, RemoveDir, RemoveFails, OpenEvents
  <2> QED
    BY <2>1, <1>a, NamesAssumption DEF Cancels
<1>2. CASE EnsureJobFiles(c) \/ Signal(c)
  <2>1. UNCHANGED <<own, op, told, status, executed>> /\ op[c] \in {"created", "canceling"}
    BY <1>2, <1>a DEF EnsureJobFiles, Signal, ControlOK
  <2> QED
    BY <1>a, <2>1 DEF Cancels
<1>3. CASE RemoveEntries(c) \/ Enqueue(c) \/ Schedule(c)
  <2>1. op'[c] \notin {"created", "canceling", "canceled"}
    BY <1>3, <1>a DEF RemoveEntries, Enqueue, Schedule, SchedulePop, ScheduleStop, Spawn, ControlOK, Holds,
       HandlerHolds, Writing
  <2> QED
    BY <1>a, <2>1 DEF Cancels
<1> QED
  BY <1>1, <1>2, <1>3 DEF Handle

LEMMA CallsCancel ==
  ASSUME OneCaller, IInv, Holds, Started, Cancels, NEW c \in Callers, NEW j \in Jobs, Call(c, j)
  PROVE  Cancels'
<1> USE DEF Begin, Receive, memory, process, store, history, IInv, TypeOK
<1>a. c \in Threads /\ (\A d \in Callers : d = c) /\ c # Main /\ c \notin Jobs
  BY NamesAssumption DEF Threads, OneCaller
<1>1. CASE Create(c, j)
  BY <1>1, <1>a DEF Create, Cancels
<1>2. CASE CancelWaiting(c, j)
  <2>1. /\ own'[c] = j /\ op'[c] = "canceled" /\ pc'[c] = "append" /\ status'[j] = "canceled"
        /\ \A t \in Threads \ {c} : arg'[t] = arg[t] /\ pc'[t] = pc[t]
    BY <1>2, <1>a DEF CancelWaiting
  <2>2. ASSUME j \notin executed, NEW t \in Threads \ {c}, Writer(t, j)  PROVE FALSE
    <3>1. t # Main
      BY <1>2, <2>2 DEF CancelWaiting, Serving, Writer, Writing
    <3>2. t \in Jobs
      BY <1>a, <2>2, <3>1 DEF Threads
    <3>3. t # j
      BY <2>2, NamesAssumption DEF Started, Writer, Writing
    <3>4. op[t] = "started"
      BY <2>2, <3>2, <3>3, NamesAssumption DEF Holds, Foreign, Writer
    <3> QED
      BY <1>2, <2>2, <3>2, <3>4 DEF SlotsOwned, Starter, Writer, CancelWaiting, ActiveStatuses
  <2>3. UNCHANGED executed
    BY <1>2 DEF CancelWaiting
  <2>4. \A t \in Threads \ {c} : Writer(t, j)' => Writer(t, j)
    BY <2>1 DEF Writer
  <2> QED
    BY <1>a, <2>1, <2>2, <2>3, <2>4 DEF Cancels
<1>3. CASE CancelRunning(c, j)
  BY <1>3, <1>a DEF CancelRunning, Cancels
<1>4. CASE Delete(c, j)
  BY <1>4, <1>a DEF Delete, Cancels
<1>5. CASE Events(c, j)
  <2>1. own'[c] = NoJob
    BY <1>5, <1>a DEF Events, Holds, Resting
  <2> QED
    BY <2>1, <1>a, NamesAssumption DEF Cancels
<1> QED
  BY <1>1, <1>2, <1>3, <1>4, <1>5 DEF Call

LEMMA CancelsKeep ==
  ASSUME OneCaller, "disk" \notin Faults, IInv, Holds, Deletes, Started, Cancels, [Next]_vars
  PROVE  Cancels'
<1> USE NamesAssumption DEF Goto, Begin, Return, memory, process, store, history, locals
<1>0. executed \subseteq executed'
  BY StartedKeeps
<1>1. CASE Exit \/ Restart \/ Recover
  BY <1>1, NobodyAsks DEF Cancels
<1>2. ASSUME NEW t \in Threads \ Callers, AppendEvent(t) \/ AppendEventFails(t) \/ Save(t)
      PROVE  Cancels'
  <2>1. /\ \A c \in Callers : own'[c] = own[c] /\ op'[c] = op[c] /\ pc'[c] = pc[c] /\ snap'[c] = snap[c]
        /\ UNCHANGED told
    BY <1>2 DEF AppendEvent, AppendEventFails, Save, SaveLookup, SaveMarshal, SaveOpen, SavePut, SaveFails, WriteFails, IInv,
       TypeOK, ControlOK, Threads
  <2> QED
    BY <1>0, <1>2, <2>1, OthersCancel
<1>3. ASSUME \/ \E t \in Threads \ Callers : Schedule(t)
             \/ \E k \in Jobs : RunJob(k) \/ Finish(k)
             \/ ShutdownCancel \/ ShutdownReturn \/ UNCHANGED vars
      PROVE  Cancels'
  <2>1. Beside
    BY <1>3 DEF Beside
  <2>2. UNCHANGED told
    BY <1>3 DEF Schedule, SchedulePop, ScheduleStop, Spawn, RunJob, Finish, ShutdownCancel, ShutdownReturn, vars
  <2>3. \A c \in Callers : own'[c] = own[c] /\ op'[c] = op[c] /\ pc'[c] = pc[c] /\ snap'[c] = snap[c]
    BY <1>3 DEF Schedule, SchedulePop, ScheduleStop, Spawn, RunJob, Finish, ShutdownCancel, ShutdownReturn, vars, IInv,
       TypeOK, ControlOK, Threads
  <2> QED
    BY <1>0, <2>1, <2>2, <2>3, OthersCancel
<1>4. ASSUME NEW t \in Threads, Advance(t) PROVE Cancels'
  <2>1. CASE t \in Callers
    BY <1>1, <1>4, <2>1, WritesCancel, HandlersCancel DEF Advance
  <2>2. CASE t \notin Callers
    BY <1>1, <1>2, <1>3, <1>4, <2>2 DEF Advance
  <2> QED
    BY <2>1, <2>2
<1> QED
  BY <1>1, <1>3, <1>4, CallsCancel DEF Next

LEMMA RepliesNever ==
  ASSUME OneCaller, IInv, Holds, Deletes, Cancels, Never, NEW c \in Callers, Reply(c)
  PROVE  Never'
<1> USE NamesAssumption DEF Reply, Return, memory, process, store, IInv, TypeOK
<1>a. c \in Threads /\ UNCHANGED <<jobs, status, disk, executed>>
  BY DEF Threads
<1>1. ASSUME NEW t \in Threads, NEW j \in Jobs, Writer(t, j)' PROVE t # c /\ Writer(t, j)
  BY <1>1, <1>a DEF Writer, Writing
<1>2. ASSUME NEW j \in Jobs, told'[j] = "canceled", told[j] # "canceled", j \notin executed
      PROVE  status[j] = "canceled" /\ Unmarked(j) /\ \A t \in Threads \ {c} : ~Writer(t, j)
  <2>1. own[c] = j /\ j \in jobs /\ status[j] = "canceled" /\ op[c] \in {"canceled", "canceling"}
    BY <1>2
  <2>2. op[c] = "canceled"
    BY <1>2, <2>1 DEF Cancels
  <2> QED
    BY <1>2, <2>1, <2>2 DEF Cancels
<1> QED
  BY <1>a, <1>1, <1>2 DEF Never, Unmarked

LEMMA RestNever ==
  ASSUME Never, executed \subseteq executed', \A j \in Jobs : told'[j] = "canceled" => told[j] = "canceled",
         \A j \in Jobs : told[j] = "canceled" /\ j \notin executed => Untouched(j)
  PROVE  Never'
BY DEF Never, Untouched, Unmarked

LEMMA HandlersNever ==
  ASSUME OneCaller, IInv, Holds, Deletes, Cancels, Never, NEW c \in Callers, Handle(c)
  PROVE  Never'
<1> USE NamesAssumption DEF Goto, Begin, Return, memory, process, store, history, IInv, TypeOK
<1>a. c \in Threads
  BY DEF Threads
<1>1. CASE EnsureJobFiles(c) \/ Enqueue(c)
  <2>1. op[c] = "created" /\ arg[c] \in Jobs /\ own[c] = arg[c]
    BY <1>1, <1>a DEF EnsureJobFiles, Enqueue, ControlOK, Holds, HandlerHolds, HandlerOps
  <2>2. told[arg[c]] = "pending"
    BY <2>1 DEF Cancels
  <2>3. \A j \in Jobs : told[j] = "canceled" => Untouched(j)
    BY <1>1, <1>a, <2>1, <2>2 DEF EnsureJobFiles, Enqueue, Untouched, Writer
  <2> QED
    BY <1>1, <2>3, RestNever DEF EnsureJobFiles, Enqueue
<1>2. CASE Signal(c)
  <2>1. op[c] = "canceling" /\ arg[c] \in Jobs /\ own[c] = arg[c]
    BY <1>2, <1>a DEF Signal, ControlOK, Holds, HandlerHolds, HandlerOps
  <2>2. own[c] \in jobs /\ (own[c] \notin executed => status[own[c]] = "canceling")
    BY <2>1 DEF Cancels, Deletes, Served
  <2>3. \A j \in Jobs : told[j] = "canceled" /\ j \notin executed => arg[c] # j
    BY <2>1, <2>2 DEF Never
  <2>4. \A j \in Jobs : told[j] = "canceled" /\ j \notin executed => Untouched(j)
    BY <1>2, <1>a, <2>3 DEF Signal, Untouched, Writer
  <2> QED
    BY <1>2, <2>4, RestNever DEF Signal
<1>3. CASE EnsureJobFilesFails(c) \/ RemoveDir(c) \/ RemoveFails(c) \/ OpenEvents(c)
  <2>1. /\ UNCHANGED <<jobs, status, disk, executed>>
        /\ \A j \in Jobs : told'[j] = "canceled" => told[j] = "canceled"
    BY <1>3 DEF EnsureJobFilesFails, RemoveDir, RemoveFails, OpenEvents
  <2>2. \A j \in Jobs, t \in Threads : Writer(t, j)' => Writer(t, j)
    BY <1>3, <1>a DEF EnsureJobFilesFails, RemoveDir, RemoveFails, OpenEvents, Writer, Writing
  <2> QED
    BY <2>1, <2>2, RestNever DEF Untouched
<1>4. CASE RemoveEntries(c)
  <2>1. \A j \in Jobs, t \in Threads : Writer(t, j)' => Writer(t, j)
    BY <1>4, <1>a DEF RemoveEntries, Writer, Writing
  <2>2. /\ UNCHANGED <<jobs, status, told, executed>>
        /\ \A j \in Jobs : disk'[j] \in {"none", disk[j]}
    BY <1>4 DEF RemoveEntries
  <2> QED
    BY <2>1, <2>2 DEF Never, Unmarked
<1> QED
  BY <1>1, <1>2, <1>3, <1>4, RepliesNever DEF Handle

LEMMA CallsNever ==
  ASSUME IInv, Holds, Never, NEW c \in Callers, NEW k \in Jobs, Call(c, k)
  PROVE  Never'
<1> USE NamesAssumption DEF Begin, Receive, memory, process, store, history, IInv, TypeOK
<1>a. c \in Threads /\ UNCHANGED <<disk, executed>>
  BY DEF Threads, Call, Create, CancelWaiting, CancelRunning, Delete, Events
<1>1. CASE Events(c, k)
  <2>1. \A j \in Jobs, t \in Threads : Writer(t, j)' => Writer(t, j)
    BY <1>1, <1>a DEF Events, Writer, Writing
  <2> QED
    BY <1>1, <2>1 DEF Events, Never, Unmarked
<1>2. CASE ~Events(c, k)
  <2>1. \A j \in Jobs : told'[j] = "canceled" /\ j \notin executed' => told[j] = "canceled" /\ j # k
    BY <1>2, <1>a DEF Call, Create, CancelWaiting, CancelRunning, Delete, Never
  <2>2. \A j \in Jobs \ {k} : status'[j] = status[j] /\ (j \in jobs' <=> j \in jobs)
    BY <1>2, <1>a DEF Call, Create, CancelWaiting, CancelRunning, Delete
  <2>3. \A j \in Jobs \ {k}, t \in Threads : Writer(t, j)' => Writer(t, j)
    BY <1>2, <1>a DEF Call, Create, CancelWaiting, CancelRunning, Delete, Writer
  <2> QED
    BY <1>a, <2>1, <2>2, <2>3 DEF Never, Unmarked
<1> QED
  BY <1>1, <1>2

LEMMA ProcessNever ==
  ASSUME IInv, Never, Exit \/ Restart \/ Recover
  PROVE  Never'
<1> USE NamesAssumption DEF Goto, Begin, memory, process, store, history, locals, IInv, TypeOK
<1>a. Main \in Threads /\ UNCHANGED <<disk, told, executed>>
  BY DEF Threads, Exit, Restart, Recover, RecoverSkip, RecoverInterrupted, RecoverWaiting, RecoverSettled, RecoverDone,
     Visit
<1>1. CASE Exit \/ Restart \/ RecoverDone
  <2>1. \A j \in Jobs, t \in Threads : Writer(t, j)' => Writer(t, j)
    BY <1>1, <1>a DEF Exit, Restart, RecoverDone, Writer, Writing
  <2> QED
    BY <1>1, <1>a, <2>1 DEF Exit, Restart, RecoverDone, Never, Unmarked
<1>2. ASSUME NEW k \in Jobs, RecoverSkip(k) \/ RecoverInterrupted(k) \/ RecoverWaiting(k) \/ RecoverSettled(k)
      PROVE  Never'
  <2>1. \A j \in Jobs \ {k} : status'[j] = status[j] /\ (j \in jobs' <=> j \in jobs)
    BY <1>2 DEF RecoverSkip, RecoverInterrupted, RecoverWaiting, RecoverSettled, Visit
  <2>2. \A j \in Jobs \ {k}, t \in Threads : Writer(t, j)' => Writer(t, j)
    BY <1>2, <1>a DEF RecoverSkip, RecoverInterrupted, RecoverWaiting, RecoverSettled, Writer
  <2>3. CASE RecoverSkip(k) \/ RecoverSettled(k)
    <3>1. UNCHANGED locals /\ (k \in jobs' /\ k \notin jobs => status'[k] = disk[k] /\ disk[k] \notin {"none", "torn"})
      BY <2>3 DEF RecoverSkip, RecoverSettled, TerminalStatuses
    <3>2. status'[k] \in {status[k], disk[k]} /\ (status'[k] # status[k] => disk[k] \notin {"none", "torn"})
      BY <2>3 DEF RecoverSkip, RecoverSettled, TerminalStatuses
    <3>3. \A t \in Threads : Writer(t, k)' => Writer(t, k)
      BY <3>1 DEF Writer
    <3> QED
      BY <1>a, <2>1, <2>2, <3>1, <3>2, <3>3 DEF Never, Unmarked
  <2>4. CASE RecoverInterrupted(k) \/ RecoverWaiting(k)
    <3>1. ~Unmarked(k)
      BY <2>4 DEF RecoverInterrupted, RecoverWaiting, Unmarked, ActiveStatuses
    <3> QED
      BY <1>a, <2>1, <2>2, <3>1 DEF Never, Unmarked
  <2> QED
    BY <1>2, <2>3, <2>4
<1> QED
  BY <1>1, <1>2 DEF Recover

LEMMA NeverKeeps ==
  ASSUME OneCaller, IInv, Holds, Deletes, Started, Cancels, Never, [Next]_vars
  PROVE  Never'
<1>0. executed \subseteq executed'
  BY StartedKeeps
<1>1. ASSUME NEW t \in Threads, AppendEvent(t) \/ AppendEventFails(t) \/ Save(t)
      PROVE  Never'
  <2>1. \A j \in Jobs : told[j] = "canceled" /\ j \notin executed => Untouched(j)
    BY <1>1, WritesLeave DEF Never
  <2>2. \A j \in Jobs : told'[j] = "canceled" => told[j] = "canceled"
    BY <1>1 DEF AppendEvent, AppendEventFails, Save, SaveLookup, SaveMarshal, SaveOpen, SavePut, SaveFails, WriteFails, history,
       IInv, TypeOK
  <2> QED
    BY <1>0, <2>1, <2>2, RestNever
<1>2. CASE Beside
  <2>1. \A j \in Jobs : told[j] = "canceled" /\ j \notin executed => Untouched(j)
    BY <1>2, BesideLeaves DEF Never
  <2>2. UNCHANGED told
    BY <1>2 DEF Beside, Schedule, SchedulePop, ScheduleStop, Spawn, RunJob, Finish, ShutdownCancel, ShutdownReturn,
       history, vars
  <2> QED
    BY <1>0, <2>1, <2>2, RestNever
<1>3. CASE Exit \/ Restart \/ Recover
  BY <1>3, ProcessNever
<1>4. ASSUME NEW t \in Threads, Advance(t) PROVE Never'
  BY <1>1, <1>2, <1>3, <1>4, HandlersNever DEF Advance, Beside
<1> QED
  BY <1>2, <1>3, <1>4, CallsNever DEF Next, Beside

LEMMA InitNever == Init => Started /\ Cancels /\ Never
BY NamesAssumption DEF Init, Started, Cancels, Never, Unmarked, Threads

LEMMA OnlyRunJobExecutes ==
  ASSUME [Next]_vars, NEW j \in Jobs, j \in executed'
  PROVE  j \in executed \/ RunJob(j)
<1> USE DEF history
<1>1. ASSUME NEW t \in Threads, Advance(t) PROVE UNCHANGED executed \/ (t \in Jobs /\ RunJob(t))
  <2>1. AppendEvent(t) \/ AppendEventFails(t) \/ Save(t) \/ Schedule(t) => UNCHANGED executed
    BY DEF AppendEvent, AppendEventFails, Save, SaveLookup, SaveMarshal, SaveOpen, SavePut, SaveFails, WriteFails, Schedule,
       SchedulePop, ScheduleStop, Spawn
  <2>2. Handle(t) => UNCHANGED executed
    BY DEF Handle, EnsureJobFiles, EnsureJobFilesFails, Enqueue, Signal, Reply, RemoveEntries, RemoveDir, RemoveFails,
       OpenEvents
  <2>3. Recover => UNCHANGED executed
    BY DEF Recover, RecoverSkip, RecoverInterrupted, RecoverWaiting, RecoverSettled, RecoverDone, Visit
  <2> QED
    BY <1>1, <2>1, <2>2, <2>3 DEF Advance
<1>2. ASSUME NEW c \in Callers, NEW k \in Jobs, Call(c, k) PROVE UNCHANGED executed
  BY <1>2 DEF Call, Create, CancelWaiting, CancelRunning, Delete, Events
<1>3. ASSUME NEW k \in Jobs, Finish(k) PROVE UNCHANGED executed
  BY <1>3 DEF Finish
<1>4. CASE ShutdownCancel \/ ShutdownReturn \/ Exit \/ Restart \/ UNCHANGED vars
  BY <1>4 DEF ShutdownCancel, ShutdownReturn, Exit, Restart, vars
<1>5. ASSUME NEW k \in Jobs, RunJob(k) PROVE j \in executed \/ k = j
  BY <1>5 DEF RunJob
<1> QED
  BY <1>1, <1>2, <1>3, <1>4, <1>5 DEF Next

(* With the requests of one client at a time and a disk that does not fail,   *)
(* RunJob is not called for a job after its cancel was answered with canceled,*)
(* in no life of the daemon.                                                  *)
THEOREM CanceledNeverStartsHolds ==
  ASSUME OneCaller, "disk" \notin Faults
  PROVE  Spec => CanceledNeverStarts
<1>1. Init => Holds /\ Deletes /\ Started /\ Cancels /\ Never
  BY InitHolds, InitDeletes, InitNever
<1>2. /\ IInv /\ Holds /\ Deletes /\ Started /\ Cancels /\ Never /\ [Next]_vars
      => Holds' /\ Deletes' /\ Started' /\ Cancels' /\ Never'
  BY HoldsKeep, DeletesKeep, StartedKeeps, CancelsKeep, NeverKeeps
<1>3. ASSUME IInv, Never, [Next]_vars, NEW j \in Jobs, told[j] = "canceled", j \in executed'
      PROVE  j \in executed
  <2>1. SUFFICES ASSUME RunJob(j), j \notin executed PROVE FALSE
    <3>1. j \in executed \/ RunJob(j)
      BY <1>3, OnlyRunJobExecutes
    <3> QED
      BY <3>1
  <2>2. status[j] = "canceled" \/ j \notin jobs
    BY <1>3, <2>1 DEF Never
  <2>3. j \in jobs /\ status[j] \in ActiveStatuses
    BY <1>3, <2>1 DEF RunJob, IInv, SlotsOwned, Running
  <2> QED
    BY <2>2, <2>3 DEF ActiveStatuses
<1>4. IInv /\ Never /\ [Next]_vars =>
        [\A j \in Jobs : told[j] = "canceled" /\ j \in executed' => j \in executed]_vars
  BY <1>3
<1> QED
  BY <1>1, <1>2, <1>4, Invariance, PTL DEF Spec, CanceledNeverStarts
=============================================================================
