----------------------------- MODULE JobManager -----------------------------
(* The job manager of the Go daemon (internal/jobs: manager.go, scheduler.go, *)
(* store.go, state.go).  Goroutines share the maps of Manager under one mutex *)
(* and write two files per job outside of it.  A step of a thread is one      *)
(* critical section, or one file operation made without the mutex.            *)
(*                                                                            *)
(* Threads are the HTTP handlers (Callers), the goroutine that runs NewManager*)
(* (Main), and for every job the goroutine `go m.run(..)`, which has the name *)
(* of its job.  The job map holds pointers: status[j] is the status field of  *)
(* the Job object, which outlives its entry in the map for a thread that has  *)
(* the pointer already.                                                       *)
EXTENDS Naturals, Sequences, FiniteSets

CONSTANTS Jobs,        \* the job ids newJobID may return, never the same twice
          Callers,     \* the HTTP handler goroutines
          Main,        \* the goroutine that runs NewManager
          NoJob,       \* not a job
          MaxRunning,  \* max_running_jobs, 1 by default
          Faults       \* which of "crash", "disk" and "stop" may happen

ASSUME NamesAssumption == /\ Callers \cap Jobs = {}
                          /\ Main \notin Callers \cup Jobs
                          /\ NoJob \notin Jobs
ASSUME LimitAssumption == MaxRunning \in Nat \ {0}
ASSUME FaultsAssumption == Faults \subseteq {"crash", "disk", "stop"}

Threads == Callers \cup Jobs \cup {Main}

TerminalStatuses == {"succeeded", "failed", "canceled", "interrupted"}
ActiveStatuses == {"running", "canceling"}

(* "garbled" is a status string that was read while it was being written and  *)
(* matches no constant; a job file is missing, unreadable, or has a status.   *)
Statuses == {"created", "queued", "garbled"} \cup ActiveStatuses \cup TerminalStatuses
FileContents == {"none", "torn"} \cup Statuses

(* The transition whose event and job file a thread is writing.               *)
Ops == {"none", "created", "queued", "started", "canceled", "canceling",
        "finished", "interrupted", "requeued", "deleted"}

ProgramPoints == {"idle", "files", "append", "lookup", "marshal", "open", "put",
                  "enqueue", "signal", "schedule", "spawn", "get", "runner",
                  "unlink", "rmdir", "events", "recover", "reply"}

VARIABLES
  jobs,       \* the keys of m.jobs
  status,     \* the Status field of each Job object
  queue,      \* m.queue
  running,    \* the keys of m.running
  requests,   \* m.requests: absent, as the client sent it, or as read back from disk
  eventLogs,  \* the keys of m.eventLogs
  signaled,   \* the jobs whose own context is canceled
  daemon,     \* the process: "up", "stopping" (m.ctx canceled), "stopped", "down"
  todo,       \* the directory entries recoverJobs has not visited yet
  files,      \* what is in the directory of a job besides job.json
  disk,       \* job.json of each job
  pc, arg, own, op, snap,  \* per thread: where it is, the job it writes, the job
                           \* its request is about, the transition, the JSON it holds
  told,       \* what the clients were answered about a job
  executed,   \* the jobs RunJob was called for, in any life of the daemon
  spoiled     \* the jobs of whose job.json a write left a part (see Spoiling)

memory == <<jobs, status, queue, running, requests, eventLogs, signaled>>
process == <<daemon, todo>>
store == <<files, disk>>
locals == <<pc, arg, own, op, snap>>
history == <<told, executed, spoiled>>
vars == <<memory, process, store, locals, history>>

Init ==
  /\ jobs = {} /\ running = {} /\ eventLogs = {} /\ signaled = {}
  /\ queue = <<>>
  /\ status = [j \in Jobs |-> "created"]
  /\ requests = [j \in Jobs |-> "none"]
  /\ daemon = "up" /\ todo = {}
  /\ files = [j \in Jobs |-> {}]
  /\ disk = [j \in Jobs |-> "none"]
  /\ pc = [t \in Threads |-> "idle"]
  /\ arg = [t \in Threads |-> NoJob]
  /\ own = [t \in Threads |-> NoJob]
  /\ op = [t \in Threads |-> "none"]
  /\ snap = [t \in Threads |-> "none"]
  /\ told = [j \in Jobs |-> "unborn"]
  /\ executed = {} /\ spoiled = {}

------------------------------------------------------------------------------
(* Control of a thread.                                                       *)

Goto(t, point) == /\ pc' = [pc EXCEPT ![t] = point]
                  /\ UNCHANGED <<arg, own, op, snap>>

(* Begin transition o of job j at a program point.                            *)
Begin(t, point, o, j) == /\ pc' = [pc EXCEPT ![t] = point]
                         /\ op' = [op EXCEPT ![t] = o]
                         /\ arg' = [arg EXCEPT ![t] = j]
                         /\ UNCHANGED <<own, snap>>

Receive(t, point, o, j) == /\ pc' = [pc EXCEPT ![t] = point]
                           /\ op' = [op EXCEPT ![t] = o]
                           /\ arg' = [arg EXCEPT ![t] = j]
                           /\ own' = [own EXCEPT ![t] = j]
                           /\ UNCHANGED snap

Return(t) == /\ pc' = [pc EXCEPT ![t] = "idle"]
             /\ op' = [op EXCEPT ![t] = "none"]
             /\ arg' = [arg EXCEPT ![t] = NoJob]
             /\ own' = [own EXCEPT ![t] = NoJob]
             /\ UNCHANGED snap

AfterAppend(o) == CASE o = "created" -> "enqueue"
                    [] o = "canceling" -> "signal"
                    [] OTHER -> "lookup"

(* Faulty: run ends without a call of schedule.                               *)
AfterSaveNoSchedule(o) == CASE o = "created" -> "append"
                            [] o = "queued" -> "schedule"
                            [] o = "started" -> "spawn"
                            [] o \in {"interrupted", "requeued"} -> "recover"
                            [] o = "finished" -> "idle"
                            [] OTHER -> "reply"

AfterSave(o) == CASE o = "created" -> "append"
                  [] o \in {"queued", "finished"} -> "schedule"
                  [] o = "started" -> "spawn"
                  [] o \in {"interrupted", "requeued"} -> "recover"
                  [] OTHER -> "reply"     \* canceled, canceling

Serving == daemon # "down" /\ pc[Main] = "idle"

------------------------------------------------------------------------------
(* saveJob and appendEvent, shared by every transition.                       *)

(* appendEvent for job arg[t].  eventStore makes the directory again when the *)
(* map has no store for the job; a cached store only opens its file.          *)
AppendEvent(t) ==
  LET j == arg[t] IN
  /\ pc[t] = "append"
  /\ eventLogs' = eventLogs \cup {j}
  /\ files' = [files EXCEPT ![j] =
                 IF j \notin eventLogs THEN @ \cup {"dir", "events"}
                 ELSE IF "dir" \in @ THEN @ \cup {"events"} ELSE @]
  /\ Goto(t, AfterAppend(op[t]))
  /\ UNCHANGED <<jobs, status, queue, running, requests, signaled, process, disk, history>>

(* The store cannot be opened, or its file not be made or not be written whole:*)
(* no one is told.                                                            *)
AppendEventFails(t) ==
  LET j == arg[t]
      open == IF j \in eventLogs THEN files[j] ELSE files[j] \cup {"dir"} IN
  /\ "disk" \in Faults
  /\ pc[t] = "append"
  /\ \/ /\ UNCHANGED eventLogs
        /\ \E left \in {files[j], open} : files' = [files EXCEPT ![j] = left]
     \/ /\ eventLogs' = eventLogs \cup {j}
        /\ \E left \in {open} \cup (IF "dir" \in open THEN {open \cup {"events"}} ELSE {}) :
              files' = [files EXCEPT ![j] = left]
  /\ Goto(t, AfterAppend(op[t]))
  /\ UNCHANGED <<jobs, status, queue, running, requests, signaled, process, disk, history>>

(* saveJob takes the pointer under the mutex, and has nothing to do when the  *)
(* job was deleted.                                                           *)
SaveLookup(t) ==
  /\ pc[t] = "lookup"
  /\ IF arg[t] \in jobs
     THEN /\ snap' = [snap EXCEPT ![t] = status[arg[t]]]
          /\ pc' = [pc EXCEPT ![t] = "marshal"]
     ELSE /\ pc' = [pc EXCEPT ![t] = AfterSave(op[t])]
          /\ UNCHANGED snap
  /\ UNCHANGED <<arg, own, op, memory, process, store, history>>

(* MarshalIndent reads the object after the unlock: the status it sees is the *)
(* present one, or neither when a writer is at work on it.                    *)
SaveMarshal(t) ==
  LET j == arg[t] IN
  /\ pc[t] = "marshal"
  /\ \E seen \in {status[j]} \cup (IF status[j] # snap[t] THEN {"garbled"} ELSE {}) :
        snap' = [snap EXCEPT ![t] = seen]
  /\ pc' = [pc EXCEPT ![t] = "open"]
  /\ UNCHANGED <<arg, own, op, memory, process, store, history>>

(* Spoiling: what leaves a job.json that is not the whole text of one write.  *)
(* The process ends inside of the write (Exit), the disk is full between the  *)
(* truncation and the text (SaveFails), or a second write has begun before the*)
(* first one ended (SaveOpen).  A later write that is alone makes it whole.   *)
AnotherWrites(t) == \E u \in Threads \ {t} : pc[u] = "put" /\ arg[u] = arg[t]

(* os.WriteFile truncates first ...                                           *)
SaveOpen(t) ==
  LET j == arg[t] IN
  /\ pc[t] = "open"
  /\ "dir" \in files[j]
  /\ disk' = [disk EXCEPT ![j] = "torn"]
  /\ spoiled' = IF AnotherWrites(t) THEN spoiled \cup {j} ELSE spoiled
  /\ Goto(t, "put")
  /\ UNCHANGED <<files, memory, process, told, executed>>

(* ... and writes next.  A file unlinked since is lost; over what another     *)
(* writer put there since, the longer of the two texts leaves its tail.       *)
SavePut(t) ==
  LET j == arg[t] IN
  /\ pc[t] = "put"
  /\ \E left \in CASE disk[j] = "none" -> {"none"}
                     [] disk[j] = "torn" -> {snap[t]}
                     [] OTHER -> {snap[t], "torn"} :
        /\ disk' = [disk EXCEPT ![j] = left]
        /\ spoiled' = IF left = snap[t] /\ ~AnotherWrites(t) THEN spoiled \ {j} ELSE spoiled
  /\ pc' = [pc EXCEPT ![t] = AfterSave(op[t])]
  /\ snap' = [snap EXCEPT ![t] = "none"]
  /\ UNCHANGED <<arg, own, op, files, memory, process, told, executed>>

(* What WriteFile leaves on disk when it fails: nothing new without the       *)
(* directory or when the disk does not let it open the file; when the disk is *)
(* full after that, the truncated file, or a piece of the text in it.         *)
WriteFails(t) ==
  LET j == arg[t] IN
  \/ /\ pc[t] = "open"
     /\ "dir" \notin files[j] \/ "disk" \in Faults
     /\ UNCHANGED <<disk, spoiled>>
  \/ /\ pc[t] = "put" /\ "disk" \in Faults
     /\ \E left \in IF disk[j] = "none" THEN {"none"} ELSE {disk[j], "torn"} :
           disk' = [disk EXCEPT ![j] = left]
     /\ spoiled' = spoiled \cup {j}

(* Only Create looks at the error.                                            *)
SaveFails(t) ==
  /\ WriteFails(t)
  /\ snap' = [snap EXCEPT ![t] = "none"]
  /\ IF op[t] = "created"
     THEN /\ pc' = [pc EXCEPT ![t] = "idle"]
          /\ op' = [op EXCEPT ![t] = "none"]
          /\ arg' = [arg EXCEPT ![t] = NoJob]
          /\ own' = [own EXCEPT ![t] = NoJob]
          /\ told' = [told EXCEPT ![own[t]] = "rejected"]
     ELSE /\ pc' = [pc EXCEPT ![t] = AfterSave(op[t])]
          /\ UNCHANGED <<arg, own, op, told>>
  /\ UNCHANGED <<files, memory, process, executed>>

------------------------------------------------------------------------------
(* Create: the job is in the map, for anyone to see, before its files exist   *)
(* and before it is queued.                                                   *)

Create(c, j) ==
  /\ Serving /\ pc[c] = "idle" /\ told[j] = "unborn"
  /\ jobs' = jobs \cup {j}
  /\ status' = [status EXCEPT ![j] = "created"]
  /\ requests' = [requests EXCEPT ![j] = "sent"]
  /\ told' = [told EXCEPT ![j] = "pending"]
  /\ Receive(c, "files", "created", j)
  /\ UNCHANGED <<queue, running, eventLogs, signaled, process, store, executed, spoiled>>

(* ensureJobFiles up to its saveJob: nothing reads the directory in between.  *)
EnsureJobFiles(c) ==
  /\ pc[c] = "files"
  /\ files' = [files EXCEPT ![arg[c]] = @ \cup {"dir", "request"}]
  /\ Goto(c, "lookup")
  /\ UNCHANGED <<disk, memory, process, history>>

(* Create answers an error and leaves the job in the map, in state created.   *)
EnsureJobFilesFails(c) ==
  /\ "disk" \in Faults
  /\ pc[c] = "files"
  /\ \E made \in {{}, {"dir"}} : files' = [files EXCEPT ![arg[c]] = @ \cup made]
  /\ told' = [told EXCEPT ![own[c]] = "rejected"]
  /\ Return(c)
  /\ UNCHANGED <<disk, executed, spoiled, memory, process>>

(* Faulty: a stack for a queue.                                               *)
EnqueueFirst(c) ==
  LET j == arg[c] IN
  /\ pc[c] = "enqueue"
  /\ IF j \in jobs
     THEN /\ status' = [status EXCEPT ![j] = "queued"]
          /\ queue' = <<j>> \o queue
     ELSE UNCHANGED <<status, queue>>
  /\ Begin(c, "append", "queued", j)
  /\ UNCHANGED <<jobs, running, requests, eventLogs, signaled, process, store, history>>

(* enqueue does not look at the status it overwrites.                         *)
Enqueue(c) ==
  LET j == arg[c] IN
  /\ pc[c] = "enqueue"
  /\ IF j \in jobs
     THEN /\ status' = [status EXCEPT ![j] = "queued"]
          /\ queue' = Append(queue, j)
     ELSE UNCHANGED <<status, queue>>
  /\ Begin(c, "append", "queued", j)
  /\ UNCHANGED <<jobs, running, requests, eventLogs, signaled, process, store, history>>

------------------------------------------------------------------------------
(* schedule, a loop of any thread, and the goroutine of a job.                *)

(* Faulty: without the look at m.ctx.                                         *)
CanStartLate == queue # <<>> /\ Cardinality(running) < MaxRunning

CanStart == /\ daemon = "up"
            /\ queue # <<>>
            /\ Cardinality(running) < MaxRunning

SchedulePop(t) ==
  LET j == Head(queue) IN
  /\ pc[t] = "schedule"
  /\ CanStart
  /\ queue' = Tail(queue)
  /\ running' = running \cup {j}
  /\ status' = [status EXCEPT ![j] = "running"]
  /\ signaled' = signaled \ {j}
  /\ Begin(t, "append", "started", j)
  /\ UNCHANGED <<jobs, requests, eventLogs, process, store, history>>

(* A handler answers next; NewManager returns; the goroutine of a job ends.   *)
ScheduleStop(t) ==
  /\ pc[t] = "schedule"
  /\ ~CanStart
  /\ IF t \in Callers THEN Goto(t, "reply") ELSE Return(t)
  /\ UNCHANGED <<memory, process, store, history>>

(* go m.run(..), and round the loop again.                                    *)
Spawn(t) ==
  /\ pc[t] = "spawn"
  /\ pc' = [pc EXCEPT ![t] = "schedule", ![arg[t]] = "get"]
  /\ arg' = [arg EXCEPT ![t] = NoJob, ![arg[t]] = arg[t]]
  /\ op' = [op EXCEPT ![t] = "none"]
  /\ UNCHANGED <<own, snap, memory, process, store, history>>

(* m.Get(id) and the call of RunJob on *job, which faults without a job.      *)
RunJob(j) ==
  /\ pc[j] = "get"
  /\ executed' = executed \cup {j}
  /\ Goto(j, "runner")
  /\ UNCHANGED <<told, spoiled, memory, process, store>>

ContextDone(j) == j \in signaled \/ daemon # "up"

(* terminalState: who canceled has the last word on what RunJob returned.     *)
(* Faulty: the context alone decides.                                         *)
OutcomesByContext(j) == IF ContextDone(j) THEN {"canceled"} ELSE {"succeeded", "failed"}

Outcomes(j) == IF ContextDone(j) \/ status[j] = "canceling"
               THEN {"canceled"} ELSE {"succeeded", "failed"}

(* Faulty: the slot in m.running is not given back.                           *)
FinishKeepsSlot(j) ==
  /\ pc[j] = "runner"
  /\ IF j \in jobs
     THEN /\ \E s \in Outcomes(j) : status' = [status EXCEPT ![j] = s]
          /\ Begin(j, "append", "finished", j)
     ELSE Return(j) /\ UNCHANGED status
  /\ UNCHANGED <<jobs, queue, running, requests, eventLogs, signaled, process, store, history>>

Finish(j) ==
  /\ pc[j] = "runner"
  /\ IF j \in jobs
     THEN /\ running' = running \ {j}
          /\ \E s \in Outcomes(j) : status' = [status EXCEPT ![j] = s]
          /\ Begin(j, "append", "finished", j)
     ELSE Return(j) /\ UNCHANGED <<running, status>>
  /\ UNCHANGED <<jobs, queue, requests, eventLogs, signaled, process, store, history>>

------------------------------------------------------------------------------
(* Cancel.  In a terminal job and in one that is canceling it changes nothing.*)

(* Faulty: the id stays in the queue.                                         *)
RemoveQueuedNone(q, j) == q

(* removeQueuedLocked filters the id out; it is there once (QueueSound).      *)
RemoveQueued(q, j) ==
  IF \E i \in 1..Len(q) : q[i] = j
  THEN LET i == CHOOSE k \in 1..Len(q) : q[k] = j
       IN [k \in 1..(Len(q) - 1) |-> IF k < i THEN q[k] ELSE q[k + 1]]
  ELSE q

(* Faulty: a job in a terminal status can be canceled, too.                   *)
CancelAny(c, j) ==
  /\ Serving /\ pc[c] = "idle" /\ j \in jobs
  /\ status[j] \notin ActiveStatuses
  /\ queue' = RemoveQueued(queue, j)
  /\ status' = [status EXCEPT ![j] = "canceled"]
  /\ Receive(c, "append", "canceled", j)
  /\ UNCHANGED <<jobs, running, requests, eventLogs, signaled, process, store, history>>

CancelWaiting(c, j) ==
  /\ Serving /\ pc[c] = "idle" /\ j \in jobs
  /\ status[j] \in {"created", "queued"}
  /\ queue' = RemoveQueued(queue, j)
  /\ status' = [status EXCEPT ![j] = "canceled"]
  /\ Receive(c, "append", "canceled", j)
  /\ UNCHANGED <<jobs, running, requests, eventLogs, signaled, process, store, history>>

CancelRunning(c, j) ==
  /\ Serving /\ pc[c] = "idle" /\ j \in jobs
  /\ status[j] = "running"
  /\ status' = [status EXCEPT ![j] = "canceling"]
  /\ Receive(c, "append", "canceling", j)
  /\ UNCHANGED <<jobs, queue, running, requests, eventLogs, signaled, process, store, history>>

(* Faulty: the cancel function is not called.                                 *)
SignalNone(c) ==
  /\ pc[c] = "signal"
  /\ Goto(c, "lookup")
  /\ UNCHANGED <<memory, process, store, history>>

(* The cancel function is called after the event was appended.                *)
Signal(c) ==
  /\ pc[c] = "signal"
  /\ signaled' = signaled \cup {arg[c]}
  /\ Goto(c, "lookup")
  /\ UNCHANGED <<jobs, status, queue, running, requests, eventLogs, process, store, history>>

(* The Get that ends Create and Cancel, and the answer it makes.              *)
Reply(c) ==
  LET j == own[c] IN
  /\ pc[c] = "reply"
  /\ told' = [told EXCEPT ![j] =
       IF j \notin jobs THEN @
       ELSE IF op[c] \in {"canceled", "canceling"}
            THEN IF status[j] = "canceled" THEN "canceled" ELSE @
            ELSE IF @ = "pending" THEN "accepted" ELSE @]
  /\ Return(c)
  /\ UNCHANGED <<executed, spoiled, memory, process, store>>

------------------------------------------------------------------------------
(* Delete: out of the maps first, then os.RemoveAll, entries then directory.  *)

(* Faulty: the files of the job are left where they are.                      *)
DeleteInMemory(c, j) ==
  /\ Serving /\ pc[c] = "idle" /\ j \in jobs
  /\ status[j] \in TerminalStatuses
  /\ jobs' = jobs \ {j}
  /\ eventLogs' = eventLogs \ {j}
  /\ requests' = [requests EXCEPT ![j] = "none"]
  /\ told' = [told EXCEPT ![j] = "deleted"]
  /\ UNCHANGED <<status, queue, running, signaled, process, store, locals, executed, spoiled>>

Delete(c, j) ==
  /\ Serving /\ pc[c] = "idle" /\ j \in jobs
  /\ status[j] \in TerminalStatuses
  /\ jobs' = jobs \ {j}
  /\ eventLogs' = eventLogs \ {j}
  /\ requests' = [requests EXCEPT ![j] = "none"]
  /\ told' = [told EXCEPT ![j] = "deleting"]
  /\ Receive(c, "unlink", "deleted", j)
  /\ UNCHANGED <<status, queue, running, signaled, process, store, executed, spoiled>>

RemoveEntries(c) ==
  /\ pc[c] = "unlink"
  /\ files' = [files EXCEPT ![arg[c]] = @ \cap {"dir"}]
  /\ disk' = [disk EXCEPT ![arg[c]] = "none"]
  /\ Goto(c, "rmdir")
  /\ UNCHANGED <<memory, process, history>>

RemoveDir(c) ==
  LET j == arg[c] IN
  /\ pc[c] = "rmdir"
  /\ files[j] \subseteq {"dir"} /\ disk[j] = "none"
  /\ files' = [files EXCEPT ![j] = {}]
  /\ told' = [told EXCEPT ![j] = "deleted"]
  /\ Return(c)
  /\ UNCHANGED <<disk, executed, spoiled, memory, process>>

(* RemoveAll stops at its first error, and Delete answers it: the job is out  *)
(* of the maps, what is left of its files stays.                              *)
RemoveFails(c) ==
  LET j == arg[c] IN
  /\ \/ pc[c] = "unlink" /\ "disk" \in Faults
     \/ pc[c] = "rmdir" /\ ("disk" \in Faults \/ ~(files[j] \subseteq {"dir"} /\ disk[j] = "none"))
  /\ Return(c)
  /\ UNCHANGED <<memory, process, store, history>>

------------------------------------------------------------------------------
(* Events: the Get, and the store that a request for the events opens.        *)

Events(c, j) ==
  /\ Serving /\ pc[c] = "idle" /\ j \in jobs
  /\ Begin(c, "events", "none", j)
  /\ UNCHANGED <<memory, process, store, history>>

(* The job may be deleted by now: the map keeps its store, its directory is   *)
(* made again.                                                                *)
OpenEvents(c) ==
  LET j == arg[c] IN
  /\ pc[c] = "events"
  /\ eventLogs' = eventLogs \cup {j}
  /\ files' = [files EXCEPT ![j] = IF j \in eventLogs THEN @ ELSE @ \cup {"dir"}]
  /\ Return(c)
  /\ UNCHANGED <<jobs, status, queue, running, requests, signaled, process, disk, history>>

------------------------------------------------------------------------------
(* The end of the process, and NewManager over what it left on disk.          *)

(* Shutdown cancels m.ctx, of which every job's context is a child ...        *)
ShutdownCancel ==
  /\ "stop" \in Faults /\ Serving /\ daemon = "up"
  /\ daemon' = "stopping"
  /\ UNCHANGED <<todo, memory, store, locals, history>>

(* ... and waits for runningWG: the jobs popped whose goroutine has not ended.*)
InFlight == {j \in Jobs : \/ pc[j] # "idle"
                          \/ \E t \in Threads : op[t] = "started" /\ arg[t] = j}

ShutdownReturn ==
  /\ daemon = "stopping"
  /\ InFlight = {}
  /\ daemon' = "stopped"
  /\ UNCHANGED <<todo, memory, store, locals, history>>

(* The process is gone: ended after Shutdown, which gives up on the jobs after *)
(* 15 seconds and is not waited for by serve, or killed at any moment.        *)
Exit ==
  /\ daemon \in {"stopping", "stopped"} \/ ("crash" \in Faults /\ daemon = "up")
  /\ daemon' = "down" /\ todo' = {}
  /\ jobs' = {} /\ running' = {} /\ eventLogs' = {} /\ signaled' = {}
  /\ queue' = <<>>
  /\ status' = [j \in Jobs |-> "created"]
  /\ requests' = [j \in Jobs |-> "none"]
  /\ pc' = [t \in Threads |-> "idle"]
  /\ arg' = [t \in Threads |-> NoJob]
  /\ own' = [t \in Threads |-> NoJob]
  /\ op' = [t \in Threads |-> "none"]
  /\ snap' = [t \in Threads |-> "none"]
  /\ spoiled' = spoiled \cup {arg[t] : t \in {u \in Threads : pc[u] = "put"}}
  /\ UNCHANGED <<store, told, executed>>

Restart ==
  /\ daemon = "down"
  /\ daemon' = "up"
  /\ todo' = {j \in Jobs : "dir" \in files[j]}
  /\ Goto(Main, "recover")
  /\ UNCHANGED <<memory, store, history>>

(* recoverJobs visits the directory entries in the order of their names, which*)
(* are random: in any order.                                                  *)
Visit(j) == /\ pc[Main] = "recover" /\ j \in todo
            /\ todo' = todo \ {j}
            /\ UNCHANGED <<daemon, running, eventLogs, signaled, store, history>>

(* Faulty: a job the crash has interrupted is not taken back.                 *)
RecoverSkipActive(j) ==
  /\ Visit(j)
  /\ disk[j] \in {"none", "torn"} \cup ActiveStatuses
  /\ UNCHANGED <<jobs, status, queue, requests, locals>>

RecoverSkip(j) ==
  /\ Visit(j)
  /\ disk[j] \in {"none", "torn"}
  /\ UNCHANGED <<jobs, status, queue, requests, locals>>

RecoverInterrupted(j) ==
  /\ Visit(j)
  /\ \/ disk[j] \in ActiveStatuses
     \/ disk[j] \in {"created", "queued"} /\ "request" \notin files[j]
  /\ jobs' = jobs \cup {j}
  /\ status' = [status EXCEPT ![j] = "interrupted"]
  /\ Begin(Main, "append", "interrupted", j)
  /\ UNCHANGED <<queue, requests>>

(* A created job is saved as queued and then put on the queue; Main is alone. *)
RecoverWaiting(j) ==
  /\ Visit(j)
  /\ disk[j] \in {"created", "queued"} /\ "request" \in files[j]
  /\ jobs' = jobs \cup {j}
  /\ status' = [status EXCEPT ![j] = "queued"]
  /\ queue' = Append(queue, j)
  /\ requests' = [requests EXCEPT ![j] = "stored"]
  /\ IF disk[j] = "created" THEN Begin(Main, "lookup", "requeued", j) ELSE UNCHANGED locals

RecoverSettled(j) ==
  /\ Visit(j)
  /\ disk[j] \in TerminalStatuses \cup {"garbled"}
  /\ jobs' = jobs \cup {j}
  /\ status' = [status EXCEPT ![j] = disk[j]]
  /\ UNCHANGED <<queue, requests, locals>>

RecoverDone ==
  /\ pc[Main] = "recover" /\ todo = {}
  /\ Begin(Main, "schedule", "none", NoJob)
  /\ UNCHANGED <<memory, process, store, history>>

------------------------------------------------------------------------------
Save(t) == SaveLookup(t) \/ SaveMarshal(t) \/ SaveOpen(t) \/ SavePut(t) \/ SaveFails(t)

Schedule(t) == SchedulePop(t) \/ ScheduleStop(t) \/ Spawn(t)

Handle(c) == \/ EnsureJobFiles(c) \/ EnsureJobFilesFails(c) \/ Enqueue(c)
             \/ Signal(c) \/ Reply(c)
             \/ RemoveEntries(c) \/ RemoveDir(c) \/ RemoveFails(c) \/ OpenEvents(c)

Recover == \/ \E j \in Jobs : \/ RecoverSkip(j) \/ RecoverInterrupted(j)
                               \/ RecoverWaiting(j) \/ RecoverSettled(j)
           \/ RecoverDone

(* What a thread does by itself once it has begun; Finish is the runner's.    *)
Advance(t) == \/ AppendEvent(t) \/ AppendEventFails(t) \/ Save(t) \/ Schedule(t)
              \/ t \in Callers /\ Handle(t)
              \/ t \in Jobs /\ RunJob(t)
              \/ t = Main /\ Recover

Call(c, j) == \/ Create(c, j) \/ CancelWaiting(c, j) \/ CancelRunning(c, j)
              \/ Delete(c, j) \/ Events(c, j)

Next == \/ \E t \in Threads : Advance(t)
        \/ \E c \in Callers, j \in Jobs : Call(c, j)
        \/ \E j \in Jobs : Finish(j)
        \/ ShutdownCancel \/ ShutdownReturn \/ Exit \/ Restart

Spec == Init /\ [][Next]_vars

(* Goroutines run; clients, faults and restarts owe nothing; RunJob returns   *)
(* once its context is done (exec.CommandContext, http requests with ctx).    *)
Fairness == /\ \A t \in Threads : WF_vars(Advance(t))
            /\ \A j \in Jobs : WF_vars(ContextDone(j) /\ Finish(j))

FairSpec == Spec /\ Fairness

(* RunJob returns in any case: a media tool that ends, a timeout that fires.  *)
RunnersEnd == \A j \in Jobs : WF_vars(Finish(j))

------------------------------------------------------------------------------
(* Types.                                                                     *)
TypeOK ==
  /\ jobs \subseteq Jobs /\ running \subseteq Jobs
  /\ eventLogs \subseteq Jobs /\ signaled \subseteq Jobs
  /\ status \in [Jobs -> Statuses]
  /\ queue \in Seq(Jobs)
  /\ requests \in [Jobs -> {"none", "sent", "stored"}]
  /\ daemon \in {"up", "stopping", "stopped", "down"}
  /\ todo \subseteq Jobs
  /\ files \in [Jobs -> SUBSET {"dir", "request", "events"}]
  /\ disk \in [Jobs -> FileContents]
  /\ pc \in [Threads -> ProgramPoints]
  /\ arg \in [Threads -> Jobs \cup {NoJob}]
  /\ own \in [Threads -> Jobs \cup {NoJob}]
  /\ op \in [Threads -> Ops]
  /\ snap \in [Threads -> Statuses \cup {"none"}]
  /\ told \in [Jobs -> {"unborn", "pending", "accepted", "rejected", "canceled",
                    "deleting", "deleted"}]
  /\ executed \subseteq Jobs /\ spoiled \subseteq Jobs

Queued == {queue[i] : i \in DOMAIN queue}

(* The queue and the statuses never disagree: an id is queued once, it is in  *)
(* the queue exactly while its job is in the map as queued, and the request   *)
(* that schedule will take out of m.requests for it is there.                 *)
QueueSound ==
  /\ \A i, k \in DOMAIN queue : queue[i] = queue[k] => i = k
  /\ Queued = {j \in jobs : status[j] = "queued"}
  /\ \A j \in Queued : requests[j] # "none"

(* A thread that popped j and has not started its goroutine yet.              *)
Starter(t, j) == op[t] = "started" /\ arg[t] = j

Running(j) == pc[j] \in {"get", "runner"}

(* m.running holds the jobs that are running or canceling, and every slot is  *)
(* owned by exactly one thread that will give it back: the one about to start *)
(* the goroutine of the job, or that goroutine.                               *)
SlotsOwned ==
  /\ running = {j \in jobs : status[j] \in ActiveStatuses}
  /\ \A j \in Jobs :
       /\ Running(j) => j \in running
       /\ \A t \in Threads : Starter(t, j) => j \in running /\ pc[j] = "idle"
       /\ \A t, u \in Threads : Starter(t, j) /\ Starter(u, j) => t = u
       /\ j \in running => Running(j) \/ \E t \in Threads : Starter(t, j)

(* Never more goroutines in RunJob than max_running_jobs.                     *)
RunnersWithinLimit == Cardinality({j \in Jobs : Running(j)}) <= MaxRunning

(* run dereferences the job it asked Get for: it is never deleted by then.    *)
RunnerHasJob == \A j \in Jobs : Running(j) => j \in jobs

Writing == {"append", "lookup", "marshal", "open", "put"}

(* The thread is on its way to a call of schedule.                            *)
WillSchedule(t) ==
  \/ pc[t] \in {"schedule", "spawn", "recover"}
  \/ pc[t] \in Writing /\ op[t] \in {"queued", "started", "finished", "interrupted", "requeued"}

(* While a job waits and a slot is free, some thread is on its way to schedule*)
(* it: no one else would, there is no dispatcher that polls.                  *)
NoLostWakeup == CanStart => \E t \in Threads : WillSchedule(t)

(* When Shutdown has returned because runningWG emptied, no job is active and *)
(* none will be: a handler still at work finds the context canceled.          *)
StoppedIsQuiet ==
  daemon = "stopped" => running = {} /\ \A j \in Jobs : pc[j] = "idle"

(* A job that is being canceled ends canceled, whatever RunJob returned.      *)
CancelPrevails ==
  [][\A j \in jobs : status[j] = "canceling" =>
       \/ daemon' = "down"
       \/ j \in jobs' /\ status'[j] \in {"canceling", "canceled"}]_vars

(* A job leaves a terminal status by Delete only, except that a job canceled  *)
(* while its Create still runs is revived by enqueue.                         *)
Creator(t, j) == op[t] = "created" /\ arg[t] = j

TerminalIsFinal ==
  [][\A j \in jobs : status[j] \in TerminalStatuses =>
       \/ daemon' = "down" \/ j \notin jobs'
       \/ status'[j] = status[j]
       \/ status[j] = "canceled" /\ status'[j] = "queued" /\ (\E c \in Callers : Creator(c, j))]_vars

(* First in, first out: a job that comes goes behind those that stay, they    *)
(* keep their order, and none starts before one that was queued before it.    *)
Before(q, j, k) == \E i, l \in DOMAIN q : i < l /\ q[i] = j /\ q[l] = k

FifoOrder ==
  [][\A j, k \in Jobs :
       /\ j \in Queued /\ k \notin Queued => ~Before(queue', k, j)
       /\ Before(queue, j, k) /\ daemon' # "down" =>
            /\ k \in running' => ~(\E i \in DOMAIN queue' : queue'[i] = j)
            /\ ~Before(queue', k, j)]_vars

(* The manager implements the life of a job that JobLifecycle describes.      *)
Promise == INSTANCE JobLifecycle
             WITH life <- [j \in Jobs |-> IF j \in jobs THEN status[j] ELSE "absent"]
Implements == Promise!Lifecycle

(* Every queued job leaves the queue, if runners end and no one shuts down.   *)
QueueDrains == RunnersEnd => \A j \in Jobs : j \in Queued ~> j \notin Queued

(* Every cancel of a running job takes effect, with any runner that heeds its *)
(* context.                                                                   *)
CancelSettles ==
  \A j \in Jobs : (j \in jobs /\ status[j] = "canceling") ~> status[j] # "canceling"

(* No job is given to RunJob twice, not even in two lives of the daemon.      *)
RunsAtMostOnce == [][\A j \in Jobs : pc[j] = "get" /\ pc'[j] = "runner" => j \notin executed]_vars

(* A job whose cancel was answered with canceled is never started after.      *)
CanceledNeverStarts ==
  [][\A j \in Jobs : told[j] = "canceled" /\ j \in executed' => j \in executed]_vars

(* A job whose Delete was answered with success never comes back.             *)
DeletedStaysGone == \A j \in Jobs : told[j] = "deleted" => j \notin jobs

(* A job whose Create was answered is known until someone deletes it, also    *)
(* after the daemon has restarted and recovered its jobs: recoverJobs misses  *)
(* only a file that cannot be read, and only three things make one: the end of*)
(* the process inside of a write of it, a disk that was full inside of it, two*)
(* writes at a time (scheduler.go and manager.go save after the unlock).      *)
AcceptedIsKept ==
  \A j \in Jobs : Serving /\ told[j] = "accepted" =>
    j \in jobs \/ (disk[j] = "torn" /\ j \in spoiled)

------------------------------------------------------------------------------
(* The inductive invariant behind the theorems of JobManager_proofs.          *)

(* What a thread is doing and where it is fit together.                       *)
ControlOK ==
  \A t \in Threads :
    /\ pc[t] = "idle" => op[t] = "none"
    /\ pc[t] \in Writing => arg[t] \in Jobs
    /\ pc[t] \in {"files", "enqueue"} => op[t] = "created"
    /\ pc[t] = "events" => op[t] = "none" /\ arg[t] \in Jobs /\ t \in Callers
    /\ pc[t] = "spawn" => op[t] = "started"
    /\ pc[t] = "signal" => op[t] = "canceling" /\ arg[t] \in Jobs
    /\ pc[t] \in {"get", "runner"} => t \in Jobs
    /\ op[t] = "started" => pc[t] \in Writing \cup {"spawn"} /\ arg[t] \in Jobs
    /\ op[t] = "created" => /\ pc[t] \in Writing \cup {"files", "enqueue"}
                           /\ arg[t] \in Jobs /\ t \in Callers
    /\ op[t] \in {"interrupted", "requeued"} => pc[t] \in Writing \cup {"recover"} /\ t = Main

(* Main works alone while it recovers, and nothing works in a dead process.   *)
Recovering == pc[Main] = "recover" \/ op[Main] \in {"interrupted", "requeued"}

RecoverOK ==
  /\ todo # {} => Recovering
  /\ Recovering => /\ daemon = "up" /\ running = {} /\ todo \cap jobs = {}
                   /\ \A t \in Threads \ {Main} : pc[t] = "idle"
  /\ daemon = "down" => /\ jobs = {} /\ running = {} /\ queue = <<>>
                       /\ \A t \in Threads : pc[t] = "idle"

(* A job is created once, enqueued once, and runs once in a life of the daemon*)
(* since its creator is the only one to enqueue it.                           *)
LifeOK ==
  \A j \in Jobs :
    /\ told[j] = "unborn" => /\ j \notin jobs /\ j \notin todo /\ files[j] = {}
                            /\ pc[j] = "idle" /\ \A t \in Threads : arg[t] # j
    /\ \A t, u \in Threads : Creator(t, j) /\ Creator(u, j) => t = u
    /\ \A t \in Threads : Creator(t, j) =>
         /\ pc[j] = "idle"
         /\ j \in jobs => status[j] \in {"created", "canceled"} /\ requests[j] # "none"
    /\ pc[j] \notin {"idle", "get", "runner"} /\ j \in jobs => status[j] \in TerminalStatuses

SlotsWithinLimit == IsFiniteSet(running) /\ Cardinality(running) <= MaxRunning

IInv == /\ TypeOK /\ ControlOK /\ RecoverOK /\ LifeOK
        /\ QueueSound /\ SlotsOwned /\ SlotsWithinLimit
==============================================================================
