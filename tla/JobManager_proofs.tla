-------------------------- MODULE JobManager_proofs --------------------------
(* Safety of JobManager for every set of jobs and handlers and every limit.   *)
EXTENDS JobManager, FiniteSetTheorems, SequenceTheorems, TLAPS

------------------------------------------------------------------------------
(* The queue as a set: what Append, Tail and RemoveQueued do to it.           *)

Elements(q) == {q[i] : i \in DOMAIN q}
Distinct(q) == \A i, k \in DOMAIN q : q[i] = q[k] => i = k

LEMMA QueueAppend ==
  ASSUME NEW q \in Seq(Jobs), NEW j \in Jobs
  PROVE  /\ Append(q, j) \in Seq(Jobs)
         /\ Elements(Append(q, j)) = Elements(q) \cup {j}
         /\ Distinct(q) /\ j \notin Elements(q) => Distinct(Append(q, j))
<1>1. /\ Append(q, j) \in Seq(Jobs) /\ DOMAIN q = 1..Len(q) /\ Len(q) \in Nat
      /\ DOMAIN Append(q, j) = 1..(Len(q) + 1)
      /\ \A i \in 1..Len(q) : Append(q, j)[i] = q[i]
      /\ Append(q, j)[Len(q) + 1] = j
  BY AppendProperties
<1>2. DOMAIN Append(q, j) = DOMAIN q \cup {Len(q) + 1}
  BY <1>1
<1> QED
  BY <1>1, <1>2 DEF Elements, Distinct

LEMMA QueuePop ==
  ASSUME NEW q \in Seq(Jobs), q # <<>>, Distinct(q)
  PROVE  /\ Tail(q) \in Seq(Jobs) /\ Head(q) \in Elements(q) /\ Head(q) \in Jobs
         /\ Elements(Tail(q)) = Elements(q) \ {Head(q)}
         /\ Distinct(Tail(q))
<1>1. /\ Tail(q) \in Seq(Jobs) /\ Head(q) \in Jobs /\ Head(q) = q[1]
      /\ Len(q) \in Nat \ {0} /\ DOMAIN q = 1..Len(q)
      /\ DOMAIN Tail(q) = 1..(Len(q) - 1)
      /\ \A i \in 1..(Len(q) - 1) : Tail(q)[i] = q[i + 1]
  BY HeadTailProperties
<1>2. Distinct(Tail(q))
  BY <1>1 DEF Distinct
<1>3. Elements(Tail(q)) \subseteq Elements(q) \ {Head(q)}
  BY <1>1 DEF Elements, Distinct
<1>4. ASSUME NEW x \in Elements(q) \ {Head(q)}  PROVE x \in Elements(Tail(q))
  <2>1. PICK i \in 1..Len(q) : q[i] = x /\ i # 1
    BY <1>1 DEF Elements
  <2>2. i - 1 \in DOMAIN Tail(q) /\ Tail(q)[i - 1] = x
    BY <1>1, <2>1
  <2> QED
    BY <2>2 DEF Elements
<1>5. Head(q) \in Elements(q)
  BY <1>1 DEF Elements
<1>6. Elements(Tail(q)) = Elements(q) \ {Head(q)}
  BY <1>3, <1>4
<1> QED
  BY <1>1, <1>2, <1>5, <1>6

LEMMA QueueRemove ==
  ASSUME NEW q \in Seq(Jobs), NEW j \in Jobs, Distinct(q)
  PROVE  /\ RemoveQueued(q, j) \in Seq(Jobs)
         /\ Elements(RemoveQueued(q, j)) = Elements(q) \ {j}
         /\ Distinct(RemoveQueued(q, j))
<1>1. Len(q) \in Nat /\ DOMAIN q = 1..Len(q) /\ \A i \in 1..Len(q) : q[i] \in Jobs
  BY LenProperties, ElementOfSeq
<1>2. CASE ~ \E i \in 1..Len(q) : q[i] = j
  BY <1>1, <1>2 DEF RemoveQueued, Elements
<1>3. CASE \E i \in 1..Len(q) : q[i] = j
  <2> DEFINE i == CHOOSE k \in 1..Len(q) : q[k] = j
             r == [k \in 1..(Len(q) - 1) |-> IF k < i THEN q[k] ELSE q[k + 1]]
  <2>1. i \in 1..Len(q) /\ q[i] = j /\ RemoveQueued(q, j) = r
    BY <1>3 DEF RemoveQueued
  <2> HIDE DEF i
  <2>2. Len(q) - 1 \in Nat /\ \A k \in 1..(Len(q) - 1) : r[k] \in Jobs
    BY <1>1, <2>1
  <2>3. r \in Seq(Jobs)
    <3>1. r \in [1..(Len(q) - 1) -> Jobs]
      BY <2>2
    <3> QED
      BY <2>2, <3>1, SeqDef
  <2>4. Distinct(r)
    <3> SUFFICES ASSUME NEW a \in 1..(Len(q) - 1), NEW b \in 1..(Len(q) - 1), r[a] = r[b]
                 PROVE  a = b
      BY DEF Distinct
    <3>1. \A k, l \in 1..Len(q) : q[k] = q[l] => k = l
      BY <1>1 DEF Distinct
    <3> QED
      BY <1>1, <2>1, <3>1
  <2>5. Elements(r) \subseteq Elements(q) \ {j}
    BY <1>1, <2>1 DEF Distinct, Elements
  <2>6. ASSUME NEW x \in Elements(q) \ {j}  PROVE x \in Elements(r)
    <3>1. PICK k \in 1..Len(q) : q[k] = x /\ k # i
      BY <1>1, <2>1 DEF Elements
    <3>2. CASE k < i
      <4>1. k \in DOMAIN r /\ r[k] = x
        BY <1>1, <2>1, <3>1, <3>2
      <4> QED
        BY <4>1 DEF Elements
    <3>3. CASE k > i
      <4>1. k - 1 \in DOMAIN r /\ r[k - 1] = x
        BY <1>1, <2>1, <3>1, <3>3
      <4> QED
        BY <4>1 DEF Elements
    <3> QED
      BY <2>1, <3>1, <3>2, <3>3
  <2> HIDE DEF r
  <2> QED
    BY <2>1, <2>3, <2>4, <2>5, <2>6
<1> QED
  BY <1>2, <1>3

------------------------------------------------------------------------------
(* Frames: what the steps that touch only files and thread-local state keep.  *)

(* A step that starts and ends no goroutine leaves the slots as they were.    *)
LEMMA SlotsFrame ==
  ASSUME SlotsOwned, UNCHANGED <<jobs, status, running, op, arg>>,
         \A u \in Threads : /\ pc'[u] = "idle" <=> pc[u] = "idle"
                            /\ pc'[u] \in {"get", "runner"} <=> pc[u] \in {"get", "runner"}
  PROVE  SlotsOwned'
<1>1. Jobs \subseteq Threads
  BY DEF Threads
<1> QED
  BY <1>1 DEF SlotsOwned, Running, Starter

(* A thread moves on within its transition, and may write the files of its job*)
LEMMA MoveFrame ==
  ASSUME IInv, TypeOK', ControlOK', NEW t \in Threads,
         UNCHANGED <<jobs, status, queue, running, requests, daemon, todo, told, op, arg>>,
         NEW point, pc' = [pc EXCEPT ![t] = point],
         pc[t] \notin {"idle", "get", "runner", "recover"},
         point \notin {"idle", "get", "runner"},
         point = "recover" => op[t] \in {"interrupted", "requeued"},
         \A j \in Jobs : j # arg[t] => files'[j] = files[j]
  PROVE  IInv'
<1> USE NamesAssumption DEF IInv
<1>3. RecoverOK'
  BY DEF TypeOK, ControlOK, RecoverOK, Recovering, Threads
<1>4. LifeOK'
  BY DEF TypeOK, LifeOK, Creator, Threads
<1>5. QueueSound'
  BY DEF QueueSound, Queued
<1>6. SlotsOwned'
  <2>1. \A u \in Threads : /\ pc'[u] = "idle" <=> pc[u] = "idle"
                           /\ pc'[u] \in {"get", "runner"} <=> pc[u] \in {"get", "runner"}
    BY DEF TypeOK
  <2> QED
    BY <2>1, SlotsFrame
<1>7. SlotsWithinLimit'
  BY DEF SlotsWithinLimit
<1> QED
  BY <1>3, <1>4, <1>5, <1>6, <1>7

(* A thread ends what it was doing.                                           *)
LEMMA LeaveFrame ==
  ASSUME IInv, TypeOK', NEW t \in Threads,
         UNCHANGED <<jobs, status, queue, running, requests, daemon, todo>>,
         pc' = [pc EXCEPT ![t] = "idle"],
         op' = [op EXCEPT ![t] = "none"],
         arg' = [arg EXCEPT ![t] = NoJob],
         pc[t] \notin {"idle", "get", "runner", "recover", "spawn"},
         pc[t] \in Writing => op[t] = "created",
         \A j \in Jobs : told'[j] = "unborn" => told[j] = "unborn",
         \A j \in Jobs : told[j] = "unborn" => files'[j] = files[j]
  PROVE  IInv'
<1> USE NamesAssumption DEF IInv
<1>a. op[t] \notin {"started", "interrupted", "requeued"}
  BY DEF ControlOK, Writing
<1>2. ControlOK'
  BY <1>a DEF TypeOK, ControlOK, Writing
<1>3. RecoverOK'
  BY <1>a DEF TypeOK, ControlOK, RecoverOK, Recovering, Threads
<1>4. LifeOK'
  BY <1>a DEF TypeOK, LifeOK, Creator, Threads
<1>5. QueueSound'
  BY DEF QueueSound, Queued
<1>6. SlotsOwned'
  BY <1>a DEF TypeOK, SlotsOwned, Running, Starter, Threads
<1>7. SlotsWithinLimit'
  BY DEF SlotsWithinLimit
<1> QED
  BY <1>2, <1>3, <1>4, <1>5, <1>6, <1>7

------------------------------------------------------------------------------
(* saveJob and appendEvent.                                                   *)

LEMMA AppendEventKeeps ==
  ASSUME IInv, NEW t \in Threads, AppendEvent(t) \/ AppendEventFails(t)
  PROVE  IInv'
<1> USE DEF AppendEvent, AppendEventFails, Goto, memory, process, store, history
<1>a. /\ pc[t] = "append" /\ arg[t] \in Jobs
      /\ pc' = [pc EXCEPT ![t] = AfterAppend(op[t])]
      /\ UNCHANGED <<jobs, status, queue, running, requests, signaled, disk>>
      /\ UNCHANGED <<daemon, todo, arg, own, op, snap, told, executed, spoiled>>
  BY DEF IInv, ControlOK, Writing
<1>b. AfterAppend(op[t]) \in ProgramPoints
  BY DEF AfterAppend, ProgramPoints
<1>c. /\ eventLogs' \subseteq Jobs
      /\ files' \in [Jobs -> SUBSET {"dir", "request", "events"}]
      /\ \A j \in Jobs : j # arg[t] => files'[j] = files[j]
  <2>1. CASE AppendEvent(t)
    BY <1>a, <2>1 DEF IInv, TypeOK
  <2>2. CASE AppendEventFails(t)
    <3> DEFINE open == IF arg[t] \in eventLogs THEN files[arg[t]] ELSE files[arg[t]] \cup {"dir"}
    <3>1. /\ files[arg[t]] \subseteq {"dir", "request", "events"}
          /\ open \subseteq {"dir", "request", "events"}
          /\ open \cup {"events"} \subseteq {"dir", "request", "events"}
      BY <1>a DEF IInv, TypeOK
    <3>2. PICK left \in {files[arg[t]], open, open \cup {"events"}} :
             files' = [files EXCEPT ![arg[t]] = left]
      BY <2>2
    <3>3. eventLogs' \in {eventLogs, eventLogs \cup {arg[t]}}
      BY <2>2
    <3> QED
      BY <1>a, <3>1, <3>2, <3>3 DEF IInv, TypeOK
  <2> QED
    BY <2>1, <2>2
<1> USE DEF IInv
<1>1. TypeOK'
  BY <1>a, <1>b, <1>c DEF TypeOK
<1>2. ControlOK'
  BY <1>a, NamesAssumption DEF TypeOK, ControlOK, AfterAppend, Writing
<1>3. AfterAppend(op[t]) \notin {"idle", "get", "runner", "recover"}
  BY DEF AfterAppend
<1> QED
  BY <1>1, <1>2, <1>3, <1>a, <1>c, MoveFrame

LEMMA SaveKeeps ==
  ASSUME IInv, NEW t \in Threads,
         SaveLookup(t) \/ SaveMarshal(t) \/ SaveOpen(t) \/ SavePut(t)
  PROVE  IInv'
<1> USE DEF Goto, memory, process, store, history
<1>a. pc[t] \in Writing /\ arg[t] \in Jobs
  BY DEF IInv, ControlOK, Writing, SaveLookup, SaveMarshal, SaveOpen, SavePut
<1>b. /\ AfterSave(op[t]) \in ProgramPoints
      /\ AfterSave(op[t]) \notin {"idle", "get", "runner"}
      /\ AfterSave(op[t]) = "recover" => op[t] \in {"interrupted", "requeued"}
  BY DEF AfterSave, ProgramPoints
<1>c. UNCHANGED <<jobs, status, queue, running, requests, daemon, todo, told, op, arg, files>>
  BY DEF SaveLookup, SaveMarshal, SaveOpen, SavePut
<1>1. CASE SaveLookup(t)
  <2>1. TypeOK'
    BY <1>1, <1>b DEF SaveLookup, IInv, TypeOK, ProgramPoints
  <2>2. PICK point : /\ point \in {"marshal", AfterSave(op[t])}
                     /\ pc' = [pc EXCEPT ![t] = point]
    BY <1>1 DEF SaveLookup
  <2>3. ControlOK'
    BY <1>a, <1>b, <1>c, <2>2, NamesAssumption DEF AfterSave, IInv, TypeOK, ControlOK, Writing
  <2> QED
    BY <1>a, <1>b, <1>c, <2>1, <2>2, <2>3, MoveFrame DEF Writing
<1>2. CASE SaveMarshal(t)
  <2>1. TypeOK'
    BY <1>2, <1>a DEF SaveMarshal, IInv, TypeOK, ProgramPoints, Statuses
  <2>2. ControlOK'
    BY <1>2, <1>a DEF SaveMarshal, IInv, TypeOK, ControlOK, Writing
  <2> QED
    BY <1>2, <1>c, <2>1, <2>2, MoveFrame DEF SaveMarshal
<1>3. CASE SaveOpen(t)
  <2>1. TypeOK'
    BY <1>3, <1>a DEF SaveOpen, IInv, TypeOK, ProgramPoints, FileContents
  <2>2. ControlOK'
    BY <1>3, <1>a DEF SaveOpen, IInv, TypeOK, ControlOK, Writing
  <2> QED
    BY <1>3, <1>c, <2>1, <2>2, MoveFrame DEF SaveOpen
<1>4. CASE SavePut(t)
  <2>1. TypeOK'
    <3>1. disk' \in [Jobs -> FileContents]
      BY <1>4 DEF SavePut, IInv, TypeOK, FileContents
    <3> QED
      BY <1>4, <1>b, <3>1 DEF SavePut, IInv, TypeOK
  <2>2. ControlOK'
    BY <1>4, <1>a, <1>b, NamesAssumption DEF SavePut, AfterSave, IInv, TypeOK, ControlOK, Writing
  <2> QED
    BY <1>4, <1>b, <1>c, <2>1, <2>2, MoveFrame DEF SavePut
<1> QED
  BY <1>1, <1>2, <1>3, <1>4

LEMMA SaveFailsKeeps ==
  ASSUME IInv, NEW t \in Threads, SaveFails(t)
  PROVE  IInv'
<1> USE DEF SaveFails, memory, process, store, history
<1>a. /\ AfterSave(op[t]) \in ProgramPoints
      /\ AfterSave(op[t]) \notin {"idle", "get", "runner"}
      /\ AfterSave(op[t]) = "recover" => op[t] \in {"interrupted", "requeued"}
  BY DEF AfterSave, ProgramPoints
<1>b. pc[t] \in {"open", "put"} /\ arg[t] \in Jobs
  BY DEF WriteFails, IInv, ControlOK, Writing
<1>c. disk' \in [Jobs -> FileContents] /\ spoiled' \subseteq Jobs
  BY <1>b DEF WriteFails, FileContents, IInv, TypeOK
<1>2. CASE op[t] = "created"
  <2>1. /\ snap' = [snap EXCEPT ![t] = "none"] /\ pc' = [pc EXCEPT ![t] = "idle"]
        /\ op' = [op EXCEPT ![t] = "none"] /\ arg' = [arg EXCEPT ![t] = NoJob]
        /\ own' = [own EXCEPT ![t] = NoJob] /\ told' = [told EXCEPT ![own[t]] = "rejected"]
    BY <1>2
  <2>2. TypeOK'
    BY <1>c, <2>1 DEF IInv, TypeOK, ProgramPoints, Ops
  <2> QED
    BY <1>2, <1>b, <2>1, <2>2, LeaveFrame DEF IInv, TypeOK
<1>3. CASE op[t] # "created"
  <2>1. /\ pc' = [pc EXCEPT ![t] = AfterSave(op[t])] /\ UNCHANGED <<arg, own, op, told>>
        /\ snap' = [snap EXCEPT ![t] = "none"]
    BY <1>3
  <2>2. TypeOK'
    BY <1>a, <1>c, <2>1 DEF IInv, TypeOK
  <2>3. ControlOK'
    BY <1>a, <1>b, <2>1, NamesAssumption DEF AfterSave, IInv, TypeOK, ControlOK, Writing
  <2> QED
    BY <1>a, <1>b, <2>1, <2>2, <2>3, MoveFrame
<1> QED
  BY <1>2, <1>3

------------------------------------------------------------------------------
(* The handlers.                                                              *)

LEMMA CreateKeeps ==
  ASSUME IInv, NEW c \in Callers, NEW j \in Jobs, Create(c, j)
  PROVE  IInv'
<1> USE NamesAssumption DEF IInv, Create, Receive, process, store
<1>a. c \in Threads /\ c \notin Jobs /\ c # Main /\ Jobs \subseteq Threads
  BY DEF Threads
<1>b. /\ ~Recovering /\ todo = {} /\ daemon # "down"
      /\ j \notin jobs /\ j \notin running /\ pc[j] = "idle"
      /\ \A t \in Threads : arg[t] # j
  BY DEF Serving, ControlOK, RecoverOK, Recovering, LifeOK, SlotsOwned, Threads
<1>1. TypeOK'
  BY <1>a DEF TypeOK, ProgramPoints, Ops, Statuses
<1>2. ControlOK'
  BY <1>a DEF TypeOK, ControlOK, Writing
<1>3. RecoverOK'
  BY <1>a, <1>b DEF TypeOK, RecoverOK, Recovering, Threads
<1>4. LifeOK'
  BY <1>a, <1>b DEF TypeOK, ControlOK, LifeOK, Creator
<1>5. QueueSound'
  BY <1>b DEF TypeOK, QueueSound, Queued
<1>6. SlotsOwned'
  BY <1>a, <1>b DEF TypeOK, ControlOK, SlotsOwned, Running, Starter, ActiveStatuses
<1>7. SlotsWithinLimit'
  BY DEF SlotsWithinLimit
<1> QED
  BY <1>1, <1>2, <1>3, <1>4, <1>5, <1>6, <1>7

LEMMA EnqueueKeeps ==
  ASSUME IInv, NEW c \in Callers, Enqueue(c)
  PROVE  IInv'
<1> USE NamesAssumption DEF IInv, Enqueue, Begin, process, store, history
<1> DEFINE j == arg[c]
<1>a. c \in Threads /\ c \notin Jobs /\ c # Main /\ Jobs \subseteq Threads
  BY DEF Threads
<1>b. /\ op[c] = "created" /\ j \in Jobs /\ ~Recovering /\ daemon # "down"
      /\ told[j] # "unborn" /\ pc[j] = "idle"
      /\ j \in jobs => status[j] \in {"created", "canceled"} /\ requests[j] # "none"
      /\ \A t \in Threads : Creator(t, j) => t = c
  BY <1>a DEF ControlOK, RecoverOK, LifeOK, Creator, Threads, Recovering
<1>c. /\ j \notin running /\ \A i \in DOMAIN queue : queue[i] # j
      /\ \A t \in Threads : ~Starter(t, j)
  BY <1>a, <1>b DEF SlotsOwned, QueueSound, Queued, ActiveStatuses
<1>d. /\ queue \in Seq(Jobs) /\ Append(queue, j) \in Seq(Jobs)
      /\ Elements(Append(queue, j)) = Elements(queue) \cup {j}
      /\ Distinct(Append(queue, j))
  <2>1. queue \in Seq(Jobs) /\ Distinct(queue) /\ j \notin Elements(queue)
    BY <1>c DEF TypeOK, QueueSound, Distinct, Elements
  <2> QED
    BY <1>b, <2>1, QueueAppend
<1>1. TypeOK'
  <2>1. queue' \in Seq(Jobs) /\ status' \in [Jobs -> Statuses]
    BY <1>d DEF TypeOK, Statuses
  <2> QED
    BY <1>b, <2>1 DEF TypeOK, ProgramPoints, Ops
<1>2. ControlOK'
  BY <1>a, <1>b DEF TypeOK, ControlOK, Writing
<1>3. RecoverOK'
  BY <1>a, <1>b DEF TypeOK, RecoverOK, Recovering
<1>4. LifeOK'
  BY <1>a, <1>b DEF TypeOK, LifeOK, Creator
<1>5. QueueSound'
  <2>1. CASE j \in jobs
    <3>1. queue' = Append(queue, j) /\ status' = [status EXCEPT ![j] = "queued"] /\ UNCHANGED jobs
      BY <2>1
    <3>2. Queued' = Queued \cup {j}
      BY <3>1, <1>d DEF Elements, Queued
    <3>3. Queued' = {k \in jobs' : status'[k] = "queued"}
      BY <2>1, <3>1, <3>2, <1>b DEF TypeOK, QueueSound
    <3>4. \A i, k \in DOMAIN queue' : queue'[i] = queue'[k] => i = k
      BY <3>1, <1>d DEF Distinct
    <3>5. \A k \in Queued' : requests'[k] # "none"
      BY <2>1, <3>2, <1>b DEF QueueSound
    <3> QED
      BY <3>3, <3>4, <3>5 DEF QueueSound
  <2>2. CASE j \notin jobs
    BY <2>2 DEF QueueSound, Queued
  <2> QED
    BY <2>1, <2>2
<1>6. SlotsOwned'
  BY <1>a, <1>b, <1>c DEF TypeOK, SlotsOwned, Running, Starter, ActiveStatuses
<1>7. SlotsWithinLimit'
  BY DEF SlotsWithinLimit
<1> QED
  BY <1>1, <1>2, <1>3, <1>4, <1>5, <1>6, <1>7

LEMMA HandleMovesKeep ==
  ASSUME IInv, NEW c \in Callers, EnsureJobFiles(c) \/ Signal(c) \/ RemoveEntries(c)
  PROVE  IInv'
<1> USE DEF Goto, memory, process, store, history
<1>a. c \in Threads
  BY DEF Threads
<1>1. CASE EnsureJobFiles(c)
  <2>1. TypeOK'
    BY <1>1, <1>a DEF EnsureJobFiles, IInv, TypeOK, ProgramPoints
  <2>2. ControlOK'
    BY <1>1, <1>a DEF EnsureJobFiles, IInv, TypeOK, ControlOK, Writing
  <2>3. \A j \in Jobs : j # arg[c] => files'[j] = files[j]
    BY <1>1 DEF EnsureJobFiles, IInv, TypeOK
  <2> QED
    BY <1>1, <1>a, <2>1, <2>2, <2>3, MoveFrame DEF EnsureJobFiles
<1>2. CASE Signal(c)
  <2>1. op[c] = "canceling" /\ arg[c] \in Jobs
    BY <1>2, <1>a DEF Signal, IInv, ControlOK
  <2>2. TypeOK'
    BY <1>2, <1>a, <2>1 DEF Signal, IInv, TypeOK, ProgramPoints
  <2>3. ControlOK'
    BY <1>2, <1>a, <2>1 DEF Signal, IInv, TypeOK, ControlOK, Writing
  <2> QED
    BY <1>2, <1>a, <2>2, <2>3, MoveFrame DEF Signal
<1>3. CASE RemoveEntries(c)
  <2>1. TypeOK'
    BY <1>3, <1>a DEF RemoveEntries, IInv, TypeOK, ProgramPoints, FileContents
  <2>2. ControlOK'
    BY <1>3, <1>a DEF RemoveEntries, IInv, TypeOK, ControlOK, Writing
  <2>3. \A j \in Jobs : j # arg[c] => files'[j] = files[j]
    BY <1>3 DEF RemoveEntries, IInv, TypeOK
  <2> QED
    BY <1>3, <1>a, <2>1, <2>2, <2>3, MoveFrame DEF RemoveEntries
<1> QED
  BY <1>1, <1>2, <1>3

LEMMA HandleEndsKeep ==
  ASSUME IInv, NEW c \in Callers,
         EnsureJobFilesFails(c) \/ Reply(c) \/ RemoveDir(c) \/ RemoveFails(c) \/ OpenEvents(c)
  PROVE  IInv'
<1> USE DEF Return, memory, process, store, history
<1>a. c \in Threads
  BY DEF Threads
<1>1. CASE EnsureJobFilesFails(c)
  <2> USE <1>1 DEF EnsureJobFilesFails
  <2>1. op[c] = "created" /\ arg[c] \in Jobs
    BY <1>a DEF IInv, ControlOK
  <2>2. \A j \in Jobs : j # arg[c] => files'[j] = files[j]
    BY DEF IInv, TypeOK
  <2>3. files' \in [Jobs -> SUBSET {"dir", "request", "events"}]
    BY <2>1 DEF IInv, TypeOK
  <2>4. TypeOK'
    BY <2>3 DEF IInv, TypeOK, ProgramPoints, Ops
  <2>5. \A j \in Jobs : /\ told'[j] = "unborn" => told[j] = "unborn"
                        /\ told[j] = "unborn" => files'[j] = files[j]
    BY <1>a, <2>2 DEF IInv, TypeOK, LifeOK
  <2> QED
    BY <1>a, <2>1, <2>4, <2>5, LeaveFrame
<1>2. CASE Reply(c)
  <2> USE <1>2 DEF Reply
  <2>1. TypeOK'
    BY DEF IInv, TypeOK, ProgramPoints, Ops
  <2>2. \A j \in Jobs : told'[j] = "unborn" => told[j] = "unborn"
    BY DEF IInv, TypeOK, LifeOK
  <2> QED
    BY <1>a, <2>1, <2>2, LeaveFrame DEF Writing
<1>3. CASE RemoveDir(c)
  <2> USE <1>3 DEF RemoveDir
  <2>1. TypeOK'
    BY DEF IInv, TypeOK, ProgramPoints, Ops
  <2>2. \A j \in Jobs : /\ told'[j] = "unborn" => told[j] = "unborn"
                        /\ told[j] = "unborn" => files'[j] = files[j]
    BY <1>a DEF IInv, TypeOK, LifeOK
  <2> QED
    BY <1>a, <2>1, <2>2, LeaveFrame DEF Writing
<1>4. CASE RemoveFails(c)
  <2> USE <1>4 DEF RemoveFails
  <2>1. TypeOK'
    BY DEF IInv, TypeOK, ProgramPoints, Ops
  <2> QED
    BY <1>a, <2>1, LeaveFrame DEF Writing
<1>5. CASE OpenEvents(c)
  <2> USE <1>5 DEF OpenEvents
  <2>1. op[c] = "none" /\ arg[c] \in Jobs
    BY <1>a DEF IInv, ControlOK
  <2>2. TypeOK'
    BY <2>1 DEF IInv, TypeOK, ProgramPoints, Ops
  <2>3. \A j \in Jobs : told[j] = "unborn" => files'[j] = files[j]
    BY <1>a DEF IInv, TypeOK, LifeOK
  <2> QED
    BY <1>a, <2>2, <2>3, LeaveFrame DEF Writing
<1> QED
  BY <1>1, <1>2, <1>3, <1>4, <1>5

LEMMA CancelRunningKeeps ==
  ASSUME IInv, NEW c \in Callers, NEW j \in Jobs, CancelRunning(c, j)
  PROVE  IInv'
<1> USE NamesAssumption DEF IInv, CancelRunning, Receive, process, store, history
<1>a. c \in Threads /\ c \notin Jobs /\ c # Main /\ Jobs \subseteq Threads
  BY DEF Threads
<1>b. /\ ~Recovering /\ todo = {} /\ daemon # "down" /\ told[j] # "unborn"
      /\ pc[j] \in {"idle", "get", "runner"} /\ \A t \in Threads : ~Creator(t, j)
  BY DEF Serving, ControlOK, RecoverOK, Recovering, LifeOK, Threads, TerminalStatuses
<1>1. TypeOK'
  BY <1>a DEF TypeOK, ProgramPoints, Ops, Statuses, ActiveStatuses
<1>2. ControlOK'
  BY <1>a DEF TypeOK, ControlOK, Writing
<1>3. RecoverOK'
  BY <1>a, <1>b DEF TypeOK, RecoverOK, Recovering
<1>4. LifeOK'
  BY <1>a, <1>b DEF TypeOK, LifeOK, Creator
<1>5. QueueSound'
  <2>1. {k \in jobs' : status'[k] = "queued"} = {k \in jobs : status[k] = "queued"}
    BY DEF TypeOK
  <2> QED
    BY <2>1 DEF QueueSound, Queued
<1>6. SlotsOwned'
  BY <1>a, <1>b DEF TypeOK, ControlOK, SlotsOwned, Running, Starter, ActiveStatuses
<1>7. SlotsWithinLimit'
  BY DEF SlotsWithinLimit
<1> QED
  BY <1>1, <1>2, <1>3, <1>4, <1>5, <1>6, <1>7

LEMMA CancelWaitingKeeps ==
  ASSUME IInv, NEW c \in Callers, NEW j \in Jobs, CancelWaiting(c, j)
  PROVE  IInv'
<1> USE NamesAssumption DEF IInv, CancelWaiting, Receive, process, store, history
<1>a. c \in Threads /\ c \notin Jobs /\ c # Main /\ Jobs \subseteq Threads
  BY DEF Threads
<1>b. /\ ~Recovering /\ todo = {} /\ daemon # "down" /\ told[j] # "unborn"
  BY DEF Serving, ControlOK, RecoverOK, Recovering, LifeOK, Threads
<1>c. /\ RemoveQueued(queue, j) \in Seq(Jobs)
      /\ Elements(RemoveQueued(queue, j)) = Elements(queue) \ {j}
      /\ Distinct(RemoveQueued(queue, j))
  <2>1. queue \in Seq(Jobs) /\ Distinct(queue)
    BY DEF TypeOK, QueueSound, Distinct
  <2> QED
    BY <2>1, QueueRemove
<1>1. TypeOK'
  BY <1>a, <1>c DEF TypeOK, ProgramPoints, Ops, Statuses, TerminalStatuses
<1>2. ControlOK'
  BY <1>a DEF TypeOK, ControlOK, Writing
<1>3. RecoverOK'
  BY <1>a, <1>b DEF TypeOK, RecoverOK, Recovering
<1>4. LifeOK'
  BY <1>a, <1>b DEF TypeOK, LifeOK, Creator, TerminalStatuses
<1>5. QueueSound'
  <2>1. Queued' = Queued \ {j}
    BY <1>c DEF Elements, Queued
  <2>2. {k \in jobs' : status'[k] = "queued"} = {k \in jobs : status[k] = "queued"} \ {j}
    BY DEF TypeOK
  <2> QED
    BY <1>c, <2>1, <2>2 DEF QueueSound, Distinct
<1>6. SlotsOwned'
  BY <1>a, <1>b DEF TypeOK, ControlOK, SlotsOwned, Running, Starter, ActiveStatuses
<1>7. SlotsWithinLimit'
  BY DEF SlotsWithinLimit
<1> QED
  BY <1>1, <1>2, <1>3, <1>4, <1>5, <1>6, <1>7

LEMMA DeleteKeeps ==
  ASSUME IInv, NEW c \in Callers, NEW j \in Jobs, Delete(c, j)
  PROVE  IInv'
<1> USE NamesAssumption DEF IInv, Delete, Receive, process, store, history
<1>a. c \in Threads /\ c \notin Jobs /\ c # Main /\ Jobs \subseteq Threads
  BY DEF Threads
<1>b. /\ ~Recovering /\ todo = {} /\ daemon # "down" /\ told[j] # "unborn"
      /\ status[j] \notin ActiveStatuses \cup {"queued"}
  BY DEF Serving, ControlOK, RecoverOK, Recovering, LifeOK, Threads, TerminalStatuses, ActiveStatuses
<1>1. TypeOK'
  BY <1>a DEF TypeOK, ProgramPoints, Ops
<1>2. ControlOK'
  BY <1>a DEF TypeOK, ControlOK, Writing
<1>3. RecoverOK'
  BY <1>a, <1>b DEF TypeOK, RecoverOK, Recovering
<1>4. LifeOK'
  BY <1>a, <1>b DEF TypeOK, LifeOK, Creator
<1>5. QueueSound'
  <2>1. {k \in jobs' : status'[k] = "queued"} = {k \in jobs : status[k] = "queued"}
    BY <1>b
  <2> QED
    BY <2>1, <1>b DEF TypeOK, QueueSound, Queued
<1>6. SlotsOwned'
  <2>1. {k \in jobs' : status'[k] \in ActiveStatuses} = {k \in jobs : status[k] \in ActiveStatuses}
    BY <1>b
  <2> QED
    BY <1>a, <1>b, <2>1 DEF TypeOK, ControlOK, SlotsOwned, Running, Starter
<1>7. SlotsWithinLimit'
  BY DEF SlotsWithinLimit
<1> QED
  BY <1>1, <1>2, <1>3, <1>4, <1>5, <1>6, <1>7

------------------------------------------------------------------------------
(* schedule and the goroutine of a job.                                       *)

LEMMA EventsKeeps ==
  ASSUME IInv, NEW c \in Callers, NEW j \in Jobs, Events(c, j)
  PROVE  IInv'
<1> USE NamesAssumption DEF IInv, Events, Begin, memory, process, store, history
<1>a. c \in Threads /\ c \notin Jobs /\ c # Main /\ Jobs \subseteq Threads
  BY DEF Threads
<1>b. /\ ~Recovering /\ todo = {} /\ daemon # "down" /\ told[j] # "unborn"
      /\ op[c] = "none"
  BY <1>a DEF Serving, ControlOK, RecoverOK, Recovering, LifeOK, Threads
<1>1. TypeOK'
  BY <1>a DEF TypeOK, ProgramPoints, Ops
<1>2. ControlOK'
  BY <1>a DEF TypeOK, ControlOK, Writing
<1>3. RecoverOK'
  BY <1>a, <1>b DEF TypeOK, RecoverOK, Recovering
<1>4. LifeOK'
  BY <1>a, <1>b DEF TypeOK, LifeOK, Creator
<1>5. QueueSound'
  BY DEF QueueSound, Queued
<1>6. SlotsOwned'
  BY <1>a, <1>b DEF TypeOK, SlotsOwned, Running, Starter
<1>7. SlotsWithinLimit'
  BY DEF SlotsWithinLimit
<1> QED
  BY <1>1, <1>2, <1>3, <1>4, <1>5, <1>6, <1>7

LEMMA SchedulePopKeeps ==
  ASSUME IInv, NEW t \in Threads, SchedulePop(t)
  PROVE  IInv'
<1> USE NamesAssumption DEF IInv, SchedulePop, Begin, process, store, history
<1> DEFINE j == Head(queue)
<1>a. Jobs \subseteq Threads
  BY DEF Threads
<1>b. /\ Tail(queue) \in Seq(Jobs) /\ j \in Elements(queue) /\ j \in Jobs
      /\ Elements(Tail(queue)) = Elements(queue) \ {j}
      /\ Distinct(Tail(queue))
  <2>1. queue \in Seq(Jobs) /\ queue # <<>> /\ Distinct(queue)
    BY DEF TypeOK, QueueSound, Distinct, CanStart
  <2> QED
    BY <2>1, QueuePop
<1>c. j \in jobs /\ status[j] = "queued" /\ requests[j] # "none"
  BY <1>b DEF QueueSound, Queued, Elements
<1> HIDE DEF j
<1>d. /\ ~Recovering /\ todo = {} /\ daemon = "up" /\ op[t] # "started" /\ op[t] # "created"
      /\ pc[j] = "idle" /\ j \notin running /\ told[j] # "unborn" /\ t # j
      /\ \A u \in Threads : ~Creator(u, j) /\ ~Starter(u, j)
  <2>1. daemon = "up" /\ op[t] \notin {"started", "created", "interrupted", "requeued"}
    BY DEF CanStart, ControlOK, Writing
  <2>2. ~Recovering /\ todo = {}
    BY <2>1 DEF RecoverOK, Recovering
  <2>3. j \notin running /\ \A u \in Threads : ~Starter(u, j)
    BY <1>b, <1>c DEF SlotsOwned, ActiveStatuses
  <2>4. told[j] # "unborn" /\ pc[j] \in {"idle", "get", "runner"}
        /\ \A u \in Threads : ~Creator(u, j)
    BY <1>b, <1>c DEF LifeOK, TerminalStatuses
  <2>5. pc[j] = "idle"
    BY <1>b, <2>3, <2>4 DEF SlotsOwned, Running
  <2> QED
    BY <2>1, <2>2, <2>3, <2>4, <2>5
<1>e. /\ pc' = [pc EXCEPT ![t] = "append"] /\ op' = [op EXCEPT ![t] = "started"]
      /\ arg' = [arg EXCEPT ![t] = j] /\ running' = running \cup {j}
      /\ status' = [status EXCEPT ![j] = "running"] /\ queue' = Tail(queue)
      /\ pc[t] = "schedule"
      /\ UNCHANGED <<jobs, requests, own, snap, eventLogs, daemon, todo, files, disk, told, executed, spoiled>>
      /\ signaled' = signaled \ {j} /\ Cardinality(running) < MaxRunning
  BY DEF j, CanStart
<1> HIDE DEF SchedulePop
<1>1. TypeOK'
  <2>1. queue' \in Seq(Jobs) /\ status' \in [Jobs -> Statuses] /\ running' \subseteq Jobs
        /\ signaled' \subseteq Jobs
    BY <1>b, <1>e DEF TypeOK, Statuses, ActiveStatuses
  <2>2. /\ pc' \in [Threads -> ProgramPoints] /\ op' \in [Threads -> Ops]
        /\ arg' \in [Threads -> Jobs \cup {NoJob}]
    BY <1>b, <1>e DEF TypeOK, ProgramPoints, Ops
  <2> QED
    BY <1>e, <2>1, <2>2 DEF TypeOK
<1>2. ControlOK'
  BY <1>b, <1>e DEF TypeOK, ControlOK, Writing
<1>3. RecoverOK'
  BY <1>d, <1>e DEF TypeOK, RecoverOK, Recovering
<1>4. LifeOK'
  BY <1>a, <1>b, <1>d, <1>e DEF TypeOK, LifeOK, Creator
<1>5. QueueSound'
  <2>1. Queued' = Queued \ {j}
    BY <1>b, <1>e DEF Elements, Queued
  <2>2. {k \in jobs' : status'[k] = "queued"} = {k \in jobs : status[k] = "queued"} \ {j}
    BY <1>b, <1>e DEF TypeOK
  <2> QED
    BY <1>b, <1>e, <2>1, <2>2 DEF QueueSound, Distinct
<1>6. SlotsOwned'
  <2>1. running' = {k \in jobs' : status'[k] \in ActiveStatuses}
    BY <1>b, <1>c, <1>e DEF TypeOK, SlotsOwned, ActiveStatuses
  <2>2. \A k \in Jobs : (Running(k)' <=> Running(k)) /\ (pc'[k] = "idle" <=> pc[k] = "idle")
    BY <1>a, <1>e DEF TypeOK, Running
  <2>3. \A u \in Threads : \A k \in Jobs : Starter(u, k)' <=> Starter(u, k) \/ (u = t /\ k = j)
    BY <1>d, <1>e DEF TypeOK, Starter
  <2> QED
    BY <1>b, <1>d, <1>e, <2>1, <2>2, <2>3 DEF SlotsOwned
<1>7. SlotsWithinLimit'
  <2>1. IsFiniteSet(running) /\ Cardinality(running) < MaxRunning /\ j \notin running
    BY <1>d, <1>e DEF SlotsWithinLimit
  <2>2. IsFiniteSet(running') /\ Cardinality(running') = Cardinality(running) + 1
    BY <1>e, <2>1, FS_AddElement
  <2> QED
    BY <2>1, <2>2, LimitAssumption, FS_CardinalityType DEF SlotsWithinLimit
<1> QED
  BY <1>1, <1>2, <1>3, <1>4, <1>5, <1>6, <1>7

LEMMA ScheduleStopKeeps ==
  ASSUME IInv, NEW t \in Threads, ScheduleStop(t)
  PROVE  IInv'
<1> USE DEF ScheduleStop, memory, process, store, history
<1>1. CASE t \in Callers
  <2> USE <1>1 DEF Goto
  <2>1. TypeOK'
    BY DEF IInv, TypeOK, ProgramPoints
  <2>2. ControlOK'
    BY DEF IInv, TypeOK, ControlOK, Writing
  <2> QED
    BY <2>1, <2>2, MoveFrame
<1>2. CASE t \notin Callers
  <2> USE <1>2 DEF Return
  <2>1. TypeOK'
    BY DEF IInv, TypeOK, ProgramPoints, Ops
  <2> QED
    BY <2>1, LeaveFrame DEF Writing
<1> QED
  BY <1>1, <1>2

LEMMA SpawnKeeps ==
  ASSUME IInv, NEW t \in Threads, Spawn(t)
  PROVE  IInv'
<1> USE NamesAssumption DEF IInv, Spawn, memory, process, store, history
<1> DEFINE j == arg[t]
<1>a. Jobs \subseteq Threads
  BY DEF Threads
<1>b. /\ op[t] = "started" /\ j \in Jobs /\ Starter(t, j) /\ pc[j] = "idle" /\ t # j
      /\ j \in running /\ ~Recovering /\ todo = {} /\ daemon # "down"
      /\ \A u \in Threads : ~Creator(u, j)
  <2>1. op[t] = "started" /\ j \in Jobs /\ Starter(t, j)
    BY DEF ControlOK, Starter
  <2>2. pc[j] = "idle" /\ j \in running
    BY <2>1 DEF SlotsOwned
  <2>3. ~Recovering /\ todo = {} /\ daemon # "down"
    BY <2>2 DEF RecoverOK
  <2>4. status[j] \in ActiveStatuses /\ j \in jobs
    BY <2>2 DEF SlotsOwned
  <2>5. \A u \in Threads : ~Creator(u, j)
    BY <2>1, <2>4 DEF LifeOK, ActiveStatuses
  <2> QED
    BY <2>1, <2>2, <2>3, <2>5
<1>c. told[j] # "unborn"
  BY <1>b DEF LifeOK
<1>d. /\ pc' = [pc EXCEPT ![t] = "schedule", ![j] = "get"]
      /\ arg' = [arg EXCEPT ![t] = NoJob, ![j] = j]
      /\ op' = [op EXCEPT ![t] = "none"] /\ pc[t] = "spawn"
      /\ UNCHANGED <<own, snap, memory, process, store, history>>
  OBVIOUS
<1> HIDE DEF Spawn, j
<1>e. \A u \in Threads : pc'[u] = IF u = j THEN "get" ELSE IF u = t THEN "schedule" ELSE pc[u]
  BY <1>a, <1>b, <1>d DEF TypeOK
<1>g. \A u \in Threads : arg'[u] = IF u = j THEN j ELSE IF u = t THEN NoJob ELSE arg[u]
  BY <1>a, <1>b, <1>d DEF TypeOK
<1>h. \A u \in Threads : op'[u] = IF u = t THEN "none" ELSE op[u]
  BY <1>a, <1>b, <1>d DEF TypeOK
<1>i. pc[t] = "spawn" /\ pc[j] = "idle" /\ t # j
  BY <1>b, <1>d
<1>f. op[j] = "none"
  BY <1>a, <1>b DEF ControlOK
<1>1. TypeOK'
  BY <1>a, <1>b, <1>d DEF TypeOK, ProgramPoints, Ops
<1>2. ControlOK'
  <2> SUFFICES ASSUME NEW u \in Threads  PROVE ControlOK!(u)'
    BY DEF ControlOK
  <2>1. CASE u = j
    BY <2>1, <1>b, <1>e, <1>f, <1>g, <1>h DEF ControlOK, Writing
  <2>2. CASE u = t
    BY <2>2, <1>b, <1>e, <1>h DEF ControlOK, Writing
  <2>3. CASE u # j /\ u # t
    BY <2>3, <1>e, <1>g, <1>h DEF ControlOK, Writing
  <2> QED
    BY <2>1, <2>2, <2>3
<1>3. RecoverOK'
  <2>1. Main \in Threads /\ op[Main] \notin {"interrupted", "requeued"} /\ pc[Main] # "recover"
    BY <1>b DEF Threads, Recovering
  <2>2. ~Recovering'
    BY <1>b, <1>e, <1>h, <2>1, <1>f DEF Recovering
  <2> QED
    BY <1>b, <1>d, <2>2 DEF RecoverOK
<1>4. LifeOK'
  <2>1. \A u \in Threads : \A k \in Jobs : Creator(u, k)' => Creator(u, k)
    BY <1>a, <1>b, <1>f, <1>g, <1>h DEF Creator
  <2>2. \A k \in Jobs : IF k = j THEN pc'[k] = "get" ELSE
                        pc'[k] = pc[k] \/ (pc'[k] = "schedule" /\ pc[k] = "spawn")
    <3> SUFFICES ASSUME NEW k \in Jobs  PROVE IF k = j THEN pc'[k] = "get" ELSE
                        pc'[k] = pc[k] \/ (pc'[k] = "schedule" /\ pc[k] = "spawn")
      OBVIOUS
    <3> QED
      BY <1>a, <1>e, <1>i
  <2>3. \A k \in Jobs : k # j /\ (\A u \in Threads : arg[u] # k) => \A u \in Threads : arg'[u] # k
    BY <1>a, <1>g, NamesAssumption
  <2>4. UNCHANGED <<jobs, todo, files, told, status, requests>>
    BY <1>d
  <2> QED
    BY <1>b, <1>c, <2>1, <2>2, <2>3, <2>4 DEF LifeOK
<1>5. QueueSound'
  BY <1>d DEF QueueSound, Queued
<1>6. SlotsOwned'
  <2>1. \A k \in Jobs : /\ Running(k)' <=> Running(k) \/ k = j
                        /\ pc'[k] = "idle" <=> pc[k] = "idle" /\ k # j
    BY <1>a, <1>e, <1>i DEF Running
  <2>2. \A u \in Threads : \A k \in Jobs : Starter(u, k)' <=> Starter(u, k) /\ u # t
    BY <1>b, <1>f, <1>g, <1>h DEF Starter
  <2>3. \A u \in Threads : Starter(u, j) => u = t
    BY <1>b DEF SlotsOwned
  <2>4. \A k \in Jobs : Starter(t, k) => k = j
    BY DEF Starter, j
  <2>5. UNCHANGED <<running, jobs, status>>
    BY <1>d
  <2> QED
    BY <1>b, <2>1, <2>2, <2>3, <2>4, <2>5 DEF SlotsOwned
<1>7. SlotsWithinLimit'
  BY <1>d DEF SlotsWithinLimit
<1> QED
  BY <1>1, <1>2, <1>3, <1>4, <1>5, <1>6, <1>7

LEMMA RunJobKeeps ==
  ASSUME IInv, NEW j \in Jobs, RunJob(j)
  PROVE  IInv'
<1> USE NamesAssumption DEF IInv, RunJob, Goto, memory, process, store
<1>a. Jobs \subseteq Threads
  BY DEF Threads
<1>1. TypeOK'
  BY <1>a DEF TypeOK, ProgramPoints
<1>2. ControlOK'
  BY <1>a DEF TypeOK, ControlOK, Writing
<1>3. RecoverOK'
  BY <1>a DEF TypeOK, RecoverOK, Recovering
<1>4. LifeOK'
  BY <1>a DEF TypeOK, LifeOK, Creator
<1>5. QueueSound'
  BY DEF QueueSound, Queued
<1>6. SlotsOwned'
  <2>1. \A u \in Threads : /\ pc'[u] = "idle" <=> pc[u] = "idle"
                           /\ pc'[u] \in {"get", "runner"} <=> pc[u] \in {"get", "runner"}
    BY <1>a DEF TypeOK
  <2> QED
    BY <2>1, SlotsFrame
<1>7. SlotsWithinLimit'
  BY DEF SlotsWithinLimit
<1> QED
  BY <1>1, <1>2, <1>3, <1>4, <1>5, <1>6, <1>7

LEMMA FinishKeeps ==
  ASSUME IInv, NEW j \in Jobs, Finish(j)
  PROVE  IInv'
<1> USE NamesAssumption DEF IInv, Finish, Begin, process, store, history
<1>a. Jobs \subseteq Threads
  BY DEF Threads
<1>b. /\ j \in running /\ j \in jobs /\ status[j] \in ActiveStatuses
      /\ ~Recovering /\ todo = {} /\ daemon # "down"
      /\ told[j] # "unborn" /\ op[j] \notin {"started", "created"}
      /\ \A u \in Threads : ~Creator(u, j) /\ ~Starter(u, j)
  <2>1. j \in running /\ j \in jobs /\ status[j] \in ActiveStatuses
    BY DEF SlotsOwned, Running
  <2>2. ~Recovering /\ todo = {} /\ daemon # "down"
    BY <2>1 DEF RecoverOK
  <2>3. told[j] # "unborn" /\ op[j] \notin {"started", "created"}
    BY <1>a, <2>1 DEF LifeOK, ControlOK, Writing
  <2>4. \A u \in Threads : ~Creator(u, j)
    BY <2>1 DEF LifeOK, ActiveStatuses
  <2>5. \A u \in Threads : ~Starter(u, j)
    BY DEF SlotsOwned
  <2> QED
    BY <2>1, <2>2, <2>3, <2>4, <2>5
<1>c. PICK s \in {"canceled", "succeeded", "failed"} : status' = [status EXCEPT ![j] = s]
  BY <1>b DEF Outcomes
<1>d. /\ running' = running \ {j}
      /\ pc' = [pc EXCEPT ![j] = "append"] /\ op' = [op EXCEPT ![j] = "finished"]
      /\ arg' = [arg EXCEPT ![j] = j]
      /\ UNCHANGED <<own, snap, jobs, queue, requests, eventLogs, signaled, process, store, history>>
  BY <1>b
<1>1. TypeOK'
  <2>1. status' \in [Jobs -> Statuses] /\ running' \subseteq Jobs
    BY <1>c, <1>d DEF TypeOK, Statuses, TerminalStatuses
  <2> QED
    BY <1>d, <2>1 DEF TypeOK, ProgramPoints, Ops
<1>2. ControlOK'
  BY <1>a, <1>d DEF TypeOK, ControlOK, Writing
<1>3. RecoverOK'
  BY <1>b, <1>d DEF TypeOK, RecoverOK, Recovering
<1>4. LifeOK'
  BY <1>a, <1>b, <1>c, <1>d DEF TypeOK, LifeOK, Creator, TerminalStatuses
<1>5. QueueSound'
  <2>1. {k \in jobs' : status'[k] = "queued"} = {k \in jobs : status[k] = "queued"}
    BY <1>b, <1>c, <1>d DEF TypeOK, ActiveStatuses
  <2> QED
    BY <1>d, <2>1 DEF QueueSound, Queued
<1>6. SlotsOwned'
  <2>1. running' = {k \in jobs' : status'[k] \in ActiveStatuses}
    BY <1>b, <1>c, <1>d DEF TypeOK, SlotsOwned, ActiveStatuses
  <2>2. \A k \in Jobs : /\ Running(k)' <=> Running(k) /\ k # j
                        /\ pc'[k] = "idle" <=> pc[k] = "idle"
    BY <1>a, <1>d DEF TypeOK, Running
  <2>3. \A u \in Threads : \A k \in Jobs : Starter(u, k)' <=> Starter(u, k)
    BY <1>a, <1>b, <1>d DEF TypeOK, Starter
  <2> QED
    BY <1>b, <1>d, <2>1, <2>2, <2>3 DEF SlotsOwned
<1>7. SlotsWithinLimit'
  <2>1. IsFiniteSet(running') /\ Cardinality(running') = Cardinality(running) - 1
    BY <1>b, <1>d, FS_RemoveElement DEF SlotsWithinLimit
  <2> QED
    BY <2>1, LimitAssumption, FS_CardinalityType DEF SlotsWithinLimit
<1> QED
  BY <1>1, <1>2, <1>3, <1>4, <1>5, <1>6, <1>7

------------------------------------------------------------------------------
(* The end of the process and its recovery.                                   *)

LEMMA ShutdownKeeps ==
  ASSUME IInv, ShutdownCancel \/ ShutdownReturn
  PROVE  IInv'
<1>a. UNCHANGED <<todo, memory, store, locals, history>>
      /\ daemon # "down" /\ daemon' \in {"stopping", "stopped"}
  BY DEF ShutdownCancel, ShutdownReturn, Serving
<1>b. ~Recovering
  <2>1. CASE ShutdownCancel
    BY <2>1 DEF ShutdownCancel, Serving, IInv, ControlOK, Recovering, Threads
  <2>2. CASE ShutdownReturn
    BY <2>2 DEF ShutdownReturn, IInv, RecoverOK
  <2> QED
    BY <2>1, <2>2
<1> USE <1>a DEF IInv, memory, store, locals, history
<1>1. TypeOK'
  BY DEF TypeOK
<1>2. ControlOK'
  BY DEF ControlOK
<1>3. RecoverOK'
  BY <1>b DEF RecoverOK, Recovering
<1>4. LifeOK'
  BY DEF LifeOK, Creator
<1>5. QueueSound'
  BY DEF QueueSound, Queued
<1>6. SlotsOwned'
  BY DEF SlotsOwned, Running, Starter
<1>7. SlotsWithinLimit'
  BY DEF SlotsWithinLimit
<1> QED
  BY <1>1, <1>2, <1>3, <1>4, <1>5, <1>6, <1>7

LEMMA ExitKeeps ==
  ASSUME IInv, Exit
  PROVE  IInv'
<1> USE NamesAssumption DEF IInv, Exit, store, history
<1>a. Jobs \subseteq Threads /\ Main \in Threads /\ \A j \in Jobs : NoJob # j
  BY DEF Threads
<1>1. TypeOK'
  <2>1. spoiled' \subseteq Jobs
    BY DEF TypeOK, ControlOK, Writing
  <2> QED
    BY <2>1, EmptySeq DEF TypeOK, ProgramPoints, Ops, Statuses
<1>2. ControlOK'
  BY DEF ControlOK, Writing
<1>3. RecoverOK'
  BY <1>a DEF RecoverOK, Recovering
<1>4. LifeOK'
  BY <1>a DEF LifeOK, Creator
<1>5. QueueSound'
  BY EmptySeq DEF QueueSound, Queued
<1>6. SlotsOwned'
  BY <1>a DEF SlotsOwned, Running, Starter
<1>7. SlotsWithinLimit'
  BY FS_EmptySet, LimitAssumption DEF SlotsWithinLimit
<1> QED
  BY <1>1, <1>2, <1>3, <1>4, <1>5, <1>6, <1>7

LEMMA RestartKeeps ==
  ASSUME IInv, Restart
  PROVE  IInv'
<1> USE NamesAssumption DEF IInv, Restart, Goto, memory, store, history
<1>a. Jobs \subseteq Threads /\ Main \in Threads /\ Main \notin Jobs
  BY DEF Threads
<1>b. jobs = {} /\ running = {} /\ queue = <<>> /\ \A t \in Threads : pc[t] = "idle" /\ op[t] = "none"
  BY DEF RecoverOK, ControlOK
<1>1. TypeOK'
  BY DEF TypeOK, ProgramPoints
<1>2. ControlOK'
  BY <1>b DEF TypeOK, ControlOK, Writing
<1>3. RecoverOK'
  BY <1>a, <1>b DEF TypeOK, RecoverOK, Recovering
<1>4. LifeOK'
  BY <1>a, <1>b DEF TypeOK, LifeOK, Creator
<1>5. QueueSound'
  BY DEF QueueSound, Queued
<1>6. SlotsOwned'
  BY <1>a, <1>b DEF TypeOK, SlotsOwned, Running, Starter
<1>7. SlotsWithinLimit'
  BY DEF SlotsWithinLimit
<1> QED
  BY <1>1, <1>2, <1>3, <1>4, <1>5, <1>6, <1>7

LEMMA VisitKeeps ==
  ASSUME IInv, NEW j \in Jobs,
         RecoverSkip(j) \/ RecoverInterrupted(j) \/ RecoverWaiting(j) \/ RecoverSettled(j)
  PROVE  IInv'
<1> USE NamesAssumption DEF IInv
<1>a. Jobs \subseteq Threads /\ Main \in Threads /\ Main \notin Jobs
  BY DEF Threads
<1>b. /\ pc[Main] = "recover" /\ j \in todo /\ todo' = todo \ {j}
      /\ UNCHANGED <<daemon, running, eventLogs, signaled, files, disk, told, executed, spoiled>>
  BY DEF RecoverSkip, RecoverInterrupted, RecoverWaiting, RecoverSettled, Visit, store, history
<1>c. /\ daemon = "up" /\ running = {} /\ j \notin jobs /\ todo' \cap jobs = {}
      /\ \A t \in Threads : t # Main => pc[t] = "idle"
      /\ told[j] # "unborn" /\ pc[j] = "idle"
  BY <1>a, <1>b DEF RecoverOK, Recovering, LifeOK
<1>d. /\ \A t \in Threads, k \in Jobs : ~Creator(t, k) /\ ~Starter(t, k)
      /\ op[Main] \notin {"started", "created"}
  BY <1>a, <1>b, <1>c DEF ControlOK, Creator, Starter, Writing
<1>e. jobs' \subseteq jobs \cup {j} /\ jobs \subseteq jobs'
  BY DEF RecoverSkip, RecoverInterrupted, RecoverWaiting, RecoverSettled
<1>f. \/ UNCHANGED locals
      \/ Begin(Main, "append", "interrupted", j)
      \/ Begin(Main, "lookup", "requeued", j)
  BY DEF RecoverSkip, RecoverInterrupted, RecoverWaiting, RecoverSettled
<1>g. \/ UNCHANGED <<jobs, status, queue, requests>>
      \/ /\ jobs' = jobs \cup {j} /\ UNCHANGED <<queue, requests>>
         /\ \E s \in TerminalStatuses \cup {"garbled"} : status' = [status EXCEPT ![j] = s]
      \/ /\ jobs' = jobs \cup {j} /\ status' = [status EXCEPT ![j] = "queued"]
         /\ queue' = Append(queue, j) /\ requests' = [requests EXCEPT ![j] = "stored"]
  BY DEF RecoverSkip, RecoverInterrupted, RecoverWaiting, RecoverSettled, TerminalStatuses
<1>h. \A t \in Threads : t # Main => pc'[t] = pc[t] /\ op'[t] = op[t]
  BY <1>f DEF TypeOK, Begin, locals
<1>j. \A t \in Threads : arg'[t] = arg[t] \/ arg'[t] = j
  BY <1>f DEF TypeOK, Begin, locals
<1>k. /\ pc'[Main] \in {"recover", "append", "lookup"}
      /\ op'[Main] \notin {"started", "created"}
      /\ pc'[Main] # "recover" => op'[Main] \in {"interrupted", "requeued"}
  BY <1>a, <1>b, <1>d, <1>f DEF TypeOK, Begin, locals
<1>l. \A k \in Jobs : pc'[k] = "idle"
  BY <1>a, <1>c, <1>h
<1>m. \A t \in Threads : op'[t] \notin {"started", "created"}
  BY <1>c, <1>h, <1>k DEF ControlOK
<1>i. /\ queue \in Seq(Jobs) /\ Distinct(queue) /\ j \notin Elements(queue)
      /\ Append(queue, j) \in Seq(Jobs) /\ Distinct(Append(queue, j))
      /\ Elements(Append(queue, j)) = Elements(queue) \cup {j}
  <2>1. queue \in Seq(Jobs) /\ Distinct(queue) /\ j \notin Elements(queue)
    BY <1>c DEF TypeOK, QueueSound, Queued, Distinct, Elements
  <2> QED
    BY <2>1, QueueAppend
<1>1. TypeOK'
  <2>1. queue' \in Seq(Jobs) /\ requests' \in [Jobs -> {"none", "sent", "stored"}]
    BY <1>g, <1>i DEF TypeOK
  <2>3. status' \in [Jobs -> Statuses]
    BY <1>g DEF TypeOK, Statuses, TerminalStatuses
  <2>4. jobs' \subseteq Jobs
    BY <1>g DEF TypeOK
  <2>2. /\ pc' \in [Threads -> ProgramPoints] /\ op' \in [Threads -> Ops]
        /\ arg' \in [Threads -> Jobs \cup {NoJob}] /\ UNCHANGED <<own, snap>>
    <3>1. /\ pc \in [Threads -> ProgramPoints] /\ op \in [Threads -> Ops]
          /\ arg \in [Threads -> Jobs \cup {NoJob}]
      BY DEF TypeOK
    <3>2. {"append", "lookup"} \subseteq ProgramPoints /\ {"interrupted", "requeued"} \subseteq Ops
      BY DEF ProgramPoints, Ops
    <3>3. CASE UNCHANGED locals
      BY <3>1, <3>3 DEF locals
    <3>4. CASE Begin(Main, "append", "interrupted", j) \/ Begin(Main, "lookup", "requeued", j)
      BY <3>1, <3>2, <3>4 DEF Begin
    <3> QED
      BY <1>f, <3>3, <3>4
  <2> QED
    BY <1>b, <2>1, <2>2, <2>3, <2>4 DEF TypeOK
<1>2. ControlOK'
  BY <1>a, <1>b, <1>f DEF TypeOK, ControlOK, Begin, locals, Writing
<1>3. RecoverOK'
  <2>1. Recovering'
    BY <1>k DEF Recovering
  <2>2. \A t \in Threads : t # Main => pc'[t] = "idle"
    BY <1>c, <1>h
  <2> QED
    BY <1>b, <1>c, <1>e, <2>1, <2>2 DEF RecoverOK
<1>4. LifeOK'
  <2>1. \A t \in Threads, k \in Jobs : ~Creator(t, k)'
    BY <1>m DEF Creator
  <2>2. \A k \in Jobs : told'[k] = "unborn" =>
          k \notin jobs' /\ k \notin todo' /\ files'[k] = {} /\ \A t \in Threads : arg'[t] # k
    BY <1>b, <1>c, <1>e, <1>j DEF LifeOK
  <2> QED
    BY <1>l, <2>1, <2>2 DEF LifeOK
<1>5. QueueSound'
  <2>1. CASE UNCHANGED <<jobs, status, queue, requests>>
    BY <2>1 DEF QueueSound, Queued
  <2>2. CASE /\ jobs' = jobs \cup {j} /\ UNCHANGED <<queue, requests>>
             /\ \E s \in TerminalStatuses \cup {"garbled"} : status' = [status EXCEPT ![j] = s]
    <3>1. {k \in jobs' : status'[k] = "queued"} = {k \in jobs : status[k] = "queued"}
      BY <1>c, <2>2 DEF TypeOK, TerminalStatuses
    <3> QED
      BY <2>2, <3>1 DEF QueueSound, Queued
  <2>3. CASE /\ jobs' = jobs \cup {j} /\ status' = [status EXCEPT ![j] = "queued"]
             /\ queue' = Append(queue, j) /\ requests' = [requests EXCEPT ![j] = "stored"]
    <3>1. {k \in jobs' : status'[k] = "queued"} = {k \in jobs : status[k] = "queued"} \cup {j}
      BY <2>3 DEF TypeOK
    <3>2. Queued' = Queued \cup {j}
      BY <1>i, <2>3 DEF Queued, Elements
    <3>3. \A k \in Queued' : requests'[k] # "none"
      BY <2>3, <3>2 DEF TypeOK, QueueSound
    <3> QED
      BY <1>i, <2>3, <3>1, <3>2, <3>3 DEF QueueSound, Distinct
  <2> QED
    BY <1>g, <2>1, <2>2, <2>3
<1>6. SlotsOwned'
  <2>1. {k \in jobs' : status'[k] \in ActiveStatuses} = {}
    BY <1>b, <1>c, <1>g DEF TypeOK, SlotsOwned, ActiveStatuses, TerminalStatuses
  <2>2. \A t \in Threads, k \in Jobs : ~Starter(t, k)'
    BY <1>m DEF Starter
  <2> QED
    BY <1>b, <1>c, <1>l, <2>1, <2>2 DEF SlotsOwned, Running
<1>7. SlotsWithinLimit'
  BY <1>b DEF SlotsWithinLimit
<1> QED
  BY <1>1, <1>2, <1>3, <1>4, <1>5, <1>6, <1>7

LEMMA RecoverDoneKeeps ==
  ASSUME IInv, RecoverDone
  PROVE  IInv'
<1> USE NamesAssumption DEF IInv, RecoverDone, Begin, memory, process, store, history
<1>a. Jobs \subseteq Threads /\ Main \in Threads /\ Main \notin Jobs
      /\ op[Main] \notin {"started", "created"}
  BY DEF Threads, ControlOK, Writing
<1>1. TypeOK'
  BY DEF TypeOK, ProgramPoints, Ops
<1>2. ControlOK'
  BY DEF TypeOK, ControlOK, Writing
<1>3. RecoverOK'
  BY <1>a DEF TypeOK, RecoverOK, Recovering
<1>4. LifeOK'
  BY <1>a DEF TypeOK, LifeOK, Creator
<1>5. QueueSound'
  BY DEF QueueSound, Queued
<1>6. SlotsOwned'
  BY <1>a DEF TypeOK, SlotsOwned, Running, Starter
<1>7. SlotsWithinLimit'
  BY DEF SlotsWithinLimit
<1> QED
  BY <1>1, <1>2, <1>3, <1>4, <1>5, <1>6, <1>7

------------------------------------------------------------------------------
(* The invariant.                                                             *)

LEMMA InitIInv == Init => IInv
<1> SUFFICES ASSUME Init PROVE IInv
  OBVIOUS
<1> USE NamesAssumption DEF Init, IInv
<1>a. Jobs \subseteq Threads /\ Main \in Threads /\ \A j \in Jobs : NoJob # j
  BY DEF Threads
<1>1. TypeOK
  BY EmptySeq DEF TypeOK, ProgramPoints, Ops, Statuses, FileContents
<1>2. ControlOK
  BY DEF ControlOK, Writing
<1>3. RecoverOK
  BY <1>a DEF RecoverOK, Recovering
<1>4. LifeOK
  BY <1>a DEF LifeOK, Creator
<1>5. QueueSound
  BY EmptySeq DEF QueueSound, Queued
<1>6. SlotsOwned
  BY <1>a DEF SlotsOwned, Running, Starter
<1>7. SlotsWithinLimit
  BY FS_EmptySet, LimitAssumption DEF SlotsWithinLimit
<1> QED
  BY <1>1, <1>2, <1>3, <1>4, <1>5, <1>6, <1>7

LEMMA NextIInv == IInv /\ [Next]_vars => IInv'
<1> SUFFICES ASSUME IInv, [Next]_vars PROVE IInv'
  OBVIOUS
<1>1. ASSUME NEW t \in Threads, Advance(t)  PROVE IInv'
  <2>1. CASE AppendEvent(t) \/ AppendEventFails(t)
    BY <2>1, AppendEventKeeps
  <2>2. CASE Save(t)
    BY <2>2, SaveKeeps, SaveFailsKeeps DEF Save
  <2>3. CASE Schedule(t)
    BY <2>3, SchedulePopKeeps, ScheduleStopKeeps, SpawnKeeps DEF Schedule
  <2>4. CASE t \in Callers /\ Handle(t)
    BY <2>4, EnqueueKeeps, HandleMovesKeep, HandleEndsKeep DEF Handle
  <2>5. CASE t \in Jobs /\ RunJob(t)
    BY <2>5, RunJobKeeps
  <2>6. CASE t = Main /\ Recover
    BY <2>6, VisitKeeps, RecoverDoneKeeps DEF Recover
  <2> QED
    BY <1>1, <2>1, <2>2, <2>3, <2>4, <2>5, <2>6 DEF Advance
<1>2. ASSUME NEW c \in Callers, NEW j \in Jobs, Call(c, j)  PROVE IInv'
  BY <1>2, CreateKeeps, CancelWaitingKeeps, CancelRunningKeeps, DeleteKeeps, EventsKeeps DEF Call
<1>3. ASSUME NEW j \in Jobs, Finish(j)  PROVE IInv'
  BY <1>3, FinishKeeps
<1>4. CASE ShutdownCancel \/ ShutdownReturn \/ Exit \/ Restart
  BY <1>4, ShutdownKeeps, ExitKeeps, RestartKeeps
<1>5. CASE UNCHANGED vars
  <2> USE <1>5 DEF vars, memory, process, store, locals, history, IInv
  <2>1. TypeOK' /\ ControlOK' /\ RecoverOK' /\ LifeOK'
    BY DEF TypeOK, ControlOK, RecoverOK, Recovering, LifeOK, Creator
  <2>2. QueueSound' /\ SlotsOwned' /\ SlotsWithinLimit'
    BY DEF QueueSound, Queued, SlotsOwned, Running, Starter, SlotsWithinLimit
  <2> QED
    BY <2>1, <2>2
<1> QED
  BY <1>1, <1>2, <1>3, <1>4, <1>5 DEF Next

(* The inductive invariant holds in every state of the job manager.           *)
THEOREM Invariance == Spec => []IInv
<1>1. Init => IInv
  BY InitIInv
<1>2. IInv /\ [Next]_vars => IInv'
  BY NextIInv
<1> QED
  BY <1>1, <1>2, PTL DEF Spec

(* Every variable keeps its type: m.jobs, m.queue, m.running, the job files.  *)
THEOREM TypeCorrect == Spec => []TypeOK
<1>1. IInv => TypeOK
  BY DEF IInv
<1> QED
  BY <1>1, Invariance, PTL

(* The queue holds the queued jobs, each once and with its request.           *)
THEOREM QueueCorrect == Spec => []QueueSound
<1>1. IInv => QueueSound
  BY DEF IInv
<1> QED
  BY <1>1, Invariance, PTL

(* Every slot of m.running belongs to one active job and to one goroutine that*)
(* will give it back: none leaks, none is given back twice.                   *)
THEOREM SlotsCorrect == Spec => []SlotsOwned
<1>1. IInv => SlotsOwned
  BY DEF IInv
<1> QED
  BY <1>1, Invariance, PTL

(* run never dereferences a job that Get did not find.                        *)
THEOREM RunnerFindsJob == Spec => []RunnerHasJob
<1>1. IInv => RunnerHasJob
  BY DEF IInv, SlotsOwned, RunnerHasJob
<1> QED
  BY <1>1, Invariance, PTL

(* max_running_jobs bounds the goroutines inside RunJob, not just the map.    *)
THEOREM LimitRespected == Spec => []RunnersWithinLimit
<1>1. ASSUME IInv PROVE RunnersWithinLimit
  <2> DEFINE active == {j \in Jobs : Running(j)}
  <2>1. active \subseteq running
    BY <1>1 DEF IInv, SlotsOwned
  <2>2. IsFiniteSet(running) /\ Cardinality(running) <= MaxRunning
    BY <1>1 DEF IInv, SlotsWithinLimit
  <2>3. /\ Cardinality(active) <= Cardinality(running)
        /\ Cardinality(active) \in Nat /\ Cardinality(running) \in Nat
    BY <2>1, <2>2, FS_Subset, FS_CardinalityType
  <2> QED
    BY <2>2, <2>3, LimitAssumption DEF RunnersWithinLimit
<1> QED
  BY <1>1, Invariance, PTL

------------------------------------------------------------------------------
(* The life of a job.                                                         *)

(* One step of the manager, seen through the statuses of the jobs it has.     *)
Appears(j) == /\ j \notin jobs /\ jobs' = jobs \cup {j}
              /\ \E s \in {"created", "queued", "garbled"} \cup TerminalStatuses :
                    status' = [status EXCEPT ![j] = s]

Disappears(j) == /\ j \in jobs /\ jobs' = jobs \ {j} /\ status' = status
                 /\ status[j] \in TerminalStatuses

Changes(j, s) == j \in jobs /\ jobs' = jobs /\ status' = [status EXCEPT ![j] = s]

Edge(j) == \/ status[j] = "created" /\ Changes(j, "queued")
           \/ status[j] = "canceled" /\ Changes(j, "queued") /\ \E c \in Callers : Creator(c, j)
           \/ status[j] = "queued" /\ Changes(j, "running") /\ Cardinality(running) < MaxRunning
           \/ status[j] \in {"created", "queued"} /\ Changes(j, "canceled")
           \/ status[j] = "running" /\ Changes(j, "canceling")
           \/ status[j] = "running" /\ \E s \in {"succeeded", "failed", "canceled"} : Changes(j, s)
           \/ status[j] = "canceling" /\ Changes(j, "canceled")

LifeStep == \/ UNCHANGED <<jobs, status>>
            \/ daemon' = "down" /\ jobs' = {}
            \/ \E j \in Jobs : Appears(j) \/ Disappears(j) \/ Edge(j)

LEMMA EveryStepIsLifeStep ==
  ASSUME IInv, [Next]_vars
  PROVE  LifeStep
<1> USE DEF IInv
<1>1. ASSUME NEW t \in Threads, Advance(t)  PROVE LifeStep
  <2>1. CASE AppendEvent(t) \/ AppendEventFails(t)
    BY <2>1 DEF AppendEvent, AppendEventFails, memory, LifeStep
  <2>2. CASE Save(t)
    BY <2>2 DEF Save, SaveLookup, SaveMarshal, SaveOpen, SavePut, SaveFails, memory, LifeStep
  <2>3. CASE SchedulePop(t)
    <3> DEFINE j == Head(queue)
    <3>1. queue \in Seq(Jobs) /\ queue # <<>> /\ Distinct(queue)
      BY <2>3 DEF SchedulePop, CanStart, TypeOK, QueueSound, Distinct
    <3>2. j \in Jobs /\ j \in Elements(queue)
      BY <3>1, QueuePop
    <3>3. j \in jobs /\ status[j] = "queued"
      BY <3>2 DEF QueueSound, Queued, Elements
    <3>4. Edge(j)
      BY <2>3, <3>3 DEF SchedulePop, CanStart, Edge, Changes
    <3> QED
      BY <3>2, <3>4 DEF LifeStep
  <2>4. CASE ScheduleStop(t) \/ Spawn(t)
    BY <2>4 DEF ScheduleStop, Spawn, memory, LifeStep
  <2>5. CASE t \in Callers /\ Enqueue(t)
    <3> DEFINE j == arg[t]
    <3>1. j \in Jobs /\ Creator(t, j)
      BY <2>5 DEF Enqueue, ControlOK, Creator
    <3>2. j \in jobs => Edge(j)
      <4>1. j \in jobs => status[j] \in {"created", "canceled"}
        BY <3>1 DEF LifeOK
      <4> QED
        BY <2>5, <3>1, <4>1 DEF Enqueue, Edge, Changes
    <3> QED
      BY <2>5, <3>1, <3>2 DEF Enqueue, LifeStep
  <2>6. CASE t \in Callers /\ Handle(t) /\ ~Enqueue(t)
    BY <2>6 DEF Handle, EnsureJobFiles, EnsureJobFilesFails, Signal, Reply,
                RemoveEntries, RemoveDir, RemoveFails, OpenEvents, memory, LifeStep
  <2>7. CASE t \in Jobs /\ RunJob(t)
    BY <2>7 DEF RunJob, memory, LifeStep
  <2>8. CASE t = Main /\ Recover
    <3>1. CASE RecoverDone
      BY <3>1 DEF RecoverDone, memory, LifeStep
    <3>2. ASSUME NEW j \in Jobs, RecoverSkip(j)  PROVE LifeStep
      BY <3>2 DEF RecoverSkip, LifeStep
    <3>3. ASSUME NEW j \in Jobs, RecoverInterrupted(j) \/ RecoverWaiting(j) \/ RecoverSettled(j)
          PROVE  Appears(j)
      <4>1. j \notin jobs
        BY <3>3 DEF RecoverInterrupted, RecoverWaiting, RecoverSettled, Visit, RecoverOK, Recovering
      <4> QED
        BY <3>3, <4>1 DEF RecoverInterrupted, RecoverWaiting, RecoverSettled, Appears, TerminalStatuses
    <3> QED
      BY <2>8, <3>1, <3>2, <3>3 DEF Recover, LifeStep
  <2> QED
    BY <1>1, <2>1, <2>2, <2>3, <2>4, <2>5, <2>6, <2>7, <2>8 DEF Advance, Schedule
<1>2. ASSUME NEW c \in Callers, NEW j \in Jobs, Call(c, j)  PROVE LifeStep
  <2>1. CASE Create(c, j)
    BY <2>1 DEF Create, LifeOK, Appears, LifeStep
  <2>2. CASE CancelWaiting(c, j) \/ CancelRunning(c, j)
    BY <2>2 DEF CancelWaiting, CancelRunning, Edge, Changes, LifeStep
  <2>3. CASE Delete(c, j)
    BY <2>3 DEF Delete, Disappears, LifeStep
  <2>4. CASE Events(c, j)
    BY <2>4 DEF Events, memory, LifeStep
  <2> QED
    BY <1>2, <2>1, <2>2, <2>3, <2>4 DEF Call
<1>3. ASSUME NEW j \in Jobs, Finish(j)  PROVE LifeStep
  <2>1. j \in jobs /\ status[j] \in {"running", "canceling"}
    BY <1>3 DEF Finish, SlotsOwned, Running, ActiveStatuses
  <2>2. \E s \in Outcomes(j) : Changes(j, s)
    BY <1>3, <2>1 DEF Finish, Changes
  <2>3. Edge(j)
    BY <2>1, <2>2 DEF Outcomes, Edge
  <2> QED
    BY <2>3 DEF LifeStep
<1>4. CASE ShutdownCancel \/ ShutdownReturn \/ Restart
  BY <1>4 DEF ShutdownCancel, ShutdownReturn, Restart, memory, LifeStep
<1>5. CASE Exit
  BY <1>5 DEF Exit, LifeStep
<1>6. CASE UNCHANGED vars
  BY <1>6 DEF vars, memory, LifeStep
<1> QED
  BY <1>1, <1>2, <1>3, <1>4, <1>5, <1>6 DEF Next

(* A cancel of a running job prevails over what RunJob returns.               *)
THEOREM CancelWins == Spec => CancelPrevails
<1> DEFINE A == \A j \in jobs : status[j] = "canceling" =>
                  \/ daemon' = "down"
                  \/ j \in jobs' /\ status'[j] \in {"canceling", "canceled"}
<1>1. ASSUME IInv, [Next]_vars  PROVE A
  <2>1. LifeStep
    BY <1>1, EveryStepIsLifeStep
  <2>2. TypeOK
    BY <1>1 DEF IInv
  <2> QED
    BY <2>1, <2>2 DEF LifeStep, Appears, Disappears, Edge, Changes, TypeOK, TerminalStatuses
<1>2. IInv /\ [Next]_vars => [A]_vars
  BY <1>1
<1> QED
  BY <1>2, Invariance, PTL DEF Spec, CancelPrevails

(* Only Delete takes a job out of a terminal status, or the enqueue of a      *)
(* Create that is still at work on a job canceled meanwhile.                  *)
THEOREM TerminalStays == Spec => TerminalIsFinal
<1> DEFINE A == \A j \in jobs : status[j] \in TerminalStatuses =>
                  \/ daemon' = "down" \/ j \notin jobs'
                  \/ status'[j] = status[j]
                  \/ status[j] = "canceled" /\ status'[j] = "queued" /\ (\E c \in Callers : Creator(c, j))
<1>1. ASSUME IInv, [Next]_vars  PROVE A
  <2>1. LifeStep
    BY <1>1, EveryStepIsLifeStep
  <2>2. TypeOK
    BY <1>1 DEF IInv
  <2> QED
    BY <2>1, <2>2 DEF LifeStep, Appears, Disappears, Edge, Changes, TypeOK, TerminalStatuses
<1>2. IInv /\ [Next]_vars => [A]_vars
  BY <1>1
<1> QED
  BY <1>2, Invariance, PTL DEF Spec, TerminalIsFinal

------------------------------------------------------------------------------
(* The manager implements the life of a job that JobLifecycle describes.      *)

life == [j \in Jobs |-> IF j \in jobs THEN status[j] ELSE "absent"]

LEMMA ActiveLives ==
  ASSUME IInv
  PROVE  {k \in Jobs : life[k] \in Promise!Active} = running
BY DEF IInv, TypeOK, SlotsOwned, life, Promise!Active, ActiveStatuses

LEMMA LifeStepRefines ==
  ASSUME IInv, LifeStep
  PROVE  Promise!LifecycleNext \/ life' = life
<1>1. jobs \subseteq Jobs /\ status \in [Jobs -> Statuses]
  BY DEF IInv, TypeOK
<1>2. CASE UNCHANGED <<jobs, status>>
  BY <1>2 DEF life
<1>3. CASE daemon' = "down" /\ jobs' = {}
  BY <1>3 DEF Promise!LifecycleNext, Promise!Die
<1>4. ASSUME NEW j \in Jobs, Appears(j)  PROVE Promise!LifecycleNext
  <2> PICK s \in {"created", "queued", "garbled"} \cup TerminalStatuses :
             status' = [status EXCEPT ![j] = s]
    BY <1>4 DEF Appears
  <2>1. life[j] = "absent" /\ life' = [life EXCEPT ![j] = s]
    BY <1>1, <1>4 DEF Appears, life
  <2>2. Promise!Submit(j) \/ Promise!Return(j)
    BY <2>1 DEF Promise!Submit, Promise!Return, Promise!Move, Promise!Terminal, TerminalStatuses, life
  <2> QED
    BY <2>2 DEF Promise!LifecycleNext
<1>5. ASSUME NEW j \in Jobs, Disappears(j)  PROVE Promise!LifecycleNext
  <2>1. life[j] \in Promise!Terminal /\ life' = [life EXCEPT ![j] = "absent"]
    BY <1>1, <1>5 DEF Disappears, life, Promise!Terminal, TerminalStatuses
  <2>2. Promise!Forget(j)
    BY <2>1 DEF Promise!Forget, Promise!Move, life
  <2> QED
    BY <2>2 DEF Promise!LifecycleNext
<1>6. ASSUME NEW j \in Jobs, Edge(j)  PROVE Promise!LifecycleNext
  <2>1. \A s : Changes(j, s) => life[j] = status[j] /\ life' = [life EXCEPT ![j] = s]
    BY <1>1 DEF Changes, life
  <2>2. Cardinality({k \in Jobs : life[k] \in Promise!Active}) = Cardinality(running)
    BY ActiveLives
  <2>3. Promise!Queue(j) \/ Promise!Start(j) \/ Promise!Cancel(j) \/ Promise!End(j)
    <3>1. ASSUME status[j] = "queued", Changes(j, "running"), Cardinality(running) < MaxRunning
          PROVE  Promise!Start(j)
      <4>1. \A S : Promise!Cardinality(S) = Cardinality(S)
        BY DEF Cardinality, Promise!Cardinality, IsFiniteSet, Promise!IsFiniteSet
      <4> QED
        BY <2>1, <2>2, <3>1, <4>1 DEF Promise!Start, Promise!Move, life
    <3>2. ASSUME status[j] \in {"created", "canceled"}, Changes(j, "queued")  PROVE Promise!Queue(j)
      BY <2>1, <3>2 DEF Promise!Queue, Promise!Move, life
    <3>3. ASSUME \/ status[j] \in {"created", "queued"} /\ Changes(j, "canceled")
                 \/ status[j] = "running" /\ Changes(j, "canceling")
          PROVE  Promise!Cancel(j)
      BY <2>1, <3>3 DEF Promise!Cancel, Promise!Move, life
    <3>4. ASSUME \/ status[j] = "running" /\ \E s \in {"succeeded", "failed", "canceled"} : Changes(j, s)
                 \/ status[j] = "canceling" /\ Changes(j, "canceled")
          PROVE  Promise!End(j)
      BY <2>1, <3>4 DEF Promise!End, Promise!Move, life
    <3> QED
      BY <1>6, <3>1, <3>2, <3>3, <3>4 DEF Edge
  <2> QED
    BY <2>3 DEF Promise!LifecycleNext
<1> QED
  BY <1>2, <1>3, <1>4, <1>5, <1>6 DEF LifeStep

(* Every behaviour of the manager, seen through the statuses of the jobs it   *)
(* has, is one of JobLifecycle: its edges, its limit, its ways to end.        *)
THEOREM Refinement == Spec => Implements
<1>1. Init => Promise!LifecycleInit
  BY DEF Init, Promise!LifecycleInit, life
<1>2. IInv /\ [Next]_vars => [Promise!LifecycleNext]_life
  BY EveryStepIsLifeStep, LifeStepRefines
<1> QED
  BY <1>1, <1>2, Invariance, PTL DEF Spec, Implements, Promise!Lifecycle, life

------------------------------------------------------------------------------
(* The end of the daemon, and the wakeups of schedule.                        *)

(* A thread moves itself; only `go m.run(..)` moves another.                  *)
OthersStay(t) == \A u \in Threads \ {t} : pc'[u] = pc[u] /\ op'[u] = op[u]

LEMMA ThreadsMoveAlone ==
  ASSUME IInv, NEW t \in Threads
  PROVE  /\ Advance(t) /\ ~Spawn(t) => OthersStay(t)
         /\ \A j \in Jobs : t \in Callers /\ Call(t, j) => OthersStay(t)
         /\ t \in Jobs /\ Finish(t) => OthersStay(t)
<1>1. pc \in [Threads -> ProgramPoints] /\ op \in [Threads -> Ops]
  BY DEF IInv, TypeOK
<1>2. ASSUME NEW x, NEW y, pc' = [pc EXCEPT ![t] = x], op' = [op EXCEPT ![t] = y] \/ op' = op
      PROVE  OthersStay(t)
  BY <1>1, <1>2 DEF OthersStay
<1>3. UNCHANGED <<pc, op>> => OthersStay(t)
  BY DEF OthersStay
<1>4. AppendEvent(t) \/ AppendEventFails(t) \/ SaveLookup(t) \/ SaveMarshal(t) => OthersStay(t)
  BY <1>2 DEF AppendEvent, AppendEventFails, SaveLookup, SaveMarshal, Goto
<1>5. SaveOpen(t) \/ SavePut(t) => OthersStay(t)
  BY <1>2 DEF SaveOpen, SavePut, Goto
<1>6. SaveFails(t) => OthersStay(t)
  BY <1>2 DEF SaveFails
<1>7. SchedulePop(t) \/ ScheduleStop(t) => OthersStay(t)
  BY <1>2 DEF SchedulePop, ScheduleStop, Goto, Return, Begin
<1>8. Handle(t) => OthersStay(t)
  BY <1>2 DEF Handle, EnsureJobFiles, EnsureJobFilesFails, Enqueue, Signal, Reply, RemoveEntries,
              RemoveDir, RemoveFails, OpenEvents, Goto, Return, Begin
<1>9. RunJob(t) => OthersStay(t)
  BY <1>2 DEF RunJob, Goto
<1>10. t = Main /\ Recover => OthersStay(t)
  BY <1>2, <1>3 DEF Recover, RecoverSkip, RecoverInterrupted, RecoverWaiting, RecoverSettled,
                    RecoverDone, Begin, locals
<1>11. \A j \in Jobs : Call(t, j) => OthersStay(t)
  BY <1>2 DEF Call, Create, CancelWaiting, CancelRunning, Delete, Events, Receive, Begin
<1>12. t \in Jobs /\ Finish(t) => OthersStay(t)
  BY <1>2 DEF Finish, Return, Begin
<1> QED
  BY <1>4, <1>5, <1>6, <1>7, <1>8, <1>9, <1>10, <1>11, <1>12 DEF Advance, Save, Schedule

(* Slots are taken by SchedulePop and given back by Finish.                   *)
LEMMA SlotsChange ==
  /\ \A t \in Threads : Advance(t) /\ ~SchedulePop(t) => UNCHANGED running
  /\ \A c \in Callers, j \in Jobs : Call(c, j) => UNCHANGED running
<1>1. ASSUME NEW t \in Threads, Advance(t), ~SchedulePop(t)  PROVE UNCHANGED running
  <2>1. Save(t) => UNCHANGED running
    BY DEF Save, SaveLookup, SaveMarshal, SaveOpen, SavePut, SaveFails, memory
  <2>2. AppendEvent(t) \/ AppendEventFails(t) \/ ScheduleStop(t) \/ Spawn(t) \/ RunJob(t) => UNCHANGED running
    BY DEF AppendEvent, AppendEventFails, ScheduleStop, Spawn, RunJob, memory
  <2>3. Handle(t) => UNCHANGED running
    BY DEF Handle, EnsureJobFiles, EnsureJobFilesFails, Enqueue, Signal, Reply, RemoveEntries,
           RemoveDir, RemoveFails, OpenEvents, memory
  <2>4. Recover => UNCHANGED running
    BY DEF Recover, RecoverSkip, RecoverInterrupted, RecoverWaiting, RecoverSettled, RecoverDone,
           Visit, memory
  <2> QED
    BY <1>1, <2>1, <2>2, <2>3, <2>4 DEF Advance, Schedule
<1>2. \A c \in Callers, j \in Jobs : Call(c, j) => UNCHANGED running
  BY DEF Call, Create, CancelWaiting, CancelRunning, Delete, Events, memory
<1> QED
  BY <1>1, <1>2

LEMMA StoppedKeeps ==
  ASSUME IInv, StoppedIsQuiet, [Next]_vars
  PROVE  StoppedIsQuiet'
<1> USE DEF IInv
<1>1. CASE daemon # "stopped"
  <2>1. SUFFICES ASSUME daemon' = "stopped"  PROVE ShutdownReturn
    <3>1. ShutdownReturn => running = {} /\ \A j \in Jobs : pc[j] = "idle"
      BY DEF ShutdownReturn, InFlight, SlotsOwned, Starter, Running, TypeOK
    <3> QED
      BY <3>1 DEF ShutdownReturn, StoppedIsQuiet, memory, locals
  <2> QED
    BY <1>1, <2>1 DEF Next, Advance, AppendEvent, AppendEventFails, Save, SaveLookup, SaveMarshal,
         SaveOpen, SavePut, SaveFails, Schedule, SchedulePop, ScheduleStop, Spawn, Handle, EnsureJobFiles,
         EnsureJobFilesFails, Enqueue, Signal, Reply, RemoveEntries, RemoveDir, RemoveFails, OpenEvents,
         RunJob, Recover, RecoverSkip, RecoverInterrupted, RecoverWaiting, RecoverSettled, Visit,
         RecoverDone, Call, Create, CancelWaiting, CancelRunning, Delete, Events, Finish,
         ShutdownCancel, Exit, Restart, process, vars
<1>2. CASE daemon = "stopped"
  <2>0. running = {} /\ \A j \in Jobs : pc[j] = "idle"
    BY <1>2 DEF StoppedIsQuiet
  <2>a. \A t \in Threads, j \in Jobs : ~Starter(t, j)
    BY <2>0 DEF SlotsOwned
  <2>1. SUFFICES ASSUME daemon' = "stopped"
                 PROVE  running' = {} /\ \A j \in Jobs : pc'[j] = "idle"
    BY DEF StoppedIsQuiet
  <2>2. ASSUME NEW t \in Threads, Advance(t)  PROVE running' = {} /\ \A j \in Jobs : pc'[j] = "idle"
    <3>1. ~SchedulePop(t) /\ ~Spawn(t)
      BY <1>2, <2>a DEF SchedulePop, CanStart, Spawn, ControlOK, Starter
    <3>2. t \notin Jobs
      <4>1. Advance(t) => pc[t] # "idle"
        BY DEF Advance, AppendEvent, AppendEventFails, Save, SaveLookup, SaveMarshal, SaveOpen,
               SavePut, SaveFails, WriteFails,
               Schedule, SchedulePop, ScheduleStop, Spawn, Handle, EnsureJobFiles,
               EnsureJobFilesFails, Enqueue, Signal, Reply, RemoveEntries, RemoveDir, RemoveFails, OpenEvents,
               RunJob, Recover, RecoverSkip, RecoverInterrupted, RecoverWaiting, RecoverSettled,
               RecoverDone, Visit
      <4> QED
        BY <2>0, <2>2, <4>1
    <3>3. OthersStay(t)
      BY <2>2, <3>1, ThreadsMoveAlone
    <3>4. UNCHANGED running
      BY <2>2, <3>1, SlotsChange
    <3> QED
      BY <2>0, <3>2, <3>3, <3>4 DEF OthersStay, Threads
  <2>3. ASSUME NEW c \in Callers, NEW j \in Jobs, Call(c, j)
        PROVE  running' = {} /\ \A k \in Jobs : pc'[k] = "idle"
    <3>1. OthersStay(c) /\ UNCHANGED running
      BY <2>3, ThreadsMoveAlone, SlotsChange DEF Threads
    <3> QED
      BY <2>0, <3>1, NamesAssumption DEF OthersStay, Threads
  <2>4. \A j \in Jobs : ~Finish(j)
    BY <2>0 DEF Finish
  <2>5. ~ShutdownCancel /\ ~ShutdownReturn /\ ~Restart /\ ~Exit
    BY <1>2, <2>1 DEF ShutdownCancel, ShutdownReturn, Restart, Exit
  <2>6. CASE UNCHANGED vars
    BY <2>0, <2>6 DEF vars, memory, locals
  <2> QED
    BY <2>2, <2>3, <2>4, <2>5, <2>6 DEF Next
<1> QED
  BY <1>1, <1>2

(* A Shutdown that returned because every run has ended leaves nothing behind *)
(* that runs, and nothing that starts a job later.                            *)
THEOREM ShutdownIsFinal == Spec => []StoppedIsQuiet
<1>1. Init => StoppedIsQuiet
  BY DEF Init, StoppedIsQuiet
<1>2. IInv /\ StoppedIsQuiet /\ [Next]_vars => StoppedIsQuiet'
  BY StoppedKeeps
<1> QED
  BY <1>1, <1>2, Invariance, PTL DEF Spec

(* A step that leaves what CanStart looks at alone keeps a thread on its way, *)
(* if that thread stays on its way when it is the one that moves.             *)
LEMMA WakeupFrame ==
  ASSUME NoLostWakeup, UNCHANGED <<daemon, queue, running>>, NEW t \in Threads, OthersStay(t),
         CanStart /\ WillSchedule(t) => WillSchedule(t)'
  PROVE  NoLostWakeup'
<1>1. CanStart' = CanStart
  BY DEF CanStart
<1>2. \A u \in Threads \ {t} : WillSchedule(u) => WillSchedule(u)'
  BY DEF OthersStay, WillSchedule
<1> QED
  BY <1>1, <1>2 DEF NoLostWakeup

LEMMA WakeupWhenWriting ==
  ASSUME IInv, NoLostWakeup, NEW t \in Threads, AppendEvent(t) \/ AppendEventFails(t) \/ Save(t)
  PROVE  NoLostWakeup'
<1>1. pc \in [Threads -> ProgramPoints] /\ op \in [Threads -> Ops]
  BY DEF IInv, TypeOK
<1>2. OthersStay(t)
  <2>1. Advance(t) /\ ~Spawn(t)
    BY DEF Advance, AppendEvent, AppendEventFails, Save, SaveLookup, SaveMarshal, SaveOpen,
           SavePut, SaveFails, WriteFails, Spawn
  <2> QED
    BY <2>1, ThreadsMoveAlone
<1>3. UNCHANGED <<daemon, queue, running>>
  BY DEF AppendEvent, AppendEventFails, Save, SaveLookup, SaveMarshal, SaveOpen, SavePut,
         SaveFails, memory, process
<1>4. pc[t] \in Writing
  BY DEF Writing, AppendEvent, AppendEventFails, Save, SaveLookup, SaveMarshal, SaveOpen, SavePut, SaveFails,
     WriteFails
<1>5. ASSUME op[t] \in {"queued", "started", "finished", "interrupted", "requeued"}
      PROVE  op'[t] = op[t] /\ pc'[t] \in Writing \cup {"schedule", "spawn", "recover"}
  <2>1. AfterAppend(op[t]) = "lookup" /\ AfterSave(op[t]) \in {"schedule", "spawn", "recover"}
    BY <1>5 DEF AfterAppend, AfterSave
  <2>2. CASE AppendEvent(t) \/ AppendEventFails(t)
    BY <1>1, <2>1, <2>2 DEF AppendEvent, AppendEventFails, Goto, Writing
  <2>3. CASE SaveLookup(t) \/ SaveMarshal(t)
    BY <1>1, <2>1, <2>3 DEF SaveLookup, SaveMarshal, Writing
  <2>4. CASE SaveOpen(t)
    BY <1>1, <2>4 DEF SaveOpen, Goto, Writing
  <2>5. CASE SavePut(t)
    BY <1>1, <2>1, <2>5 DEF SavePut
  <2>6. CASE SaveFails(t)
    BY <1>1, <1>5, <2>1, <2>6 DEF SaveFails
  <2> QED
    BY <2>2, <2>3, <2>4, <2>5, <2>6 DEF Save
<1>6. WillSchedule(t) => WillSchedule(t)'
  BY <1>4, <1>5 DEF WillSchedule, Writing
<1> QED
  BY <1>2, <1>3, <1>6, WakeupFrame

LEMMA WakeupKeeps ==
  ASSUME IInv, NoLostWakeup, [Next]_vars
  PROVE  NoLostWakeup'
<1>0. /\ pc \in [Threads -> ProgramPoints] /\ op \in [Threads -> Ops]
      /\ \A t \in Threads : WillSchedule(t) => pc[t] # "idle"
  BY DEF IInv, TypeOK, WillSchedule, Writing
<1>1. ASSUME NEW t \in Threads, Advance(t)  PROVE NoLostWakeup'
  <2>1. CASE AppendEvent(t) \/ AppendEventFails(t) \/ Save(t)
    BY <2>1, WakeupWhenWriting
  <2>2. CASE SchedulePop(t)
    <3>1. pc'[t] = "append" /\ op'[t] = "started"
      BY <1>0, <2>2 DEF SchedulePop, Begin
    <3> QED
      BY <3>1 DEF NoLostWakeup, WillSchedule, Writing
  <2>3. CASE ScheduleStop(t)
    <3>1. ~CanStart /\ CanStart' = CanStart
      BY <2>3 DEF ScheduleStop, CanStart, memory, process
    <3> QED
      BY <3>1 DEF NoLostWakeup
  <2>4. CASE Spawn(t)
    <3>1. pc' = [pc EXCEPT ![t] = "schedule", ![arg[t]] = "get"]
      BY <2>4 DEF Spawn
    <3>2. arg[t] # t
      BY <2>4 DEF Spawn, IInv, ControlOK, SlotsOwned, Starter
    <3>3. pc'[t] = "schedule"
      BY <1>0, <3>1, <3>2
    <3> QED
      BY <3>3 DEF NoLostWakeup, WillSchedule
  <2>5. CASE t \in Callers /\ Enqueue(t)
    <3>1. pc'[t] = "append" /\ op'[t] = "queued"
      BY <1>0, <2>5 DEF Enqueue, Begin
    <3> QED
      BY <3>1 DEF NoLostWakeup, WillSchedule, Writing
  <2>6. CASE t \in Callers /\ Handle(t) /\ ~Enqueue(t)
    <3>1. OthersStay(t)
      <4>1. ~Spawn(t)
        BY <2>6 DEF Handle, EnsureJobFiles, EnsureJobFilesFails, Signal, Reply, RemoveEntries,
                    RemoveDir, RemoveFails, OpenEvents, Spawn
      <4> QED
        BY <1>1, <4>1, ThreadsMoveAlone
    <3>2. UNCHANGED <<daemon, queue, running>> /\ ~WillSchedule(t)
      BY <2>6 DEF Handle, EnsureJobFiles, EnsureJobFilesFails, Signal, Reply, RemoveEntries,
                  RemoveDir, RemoveFails, OpenEvents, memory, process, WillSchedule, Writing
    <3> QED
      BY <3>1, <3>2, WakeupFrame
  <2>7. CASE t \in Jobs /\ RunJob(t)
    <3>1. OthersStay(t)
      BY <1>1, <2>7, ThreadsMoveAlone DEF RunJob, Spawn
    <3>2. UNCHANGED <<daemon, queue, running>> /\ ~WillSchedule(t)
      BY <2>7 DEF RunJob, memory, process, WillSchedule, Writing
    <3> QED
      BY <3>1, <3>2, WakeupFrame
  <2>8. CASE t = Main /\ Recover
    <3>1. CASE RecoverDone
      BY <1>0, <2>8, <3>1 DEF RecoverDone, Begin, NoLostWakeup, WillSchedule
    <3>2. ASSUME NEW j \in Jobs,
                 RecoverSkip(j) \/ RecoverSettled(j) \/ RecoverInterrupted(j) \/ RecoverWaiting(j)
          PROVE  WillSchedule(Main)'
      <4>1. pc[Main] = "recover"
        BY <3>2 DEF RecoverSkip, RecoverSettled, RecoverInterrupted, RecoverWaiting, Visit
      <4>2. CASE UNCHANGED locals
        BY <4>1, <4>2 DEF locals, WillSchedule
      <4>3. CASE Begin(Main, "append", "interrupted", j) \/ Begin(Main, "lookup", "requeued", j)
        BY <1>0, <2>8, <4>3 DEF Begin, WillSchedule, Writing
      <4> QED
        BY <3>2, <4>2, <4>3 DEF RecoverSkip, RecoverSettled, RecoverInterrupted, RecoverWaiting
    <3> QED
      BY <2>8, <3>1, <3>2 DEF Recover, NoLostWakeup
  <2> QED
    BY <1>1, <2>1, <2>2, <2>3, <2>4, <2>5, <2>6, <2>7, <2>8 DEF Advance, Schedule
<1>2. ASSUME NEW c \in Callers, NEW j \in Jobs, Call(c, j)  PROVE NoLostWakeup'
  <2>1. OthersStay(c) /\ c \in Threads /\ pc[c] = "idle"
    BY <1>2, ThreadsMoveAlone DEF Call, Create, CancelWaiting, CancelRunning, Delete, Events, Threads
  <2>2. \A u \in Threads : WillSchedule(u) => WillSchedule(u)'
    BY <1>0, <2>1 DEF OthersStay, WillSchedule
  <2>3. UNCHANGED <<daemon, running>> /\ (queue = <<>> => queue' = <<>>)
    <3>1. CASE CancelWaiting(c, j)
      BY <3>1, EmptySeq DEF CancelWaiting, RemoveQueued, process
    <3>2. CASE Create(c, j) \/ CancelRunning(c, j) \/ Delete(c, j) \/ Events(c, j)
      BY <3>2 DEF Create, CancelRunning, Delete, Events, memory, process
    <3> QED
      BY <1>2, <3>1, <3>2 DEF Call
  <2> QED
    BY <2>2, <2>3 DEF NoLostWakeup, CanStart
<1>3. ASSUME NEW j \in Jobs, Finish(j)  PROVE NoLostWakeup'
  <2>1. j \in jobs
    BY <1>3 DEF Finish, IInv, SlotsOwned, Running
  <2>2. pc'[j] = "append" /\ op'[j] = "finished" /\ j \in Threads
    BY <1>0, <1>3, <2>1 DEF Finish, Begin, Threads
  <2> QED
    BY <2>2 DEF NoLostWakeup, WillSchedule, Writing
<1>4. CASE ShutdownCancel \/ ShutdownReturn
  BY <1>4 DEF ShutdownCancel, ShutdownReturn, NoLostWakeup, CanStart
<1>5. CASE Exit \/ Restart
  BY <1>5 DEF Exit, Restart, IInv, RecoverOK, memory, NoLostWakeup, CanStart
<1>6. CASE UNCHANGED vars
  BY <1>6 DEF vars, memory, process, locals, NoLostWakeup, CanStart, WillSchedule
<1> QED
  BY <1>1, <1>2, <1>3, <1>4, <1>5, <1>6 DEF Next

(* A waiting job and a free slot always have a thread on its way to schedule: *)
(* the calls at the end of enqueue, run and NewManager are enough.            *)
THEOREM WakeupsSuffice == Spec => []NoLostWakeup
<1>1. Init => NoLostWakeup
  BY DEF Init, NoLostWakeup, CanStart
<1>2. IInv /\ NoLostWakeup /\ [Next]_vars => NoLostWakeup'
  BY WakeupKeeps
<1> QED
  BY <1>1, <1>2, Invariance, PTL DEF Spec

------------------------------------------------------------------------------
(* First in, first out: what a step does to the order of the queue.           *)

Newcomer == \E j \in Jobs \ Queued : queue' = Append(queue, j) /\ running' = running
Removal == \E j \in Jobs : queue' = RemoveQueued(queue, j) /\ running' = running
Start == /\ queue # <<>>
         /\ queue' = Tail(queue) /\ running' = running \cup {Head(queue)}
Death == daemon' = "down" /\ queue' = <<>>

QueueStep == \/ queue' = queue /\ running' \subseteq running
             \/ Newcomer \/ Removal \/ Start \/ Death

LEMMA EveryStepIsQueueStep ==
  ASSUME IInv, [Next]_vars
  PROVE  QueueStep
<1> USE DEF IInv
<1>1. ASSUME NEW t \in Threads, Advance(t)  PROVE QueueStep
  <2>1. CASE AppendEvent(t) \/ AppendEventFails(t) \/ Save(t)
    BY <2>1 DEF AppendEvent, AppendEventFails, Save, SaveLookup, SaveMarshal, SaveOpen, SavePut,
                SaveFails, memory, QueueStep
  <2>2. CASE SchedulePop(t)
    BY <2>2 DEF SchedulePop, CanStart, QueueStep, Start
  <2>3. CASE ScheduleStop(t) \/ Spawn(t)
    BY <2>3 DEF ScheduleStop, Spawn, memory, QueueStep
  <2>4. CASE t \in Callers /\ Enqueue(t)
    <3> DEFINE j == arg[t]
    <3>1. j \in Jobs /\ Creator(t, j)
      BY <2>4 DEF Enqueue, ControlOK, Creator
    <3>2. j \in jobs => status[j] \in {"created", "canceled"}
      BY <3>1 DEF LifeOK
    <3>3. j \notin Queued
      BY <3>2 DEF QueueSound
    <3> QED
      BY <2>4, <3>1, <3>3 DEF Enqueue, QueueStep, Newcomer
  <2>5. CASE t \in Callers /\ Handle(t) /\ ~Enqueue(t)
    BY <2>5 DEF Handle, EnsureJobFiles, EnsureJobFilesFails, Signal, Reply,
                RemoveEntries, RemoveDir, RemoveFails, OpenEvents, memory, QueueStep
  <2>6. CASE t \in Jobs /\ RunJob(t)
    BY <2>6 DEF RunJob, memory, QueueStep
  <2>7. CASE t = Main /\ Recover
    <3>1. CASE RecoverDone
      BY <3>1 DEF RecoverDone, memory, QueueStep
    <3>2. ASSUME NEW j \in Jobs, RecoverSkip(j) \/ RecoverInterrupted(j) \/ RecoverSettled(j)
          PROVE  QueueStep
      BY <3>2 DEF RecoverSkip, RecoverInterrupted, RecoverSettled, Visit, QueueStep
    <3>3. ASSUME NEW j \in Jobs, RecoverWaiting(j)  PROVE QueueStep
      <4>1. j \notin Queued
        BY <3>3 DEF RecoverWaiting, Visit, RecoverOK, Recovering, QueueSound
      <4> QED
        BY <3>3, <4>1 DEF RecoverWaiting, Visit, QueueStep, Newcomer
    <3> QED
      BY <2>7, <3>1, <3>2, <3>3 DEF Recover
  <2> QED
    BY <1>1, <2>1, <2>2, <2>3, <2>4, <2>5, <2>6, <2>7 DEF Advance, Schedule
<1>2. ASSUME NEW c \in Callers, NEW j \in Jobs, Call(c, j)  PROVE QueueStep
  BY <1>2 DEF Call, Create, CancelWaiting, CancelRunning, Delete, Events, memory, QueueStep, Removal
<1>3. ASSUME NEW j \in Jobs, Finish(j)  PROVE QueueStep
  BY <1>3 DEF Finish, QueueStep
<1>4. CASE ShutdownCancel \/ ShutdownReturn \/ Restart
  BY <1>4 DEF ShutdownCancel, ShutdownReturn, Restart, memory, QueueStep
<1>5. CASE Exit
  BY <1>5 DEF Exit, QueueStep, Death
<1>6. CASE UNCHANGED vars
  BY <1>6 DEF vars, memory, QueueStep
<1> QED
  BY <1>1, <1>2, <1>3, <1>4, <1>5, <1>6 DEF Next

LEMMA BeforeIsStrict ==
  ASSUME NEW q \in Seq(Jobs), Distinct(q), NEW j, NEW k, Before(q, j, k)
  PROVE  ~Before(q, k, j) /\ q # <<>> /\ k # Head(q) /\ j \in Elements(q) /\ k \in Elements(q)
<1>1. Len(q) \in Nat /\ DOMAIN q = 1..Len(q) /\ (q # <<>> => Head(q) = q[1]) /\ (q = <<>> => Len(q) = 0)
  BY LenProperties, HeadTailProperties, EmptySeq
<1> QED
  BY <1>1 DEF Distinct, Before, Elements

(* No step puts a job in front of one that waits.                             *)
LEMMA OrderIsKept ==
  ASSUME queue \in Seq(Jobs), Distinct(queue), QueueStep,
         NEW j \in Elements(queue), NEW k, Before(queue', k, j)
  PROVE  Before(queue, k, j)
<1>1. Len(queue) \in Nat /\ DOMAIN queue = 1..Len(queue)
  BY LenProperties
<1>2. PICK a \in DOMAIN queue', b \in DOMAIN queue' : a < b /\ queue'[a] = k /\ queue'[b] = j
  BY DEF Before
<1>3. CASE Newcomer
  <2>1. PICK x \in Jobs \ Queued : queue' = Append(queue, x)
    BY <1>3 DEF Newcomer
  <2>2. /\ DOMAIN queue' = 1..(Len(queue) + 1) /\ queue'[Len(queue) + 1] = x
        /\ \A i \in 1..Len(queue) : queue'[i] = queue[i]
    BY <2>1, AppendProperties
  <2>3. b # Len(queue) + 1
    BY <1>2, <2>1, <2>2 DEF Queued, Elements
  <2> QED
    BY <1>1, <1>2, <2>2, <2>3 DEF Before
<1>4. CASE Start
  <2>1. /\ DOMAIN queue' = 1..(Len(queue) - 1)
        /\ \A i \in 1..(Len(queue) - 1) : queue'[i] = queue[i + 1]
    BY <1>4, HeadTailProperties DEF Start
  <2>2. a + 1 \in DOMAIN queue /\ b + 1 \in DOMAIN queue /\ a + 1 < b + 1
    BY <1>1, <1>2, <2>1
  <2> QED
    BY <1>2, <2>1, <2>2 DEF Before
<1>5. CASE Removal
  <2>1. PICK x \in Jobs : queue' = RemoveQueued(queue, x)
    BY <1>5 DEF Removal
  <2>2. CASE ~ \E i \in 1..Len(queue) : queue[i] = x
    BY <1>2, <2>1, <2>2 DEF RemoveQueued, Before
  <2>3. CASE \E i \in 1..Len(queue) : queue[i] = x
    <3> DEFINE i == CHOOSE l \in 1..Len(queue) : queue[l] = x
    <3>1. /\ i \in 1..Len(queue)
          /\ queue' = [l \in 1..(Len(queue) - 1) |-> IF l < i THEN queue[l] ELSE queue[l + 1]]
      BY <2>1, <2>3 DEF RemoveQueued
    <3> HIDE DEF i
    <3> DEFINE at(l) == IF l < i THEN l ELSE l + 1
    <3>2. /\ at(a) \in DOMAIN queue /\ at(b) \in DOMAIN queue /\ at(a) < at(b)
          /\ queue[at(a)] = k /\ queue[at(b)] = j
      BY <1>1, <1>2, <3>1
    <3> HIDE DEF at
    <3> QED
      BY <3>2 DEF Before
  <2> QED
    BY <2>2, <2>3
<1>6. CASE Death
  BY <1>2, <1>6, EmptySeq DEF Death
<1>7. CASE queue' = queue
  BY <1>7
<1> QED
  BY <1>3, <1>4, <1>5, <1>6, <1>7 DEF QueueStep

(* Jobs start in the order in which they were queued, whatever cancels take   *)
(* out of the queue meanwhile.                                                *)
THEOREM FirstInFirstOut == Spec => FifoOrder
<1> DEFINE A == \A j, k \in Jobs :
                  /\ j \in Queued /\ k \notin Queued => ~Before(queue', k, j)
                  /\ Before(queue, j, k) /\ daemon' # "down" =>
                       /\ k \in running' => ~(\E i \in DOMAIN queue' : queue'[i] = j)
                       /\ ~Before(queue', k, j)
<1>1. ASSUME IInv, [Next]_vars  PROVE A
  <2>1. QueueStep
    BY <1>1, EveryStepIsQueueStep
  <2>2. /\ queue \in Seq(Jobs) /\ Distinct(queue) /\ Queued = Elements(queue)
        /\ Queued \cap running = {}
    BY <1>1 DEF IInv, TypeOK, QueueSound, SlotsOwned, ActiveStatuses, Distinct, Queued, Elements
  <2>3. ASSUME NEW j \in Jobs, NEW k \in Jobs, j \in Queued, k \notin Queued
        PROVE  ~Before(queue', k, j)
    BY <2>1, <2>2, <2>3, OrderIsKept, BeforeIsStrict
  <2>4. ASSUME NEW j \in Jobs, NEW k \in Jobs, Before(queue, j, k), daemon' # "down"
        PROVE  k \notin running' /\ ~Before(queue', k, j)
    <3>1. /\ ~Before(queue, k, j) /\ queue # <<>> /\ k # Head(queue)
          /\ j \in Elements(queue) /\ k \in Elements(queue)
      BY <2>2, <2>4, BeforeIsStrict
    <3>2. k \notin running'
      BY <2>1, <2>2, <2>4, <3>1 DEF QueueStep, Newcomer, Removal, Start, Death
    <3> QED
      BY <2>1, <2>2, <3>1, <3>2, OrderIsKept
  <2> QED
    BY <2>3, <2>4
<1>2. IInv /\ [Next]_vars => [A]_vars
  BY <1>1
<1> QED
  BY <1>2, Invariance, PTL DEF Spec, FifoOrder
=============================================================================
