--------------------------- MODULE AppJobs_proofs ----------------------------
(***************************************************************************)
(* Safety of the jobs in App (AppShell.tsx), for any number of jobs,       *)
(* streams, functions that wait and clicks: App listens to the job of the  *)
(* card, the result is of jobs that are done, and a job is made only of    *)
(* what can run and of what the user has agreed to send.                   *)
(***************************************************************************)
EXTENDS AppEvents, WellFoundedInduction, NaturalsInduction, SequenceTheorems, TLAPS

-------------------------------------------------------------------------------
(* Streams.  A step keeps StreamInv in one of few ways: it leaves card and    *)
(* subscription (Still, Keep, Launch), it ends what is heard (Hush), it hears *)
(* the job of the card where nothing was heard (Hear), or it may empty the    *)
(* card (Empty).  What waits after an end waits in silence (Quiet), and but   *)
(* one function waits at a time (Alone): nothing is heard twice.              *)
AppFields == {"screen", "background", "job", "shown", "batch", "completed", "unsub", "remote", "gate"}
OpFields == {"at", "run", "sel", "job", "ids"}

(* The fields that a record has, whatever is in them.                         *)
AppShape == DOMAIN app = AppFields
OpsShape == DOMAIN ops = Slots /\ \A h \in Slots : DOMAIN ops[h] = OpFields
StreamShape(strs) == DOMAIN strs = Streams /\ \A s \in Streams : DOMAIN strs[s] = {"job", "told"}

Silent == \A s \in Streams : streams[s] = Closed
Listens == \A s \in Streams : streams[s] # Closed => s = app.unsub /\ app.job \in {NoJob, streams[s].job}
Alone == \A g, h \in Slots : g \in Waiting /\ h \in Waiting => g = h

(* What waits after an end, an opening or a cancel, when nothing is heard.    *)
QuietAt == {"burn", "list", "listDone", "details", "next", "open", "cancel", "timer"}
Quiet == \A h \in Slots : ops[h].at \in QuietAt => Silent
CardKept == \A h \in Slots : ops[h].at = "cancelMany" /\ OnCard(h) => app.job = ops[h].job /\ app.job # NoJob

StreamInv == AppShape /\ OpsShape /\ StreamShape(streams) /\ (~overlap => Listens /\ Alone /\ Quiet /\ CardKept)

(* A set of numbers has a least one, and the stream that is opened was free. *)
LEMMA LeastOf ==
  ASSUME NEW S, S \subseteq Nat, S # {}
  PROVE  \E m \in S : \A k \in S : m <= k
<1>1. PICK m \in S : \A k \in S : ~(<<k, m>> \in OpToRel(<, Nat))
  BY WFMin, NatLessThanWellFounded, Zenon
<1>2. \A k \in S : ~(k < m)
  BY <1>1, Zenon DEF OpToRel
<1> QED
  BY <1>2

LEMMA FirstFreeIsFree ==
  ASSUME NEW strs, HasFree(strs)
  PROVE  FirstFree(strs) \in Streams /\ strs[FirstFree(strs)] = Closed
<1> DEFINE F == {s \in Streams : strs[s] = Closed}
<1>1. F \subseteq Nat /\ F # {}
  BY DEF HasFree, Streams
<1>2. PICK m \in F : \A k \in F : m <= k
  BY <1>1, LeastOf
<1>3. \E s \in Streams : strs[s] = Closed /\ \A t \in Streams : t < s => strs[t] # Closed
  <2>1. \A t \in Streams : t < m => t \notin F
    BY <1>1, <1>2 DEF Streams
  <2> QED
    BY <1>2, <2>1
<1> QED
  BY <1>3 DEF FirstFree

(* What a start leaves of App, and where its function may wait.               *)
StartAt == {"labels", "ffmpeg", "create", "resolve", "install"}
Fresh(op) == DOMAIN op = OpFields /\ op.at \in StartAt /\ op.ids = <<>>
Started(h, a) ==
  /\ DOMAIN app' = DOMAIN a /\ app'.job = a.job /\ app'.unsub = a.unsub
  /\ app'.batch = a.batch /\ app'.completed = a.completed /\ app'.background = a.background
  /\ app'.screen \in {a.screen, "main-missing", "settings-providers", "main-conflict", "main-files"}
  /\ Over(h) \/ \E op : Wait(h, op) /\ Fresh(op)

LEMMA StartedWaits ==
  ASSUME NEW h, NEW a, NEW op, Fresh(op), Wait(h, op), app' = a
  PROVE  Started(h, a)
<1>1. \E o : Wait(h, o) /\ Fresh(o)
  BY Zenon
<1> QED
  BY <1>1 DEF Started

(* The record of a function that waits.                                       *)
LEMMA OpRecord ==
  ASSUME NEW at, NEW run, NEW sel
  PROVE  /\ DOMAIN [IdleOp EXCEPT !.at = at, !.run = run, !.sel = sel] = OpFields
         /\ [IdleOp EXCEPT !.at = at, !.run = run, !.sel = sel].at = at
         /\ [IdleOp EXCEPT !.at = at, !.run = run, !.sel = sel].ids = <<>>
         /\ DOMAIN [IdleOp EXCEPT !.at = at, !.run = run] = OpFields
         /\ [IdleOp EXCEPT !.at = at, !.run = run].at = at
         /\ [IdleOp EXCEPT !.at = at, !.run = run].ids = <<>>
BY DEF IdleOp, OpFields

LEMMA FreshRecord ==
  /\ \A run, sel : Fresh([IdleOp EXCEPT !.at = "create", !.run = run, !.sel = sel])
  /\ \A run, sel : Fresh([IdleOp EXCEPT !.at = "labels", !.run = run, !.sel = sel])
  /\ \A run, sel : Fresh([IdleOp EXCEPT !.at = "ffmpeg", !.run = run, !.sel = sel])
  /\ \A run : Fresh([IdleOp EXCEPT !.at = "ffmpeg", !.run = run])
  /\ \A run : Fresh([IdleOp EXCEPT !.at = "resolve", !.run = run])
  /\ \A run : Fresh([IdleOp EXCEPT !.at = "install", !.run = run])
BY OpRecord DEF Fresh, StartAt

LEMMA AskOrCreateStarts ==
  ASSUME NEW h, NEW run, NEW sel, NEW a, DOMAIN a = AppFields, AskOrCreate(h, run, sel, a)
  PROVE  Started(h, a)
<1>1. CASE MustAsk(run, sel) /\ ~run.confirmed
  <2>1. Over(h) /\ \E runs : app' = [a EXCEPT !.remote = runs]
    BY <1>1 DEF AskOrCreate
  <2> QED
    BY <2>1 DEF Started, AppFields
<1>2. CASE ~(MustAsk(run, sel) /\ ~run.confirmed)
  <2>1. Wait(h, [IdleOp EXCEPT !.at = "create", !.run = run, !.sel = sel]) /\ app' = a
    BY <1>2 DEF AskOrCreate
  <2> QED
    BY <2>1, FreshRecord, StartedWaits, Zenon
<1> QED
  BY <1>1, <1>2

LEMMA AfterLabelsStarts ==
  ASSUME NEW h, NEW run, NEW sel, NEW a, DOMAIN a = AppFields, AfterLabels(h, run, sel, a)
  PROVE  Started(h, a)
<1>1. CASE \E s \in {"settings-providers", "main-conflict", "main-files"} :
             Over(h) /\ app' = [a EXCEPT !.screen = s]
  BY <1>1 DEF Started, AppFields
<1>2. CASE Wait(h, [IdleOp EXCEPT !.at = "ffmpeg", !.run = run, !.sel = sel]) /\ app' = a
  BY <1>2, FreshRecord, StartedWaits, Zenon
<1> QED
  BY <1>1, <1>2 DEF AfterLabels

LEMMA StartJobStarts ==
  ASSUME NEW h, NEW run, NEW a, DOMAIN a = AppFields, StartJob(h, run, a)
  PROVE  Started(h, a)
<1>1. CASE Over(h) /\ app' = [a EXCEPT !.screen = "main-missing"]
  BY <1>1 DEF Started, AppFields
<1>2. CASE \E sel \in Selection(run) : AfterLabels(h, run, sel, a)
  BY <1>2, AfterLabelsStarts
<1>3. CASE \E sel \in Selection(run) :
             Wait(h, [IdleOp EXCEPT !.at = "labels", !.run = run, !.sel = sel]) /\ app' = a
  <2>1. PICK sel \in Selection(run) :
          Wait(h, [IdleOp EXCEPT !.at = "labels", !.run = run, !.sel = sel]) /\ app' = a
    BY <1>3
  <2> QED
    BY <2>1, FreshRecord, StartedWaits, Zenon
<1> QED
  BY <1>1, <1>2, <1>3 DEF StartJob

LEMMA StartToolJobStarts ==
  ASSUME NEW h, NEW run, NEW a, DOMAIN a = AppFields, StartToolJob(h, run, a)
  PROVE  Started(h, a)
<1>1. CASE Wait(h, [IdleOp EXCEPT !.at = "ffmpeg", !.run = run]) /\ app' = a
  BY <1>1, FreshRecord, StartedWaits, Zenon
<1>2. CASE AskOrCreate(h, run, NoSel, a)
  BY <1>2, AskOrCreateStarts
<1> QED
  BY <1>1, <1>2 DEF StartToolJob

LEMMA StartStarts ==
  ASSUME NEW h, NEW run, NEW a, DOMAIN a = AppFields, Start(h, run, a)
  PROVE  Started(h, a)
BY StartJobStarts, StartToolJobStarts DEF Start

LEMMA OpForms ==
  ASSUME NEW r, DOMAIN r = OpFields, NEW x, NEW y, NEW z
  PROVE  /\ DOMAIN [r EXCEPT !.at = x] = OpFields /\ [r EXCEPT !.at = x].at = x
         /\ DOMAIN [r EXCEPT !.ids = z] = OpFields /\ [r EXCEPT !.ids = z].at = r.at
         /\ DOMAIN [r EXCEPT !.at = x, !.job = y] = OpFields /\ [r EXCEPT !.at = x, !.job = y].at = x
         /\ DOMAIN [r EXCEPT !.at = x, !.ids = z] = OpFields /\ [r EXCEPT !.at = x, !.ids = z].at = x
         /\ DOMAIN [r EXCEPT !.at = x, !.job = y, !.ids = z] = OpFields
         /\ [r EXCEPT !.at = x, !.job = y, !.ids = z].at = x
         /\ [r EXCEPT !.at = x, !.job = y, !.ids = z].job = y
         /\ [r EXCEPT !.at = x, !.job = y, !.ids = z].ids = z
BY DEF OpFields

LEMMA IdleForm ==
  DOMAIN IdleOp = OpFields /\ IdleOp.at = "idle"
BY DEF IdleOp, OpFields

LEMMA OverSlots ==
  ASSUME OpsShape, NEW h \in Slots, Over(h)
  PROVE  OpsShape' /\ ops'[h].at = "idle" /\ \A g \in Slots \ {h} : ops'[g] = ops[g]
BY IdleForm DEF OpsShape, Over

LEMMA WaitSlots ==
  ASSUME OpsShape, NEW h \in Slots, NEW op, DOMAIN op = OpFields, Wait(h, op)
  PROVE  /\ OpsShape' /\ ops'[h] = op
         /\ \A g \in Slots \ {h} : ops'[g] = ops[g]
         /\ ~overlap' => ~overlap /\ \A g \in Slots \ {h} : ops[g].at = "idle"
BY DEF OpsShape, Wait, Waiting

(* The ways in which an action leaves the card and the subscription.          *)
Still ==
  /\ UNCHANGED <<streams, ops, overlap>>
  /\ AppShape' /\ app'.job = app.job /\ app'.unsub = app.unsub

(* A function goes on, or comes to its end, with the card as it is.           *)
Keep(h) ==
  /\ UNCHANGED streams /\ AppShape' /\ app'.job = app.job /\ app'.unsub = app.unsub
  /\ \/ Over(h)
     \/ \E op : /\ Wait(h, op) /\ DOMAIN op = OpFields
                /\ op.at \in QuietAt => ops[h].at \in QuietAt
                /\ op.at = "cancelMany" /\ op.ids = <<op.job>> => op.job = app.job /\ app.job # NoJob

(* Nothing is heard any more.                                                 *)
Hush(h) ==
  /\ AppShape' /\ StreamShape(streams)' /\ (~overlap => Silent')
  /\ \/ Over(h) /\ (h \in Waiting \/ app'.job = app.job)
     \/ \E op : Wait(h, op) /\ DOMAIN op = OpFields /\ op.at # "cancelMany"

(* The job of the card is followed, and nothing was.                          *)
Hear(h) ==
  /\ h \in Waiting /\ Over(h)
  /\ \E a, strs : /\ DOMAIN a = AppFields /\ StreamShape(strs) /\ Subscribe(a, a.job, strs)
                  /\ ~overlap => \A s \in Streams : strs[s] = Closed

(* The one that waits may empty the card.                                     *)
Empty(h) ==
  /\ UNCHANGED streams /\ AppShape' /\ app'.unsub = app.unsub
  /\ ~overlap => app'.job \in {NoJob, app.job}
  /\ h \in Waiting /\ Over(h)

LEMMA StillKeeps ==
  ASSUME StreamInv, Still
  PROVE  StreamInv'
BY DEF StreamInv, Still, AppShape, OpsShape, StreamShape, Listens, Alone, Waiting, Quiet, Silent, CardKept, OnCard

LEMMA KeepKeeps ==
  ASSUME StreamInv, NEW h \in Slots, Keep(h)
  PROVE  StreamInv'
<1>1. OpsShape /\ AppShape' /\ StreamShape(streams)'
  BY DEF StreamInv, Keep, StreamShape
<1>2. CASE Over(h)
  <2>1. OpsShape' /\ ops'[h].at = "idle" /\ \A g \in Slots \ {h} : ops'[g] = ops[g]
    BY <1>1, <1>2, OverSlots
  <2> SUFFICES ASSUME ~overlap' PROVE Listens' /\ Alone' /\ Quiet' /\ CardKept'
    BY <1>1, <2>1 DEF StreamInv
  <2>2. Listens /\ Alone /\ Quiet /\ CardKept
    BY <1>2 DEF Over, StreamInv
  <2>3. Listens' /\ (Silent => Silent') /\ app'.job = app.job
    BY <2>2 DEF Keep, Listens, Silent
  <2> QED
    BY <2>1, <2>2, <2>3 DEF Alone, Waiting, Quiet, CardKept, OnCard, QuietAt
<1>3. ASSUME NEW op, Wait(h, op), DOMAIN op = OpFields, op.at \in QuietAt => ops[h].at \in QuietAt,
             op.at = "cancelMany" /\ op.ids = <<op.job>> => op.job = app.job /\ app.job # NoJob
      PROVE  StreamInv'
  <2>1. /\ OpsShape' /\ ops'[h] = op /\ \A g \in Slots \ {h} : ops'[g] = ops[g]
        /\ ~overlap' => ~overlap /\ \A g \in Slots \ {h} : ops[g].at = "idle"
    BY <1>1, <1>3, WaitSlots
  <2> SUFFICES ASSUME ~overlap' PROVE Listens' /\ Alone' /\ Quiet' /\ CardKept'
    BY <1>1, <2>1 DEF StreamInv
  <2>2. Listens /\ Quiet
    BY <2>1 DEF StreamInv
  <2>3. Listens' /\ (Silent => Silent') /\ app'.job = app.job
    BY <2>2 DEF Keep, Listens, Silent
  <2> QED
    BY <1>3, <2>1, <2>2, <2>3 DEF Alone, Waiting, Quiet, CardKept, OnCard, QuietAt
<1> QED
  BY <1>2, <1>3 DEF Keep

LEMMA HushKeeps ==
  ASSUME StreamInv, NEW h \in Slots, Hush(h)
  PROVE  StreamInv'
<1>1. OpsShape /\ AppShape' /\ StreamShape(streams)'
  BY DEF StreamInv, Hush
<1>2. ~overlap => Listens' /\ Quiet'
  BY DEF Hush, Silent, Listens, Quiet
<1>3. ASSUME Over(h), h \in Waiting \/ app'.job = app.job
      PROVE  StreamInv'
  <2>1. OpsShape' /\ ops'[h].at = "idle" /\ \A g \in Slots \ {h} : ops'[g] = ops[g]
    BY <1>1, <1>3, OverSlots
  <2> SUFFICES ASSUME ~overlap' PROVE Alone' /\ CardKept' /\ ~overlap
    BY <1>1, <1>2, <2>1 DEF StreamInv
  <2>2. Alone /\ CardKept /\ ~overlap
    BY <1>3 DEF Over, StreamInv
  <2> QED
    BY <1>3, <2>1, <2>2 DEF Alone, Waiting, CardKept, OnCard
<1>4. ASSUME NEW op, Wait(h, op), DOMAIN op = OpFields, op.at # "cancelMany"
      PROVE  StreamInv'
  <2>1. /\ OpsShape' /\ ops'[h] = op /\ \A g \in Slots \ {h} : ops'[g] = ops[g]
        /\ ~overlap' => ~overlap /\ \A g \in Slots \ {h} : ops[g].at = "idle"
    BY <1>1, <1>4, WaitSlots
  <2>2. ~overlap' => Alone' /\ CardKept'
    BY <1>4, <2>1 DEF Alone, Waiting, CardKept
  <2> QED
    BY <1>1, <1>2, <2>1, <2>2 DEF StreamInv
<1> QED
  BY <1>3, <1>4 DEF Hush

(* When the only one that waits is over, none does.                           *)
LEMMA NoneWaits ==
  ASSUME StreamInv, NEW h \in Slots, h \in Waiting, Over(h)
  PROVE  OpsShape' /\ (~overlap' => ~overlap /\ Alone' /\ Quiet' /\ CardKept')
<1>1. OpsShape' /\ ops'[h].at = "idle" /\ \A g \in Slots \ {h} : ops'[g] = ops[g]
  BY OverSlots DEF StreamInv
<1>2. ~overlap' => ~overlap /\ Alone
  BY DEF Over, StreamInv
<1>3. ~overlap' => \A g \in Slots : ops'[g].at = "idle"
  BY <1>1, <1>2 DEF Alone, Waiting
<1> QED
  BY <1>1, <1>2, <1>3 DEF Alone, Waiting, Quiet, QuietAt, CardKept

LEMMA HearKeeps ==
  ASSUME StreamInv, NEW h \in Slots, Hear(h)
  PROVE  StreamInv'
<1>1. OpsShape' /\ (~overlap' => ~overlap /\ Alone' /\ Quiet' /\ CardKept')
  BY NoneWaits DEF Hear
<1>2. PICK a, strs : /\ DOMAIN a = AppFields /\ StreamShape(strs) /\ Subscribe(a, a.job, strs)
                     /\ ~overlap => \A s \in Streams : strs[s] = Closed
  BY DEF Hear
<1> DEFINE f == FirstFree(strs)
<1>3. f \in Streams
  BY <1>2, FirstFreeIsFree DEF Subscribe
<1>4. app' = [a EXCEPT !.unsub = f] /\ streams' = [strs EXCEPT ![f] = [job |-> a.job, told |-> "nothing"]]
  BY <1>2 DEF Subscribe, Opened
<1> HIDE DEF f
<1>5. AppShape' /\ app'.unsub = f /\ app'.job = a.job
  BY <1>2, <1>4 DEF AppShape, AppFields
<1>6. /\ StreamShape(streams)' /\ streams'[f].job = a.job
      /\ \A s \in Streams \ {f} : streams'[s] = strs[s]
  BY <1>2, <1>3, <1>4 DEF StreamShape
<1>7. ~overlap' => Listens'
  BY <1>1, <1>2, <1>3, <1>5, <1>6 DEF Listens
<1> QED
  BY <1>1, <1>5, <1>6, <1>7 DEF StreamInv

LEMMA EmptyKeeps ==
  ASSUME StreamInv, NEW h \in Slots, Empty(h)
  PROVE  StreamInv'
<1>1. OpsShape' /\ (~overlap' => ~overlap /\ Alone' /\ Quiet' /\ CardKept')
  BY NoneWaits DEF Empty
<1>2. ~overlap' => Listens'
  BY <1>1 DEF StreamInv, Empty, Listens
<1> QED
  BY <1>1, <1>2 DEF StreamInv, Empty, StreamShape

(* The subscription that App holds is the only one.                           *)
LEMMA Left ==
  ASSUME StreamInv
  PROVE  /\ StreamShape(Unsubscribed(app.unsub))
         /\ ~overlap => \A s \in Streams : Unsubscribed(app.unsub)[s] = Closed
<1>1. DOMAIN Closed = {"job", "told"}
  BY DEF Closed
<1>2. StreamShape(streams) /\ (~overlap => Listens)
  BY DEF StreamInv
<1> QED
  BY <1>1, <1>2 DEF StreamShape, Listens, Unsubscribed, Streams, NoStream
LEMMA OverKeeps ==
  ASSUME StreamInv, NEW h \in Slots, Over(h), UNCHANGED streams,
         AppShape', app'.job = app.job, app'.unsub = app.unsub
  PROVE  StreamInv'
BY KeepKeeps DEF Keep

LEMMA WaitKeeps ==
  ASSUME StreamInv, NEW h \in Slots, NEW op, Wait(h, op), DOMAIN op = OpFields, UNCHANGED streams,
         AppShape', app'.job = app.job, app'.unsub = app.unsub,
         op.at \in QuietAt => ops[h].at \in QuietAt, op.at # "cancelMany"
  PROVE  StreamInv'
<1>1. Keep(h)
  BY DEF Keep
<1> QED
  BY <1>1, KeepKeeps

(* A start as a step: nothing of the jobs, the batch and the streams moves.   *)
Launch(h) ==
  /\ UNCHANGED <<clientVars, astray>>
  /\ AppShape' /\ app'.job = app.job /\ app'.unsub = app.unsub
  /\ app'.batch = app.batch /\ app'.completed = app.completed /\ app'.background = app.background
  /\ app'.screen \in {app.screen, "main-missing", "settings-providers", "main-conflict", "main-files"}
  /\ Over(h) \/ \E op : Wait(h, op) /\ Fresh(op)

LEMMA LaunchKeeps ==
  ASSUME StreamInv, NEW h \in Slots, Launch(h)
  PROVE  StreamInv'
<1>1. AppShape' /\ app'.job = app.job /\ app'.unsub = app.unsub /\ UNCHANGED streams
  BY DEF Launch, clientVars
<1>2. CASE Over(h)
  BY <1>1, <1>2, OverKeeps
<1>3. ASSUME NEW op, Wait(h, op), Fresh(op)
      PROVE  StreamInv'
  <2>1. DOMAIN op = OpFields /\ op.at \notin QuietAt /\ op.at # "cancelMany"
    BY <1>3 DEF QuietAt, Fresh, StartAt
  <2> QED
    BY <1>1, <1>3, <2>1, WaitKeeps
<1> QED
  BY <1>2, <1>3 DEF Launch

LEMMA StartedLaunches ==
  ASSUME NEW h \in Slots, NEW a, Started(h, a), UNCHANGED <<clientVars, astray>>,
         DOMAIN a = AppFields, a.job = app.job, a.unsub = app.unsub, a.batch = app.batch,
         a.completed = app.completed, a.background = app.background, a.screen = app.screen
  PROVE  Launch(h)
BY DEF Started, Launch, AppShape

LEMMA WaitLaunches ==
  ASSUME NEW h \in Slots, DOMAIN app = AppFields, NEW op, Fresh(op), Wait(h, op), UNCHANGED <<app, clientVars, astray>>
  PROVE  Launch(h)
<1>1. \E o : Wait(h, o) /\ Fresh(o)
  BY Zenon
<1> QED
  BY <1>1 DEF Launch, AppShape

LEMMA ShapeOfApp ==
  ASSUME StreamInv
  PROVE  /\ DOMAIN app = AppFields
         /\ \A h \in Slots : DOMAIN ops[h] = OpFields
BY DEF StreamInv, AppShape, OpsShape

(* The calls that start jobs.                                                 *)
LEMMA StartsLaunch ==
  ASSUME NEW h \in Slots, DOMAIN app = AppFields,
         \/ LabelsSaved(h) \/ LookedAtFFmpeg(h) \/ ConflictResolved(h) \/ FFmpegInstalled(h)
         \/ \E n \in 1..2 : StartFiles(h, n)
         \/ \E type \in Kind \ {"transcribe"} : StartTool(h, type)
         \/ RetryJob(h) \/ ResolveConflict(h) \/ ConfirmRemote(h) \/ InstallFFmpeg(h)
  PROVE  Launch(h)
<1>1. CASE LabelsSaved(h)
  BY <1>1, AfterLabelsStarts, StartedLaunches DEF LabelsSaved
<1>2. CASE LookedAtFFmpeg(h)
  <2>1. CASE AskOrCreate(h, ops[h].run, ops[h].sel, app)
    BY <1>2, <2>1, AskOrCreateStarts, StartedLaunches DEF LookedAtFFmpeg
  <2>2. CASE Over(h) /\ app' = [app EXCEPT !.gate = {ops[h].run}]
    BY <1>2, <2>2 DEF LookedAtFFmpeg, Launch, AppShape, AppFields
  <2> QED
    BY <1>2, <2>1, <2>2 DEF LookedAtFFmpeg
<1>3. CASE ConflictResolved(h)
  BY <1>3, StartJobStarts, StartedLaunches DEF ConflictResolved
<1>4. CASE FFmpegInstalled(h)
  <2>1. CASE Start(h, ops[h].run, [app EXCEPT !.gate = {}])
    <3> DEFINE a == [app EXCEPT !.gate = {}]
    <3>1. /\ DOMAIN a = AppFields /\ a.job = app.job /\ a.unsub = app.unsub /\ a.batch = app.batch
          /\ a.completed = app.completed /\ a.background = app.background /\ a.screen = app.screen
      BY DEF AppFields
    <3>2. Start(h, ops[h].run, a)
      BY <2>1
    <3> HIDE DEF a
    <3>3. Started(h, a)
      BY <3>1, <3>2, StartStarts
    <3> QED
      BY <1>4, <3>1, <3>3, StartedLaunches DEF FFmpegInstalled
  <2>2. CASE Over(h) /\ app' = [app EXCEPT !.gate = {ops[h].run}]
    BY <1>4, <2>2 DEF FFmpegInstalled, Launch, AppShape, AppFields
  <2> QED
    BY <1>4, <2>1, <2>2 DEF FFmpegInstalled
<1>5. ASSUME NEW n \in 1..2, StartFiles(h, n) PROVE Launch(h)
  BY <1>5, StartJobStarts, StartedLaunches DEF StartFiles, Unmoved
<1>6. ASSUME NEW type \in Kind \ {"transcribe"}, StartTool(h, type) PROVE Launch(h)
  BY <1>6, StartToolJobStarts, StartedLaunches DEF StartTool, Unmoved
<1>7. CASE RetryJob(h)
  BY <1>7, StartJobStarts, StartedLaunches DEF RetryJob, Unmoved
<1>8. CASE ResolveConflict(h)
  <2> DEFINE op == [IdleOp EXCEPT !.at = "resolve", !.run = [NewRun EXCEPT !.n = 1, !.resolved = TRUE]]
  <2>1. Fresh(op) /\ Wait(h, op) /\ UNCHANGED <<app, clientVars, astray>>
    BY <1>8, FreshRecord DEF ResolveConflict, Unmoved
  <2> HIDE DEF op
  <2> QED
    BY <2>1, WaitLaunches
<1>9. CASE ConfirmRemote(h)
  <2> DEFINE a == [app EXCEPT !.remote = {}]
  <2>1. /\ DOMAIN a = AppFields /\ a.job = app.job /\ a.unsub = app.unsub /\ a.batch = app.batch
        /\ a.completed = app.completed /\ a.background = app.background /\ a.screen = app.screen
    BY DEF AppFields
  <2>2. \E run : Start(h, run, a)
    BY <1>9 DEF ConfirmRemote
  <2> HIDE DEF a
  <2>3. Started(h, a)
    BY <2>1, <2>2, StartStarts
  <2> QED
    BY <1>9, <2>1, <2>3, StartedLaunches DEF ConfirmRemote, Unmoved
<1>10. CASE InstallFFmpeg(h)
  <2>1. PICK run : Wait(h, [IdleOp EXCEPT !.at = "install", !.run = run])
    BY <1>10 DEF InstallFFmpeg
  <2> DEFINE op == [IdleOp EXCEPT !.at = "install", !.run = run]
  <2>2. Fresh(op) /\ Wait(h, op) /\ UNCHANGED <<app, clientVars, astray>>
    BY <1>10, <2>1, FreshRecord DEF InstallFFmpeg, Unmoved
  <2> HIDE DEF op
  <2> QED
    BY <2>2, WaitLaunches
<1> QED
  BY <1>1, <1>2, <1>3, <1>4, <1>5, <1>6, <1>7, <1>8, <1>9, <1>10

LEMMA StartsKeep ==
  ASSUME StreamInv, NEW h \in Slots,
         \/ LabelsSaved(h) \/ LookedAtFFmpeg(h) \/ ConflictResolved(h) \/ FFmpegInstalled(h)
         \/ \E n \in 1..2 : StartFiles(h, n)
         \/ \E type \in Kind \ {"transcribe"} : StartTool(h, type)
         \/ RetryJob(h) \/ ResolveConflict(h) \/ ConfirmRemote(h) \/ InstallFFmpeg(h)
  PROVE  StreamInv'
<1>1. Launch(h)
  BY ShapeOfApp, StartsLaunch, Zenon
<1> QED
  BY <1>1, LaunchKeeps

(* The jobs are made, and the first is followed.                              *)
LEMMA JobMadeKeeps ==
  ASSUME StreamInv, NEW h \in Slots, JobMade(h)
  PROVE  StreamInv'
<1>0. DOMAIN app = AppFields /\ DOMAIN ops[h] = OpFields /\ h \in Waiting
  BY ShapeOfApp DEF JobMade, Waiting
<1> DEFINE ids == Append(ops[h].ids, NextId)
           left == Unsubscribed(app.unsub)
<1>1. StreamShape(left) /\ (~overlap => \A s \in Streams : left[s] = Closed)
  BY Left
<1>2. CASE Wait(h, [ops[h] EXCEPT !.ids = ids]) /\ UNCHANGED <<app, streams>>
  <2> DEFINE op == [ops[h] EXCEPT !.ids = ids]
  <2>1. DOMAIN op = OpFields /\ op.at = "create"
    BY <1>0, OpForms DEF JobMade
  <2>2. Wait(h, op)
    BY <1>2
  <2> HIDE DEF op
  <2> QED
    BY <1>0, <1>2, <2>1, <2>2, WaitKeeps DEF QuietAt, AppShape
<1>3. CASE Over(h) /\ BatchBegins(ids)
  <2> DEFINE a == [Card(app, ids[1], "queued") EXCEPT !.background = FALSE, !.batch = ids,
                     !.completed = {}, !.screen = "main-generating"]
  <2>1. DOMAIN a = AppFields /\ a.job = ids[1]
    BY <1>0 DEF Card, AppFields
  <2>2. Subscribe(a, a.job, left)
    BY <1>3, <2>1 DEF BatchBegins
  <2> HIDE DEF a, left
  <2>3. Hear(h)
    BY <1>0, <1>1, <1>3, <2>1, <2>2 DEF Hear
  <2> QED
    BY <2>3, HearKeeps
<1>4. CASE Over(h) /\ \E st : ToolBegins(NextId, st)
  <2>1. PICK st : ToolBegins(NextId, st)
    BY <1>4
  <2> DEFINE done == st = "succeeded"
             a == [Card(app, NextId, st) EXCEPT !.background = FALSE, !.batch = <<NextId>>,
                     !.completed = IF done THEN {NextId} ELSE {},
                     !.screen = IF done THEN "main-done" ELSE "main-generating"]
  <2>2. DOMAIN a = AppFields /\ a.job = NextId
    BY <1>0 DEF Card, AppFields
  <2>3. Unsubscribe(a) \/ Subscribe(a, a.job, left)
    BY <2>1, <2>2 DEF ToolBegins
  <2> HIDE DEF a
  <2>4. CASE Unsubscribe(a)
    <3>1. AppShape' /\ streams' = left
      BY <2>2, <2>4 DEF Unsubscribe, AppShape, AppFields
    <3>2. Hush(h)
      BY <1>0, <1>1, <1>4, <3>1 DEF Hush, Silent, StreamShape
    <3> QED
      BY <3>2, HushKeeps
  <2>5. CASE Subscribe(a, a.job, left)
    <3> HIDE DEF left
    <3>1. Hear(h)
      BY <1>0, <1>1, <1>4, <2>2, <2>5 DEF Hear
    <3> QED
      BY <3>1, HearKeeps
  <2> QED
    BY <2>3, <2>4, <2>5
<1> QED
  BY <1>2, <1>3, <1>4 DEF JobMade

(* What happens while nothing is heard.                                       *)
LEMMA SilentNow ==
  ASSUME StreamInv, NEW h \in Slots, ops[h].at \in QuietAt
  PROVE  h \in Waiting /\ StreamShape(streams) /\ (~overlap => Silent)
BY DEF StreamInv, Quiet, Waiting, QuietAt

LEMMA OverHushes ==
  ASSUME StreamInv, NEW h \in Slots, ops[h].at \in QuietAt, Over(h), AppShape', UNCHANGED streams
  PROVE  StreamInv'
<1>1. Hush(h)
  BY SilentNow DEF Hush, Silent, StreamShape
<1> QED
  BY <1>1, HushKeeps

LEMMA SubscribeHears ==
  ASSUME StreamInv, NEW h \in Slots, ops[h].at \in QuietAt, Over(h),
         NEW a, DOMAIN a = AppFields, Subscribe(a, a.job, streams)
  PROVE  StreamInv'
<1>1. Hear(h)
  BY SilentNow DEF Hear, Silent
<1> QED
  BY <1>1, HearKeeps

LEMMA ShowForm ==
  ASSUME NEW a, DOMAIN a = AppFields, NEW s
  PROVE  /\ DOMAIN Show(a, s) = AppFields
         /\ Show(a, s).job = a.job /\ Show(a, s).unsub = a.unsub
BY DEF Show, AppFields

LEMMA CardForm ==
  ASSUME NEW a, DOMAIN a = AppFields, NEW j, NEW st
  PROVE  /\ DOMAIN Card(a, j, st) = AppFields
         /\ Card(a, j, st).job = j /\ Card(a, j, st).unsub = a.unsub
BY DEF Card, AppFields

LEMMA BurnMadeKeeps ==
  ASSUME StreamInv, NEW h \in Slots, BurnMade(h)
  PROVE  StreamInv'
<1>0. DOMAIN app = AppFields /\ DOMAIN ops[h] = OpFields /\ ops[h].at = "burn" /\ ops[h].at \in QuietAt
  BY ShapeOfApp DEF BurnMade, QuietAt
<1> DEFINE b == NextId
           st == ReportAs(b, Made("burn_in"))
           a == [Card(app, b, st) EXCEPT !.batch = Append(@, b),
                   !.completed = IF st = "succeeded" THEN @ \cup {b} ELSE @]
<1>1. DOMAIN a = AppFields /\ a.job = b
  BY <1>0 DEF Card, AppFields
<1>2. \/ Over(h) /\ Subscribe(Show(a, "main-generating"), b, streams)
      \/ Over(h) /\ app' = Show(a, "main-done") /\ UNCHANGED streams
      \/ /\ Wait(h, [ops[h] EXCEPT !.at = "listDone", !.ids = a.batch])
         /\ app' = a /\ UNCHANGED streams
  BY DEF BurnMade
<1> HIDE DEF a, b
<1>3. CASE Over(h) /\ Subscribe(Show(a, "main-generating"), b, streams)
  BY <1>0, <1>1, <1>3, ShowForm, SubscribeHears
<1>4. CASE Over(h) /\ app' = Show(a, "main-done") /\ UNCHANGED streams
  BY <1>0, <1>1, <1>4, ShowForm, OverHushes DEF AppShape
<1>5. CASE Wait(h, [ops[h] EXCEPT !.at = "listDone", !.ids = a.batch]) /\ app' = a /\ UNCHANGED streams
  <2> DEFINE op == [ops[h] EXCEPT !.at = "listDone", !.ids = a.batch]
  <2>1. DOMAIN op = OpFields /\ op.at # "cancelMany"
    BY <1>0, OpForms
  <2>2. Wait(h, op)
    BY <1>5
  <2> HIDE DEF op
  <2>3. Hush(h)
    BY <1>0, <1>1, <1>5, <2>1, <2>2, SilentNow DEF Hush, Silent, StreamShape, AppShape
  <2> QED
    BY <2>3, HushKeeps
<1> QED
  BY <1>2, <1>3, <1>4, <1>5

LEMMA AtWaits ==
  ASSUME StreamInv, NEW h \in Slots, ops[h].at \in QuietAt, NEW r, DOMAIN r = OpFields, NEW x, NEW j,
         Wait(h, [r EXCEPT !.at = x, !.job = j]) \/ Wait(h, [r EXCEPT !.at = x]),
         x # "cancelMany", AppShape', UNCHANGED streams
  PROVE  StreamInv'
<1>1. ASSUME NEW op, Wait(h, op), DOMAIN op = OpFields, op.at = x PROVE StreamInv'
  <2>1. Hush(h)
    BY <1>1, SilentNow DEF Hush, Silent, StreamShape
  <2> QED
    BY <2>1, HushKeeps
<1> DEFINE o1 == [r EXCEPT !.at = x, !.job = j]
           o2 == [r EXCEPT !.at = x]
<1>2. DOMAIN o1 = OpFields /\ o1.at = x /\ DOMAIN o2 = OpFields /\ o2.at = x
  BY OpForms
<1>3. Wait(h, o1) \/ Wait(h, o2)
  OBVIOUS
<1> HIDE DEF o1, o2
<1> QED
  BY <1>1, <1>2, <1>3

(* The list of the batch, and the rest of it.                                 *)
LEMMA JobsListedKeeps ==
  ASSUME StreamInv, NEW h \in Slots, JobsListed(h)
  PROVE  StreamInv'
<1>0. DOMAIN app = AppFields /\ DOMAIN ops[h] = OpFields
  BY ShapeOfApp
<1>1. UNCHANGED streams
  BY DEF JobsListed, clientVars
<1>2. PICK answer : ListedAfterSuccess(h, answer) \/ ListedAfterFailure(h, answer)
  BY DEF JobsListed
<1>3. ops[h].at \in QuietAt
  BY <1>2 DEF ListedAfterSuccess, ListedAfterFailure, QuietAt
<1>4. CASE GoOn(h, answer)
  <2>1. PICK k : Wait(h, [ops[h] EXCEPT !.at = "next", !.job = k]) /\ UNCHANGED app
    BY <1>4 DEF GoOn
  <2> QED
    BY <1>0, <1>1, <1>3, <2>1, AtWaits DEF AppShape
<1>5. CASE Wait(h, [ops[h] EXCEPT !.at = "details"]) /\ UNCHANGED app
  BY <1>0, <1>1, <1>3, <1>5, AtWaits DEF AppShape
<1>6. CASE Over(h) /\ (app' = app \/ \E s : app' = Show(app, s))
  BY <1>0, <1>1, <1>3, <1>6, ShowForm, OverHushes DEF AppShape
<1>7. GoOn(h, answer) \/ (Wait(h, [ops[h] EXCEPT !.at = "details"]) /\ UNCHANGED app)
      \/ (Over(h) /\ (app' = app \/ \E s : app' = Show(app, s)))
  BY <1>2 DEF ListedAfterSuccess, ListedAfterFailure
<1> QED
  BY <1>4, <1>5, <1>6, <1>7

(* The rest of the batch, and the answers after which the card changes.       *)
LEMMA DetailsLoadedKeeps ==
  ASSUME StreamInv, NEW h \in Slots, DetailsLoaded(h)
  PROVE  StreamInv'
<1>0. DOMAIN app = AppFields /\ ops[h].at \in QuietAt /\ Over(h) /\ UNCHANGED streams
  BY ShapeOfApp DEF DetailsLoaded, QuietAt, clientVars
<1> DEFINE a == [app EXCEPT !.completed = Listed(h, Known)]
<1>1. PICK b : app' = Show(b, "main-done") /\ (b = a \/ \E j, st : b = Card(a, j, st))
  BY DEF DetailsLoaded
<1>2. DOMAIN a = AppFields
  BY <1>0 DEF AppFields
<1>3. app' = Show(b, "main-done")
  BY <1>1
<1> HIDE DEF a
<1>4. DOMAIN b = AppFields
  BY <1>1, <1>2, CardForm
<1> QED
  BY <1>0, <1>3, <1>4, ShowForm, OverHushes DEF AppShape

LEMMA NextFollowedKeeps ==
  ASSUME StreamInv, NEW h \in Slots, NextFollowed(h)
  PROVE  StreamInv'
<1>0. DOMAIN app = AppFields /\ ops[h].at \in QuietAt /\ Over(h)
  BY ShapeOfApp DEF NextFollowed, QuietAt
<1> DEFINE b == Card(app, ops[h].job, Report(ops[h].job))
           a == Show(b, "main-generating")
<1>1. DOMAIN b = AppFields /\ b.job = ops[h].job
  BY <1>0, CardForm
<1>2. Subscribe(a, ops[h].job, streams)
  BY DEF NextFollowed
<1> HIDE DEF b
<1>3. DOMAIN a = AppFields /\ a.job = ops[h].job
  BY <1>1, ShowForm
<1> HIDE DEF a
<1> QED
  BY <1>0, <1>2, <1>3, SubscribeHears

LEMMA JobOpenedKeeps ==
  ASSUME StreamInv, NEW h \in Slots, JobOpened(h)
  PROVE  StreamInv'
<1>0. DOMAIN app = AppFields /\ ops[h].at \in QuietAt /\ Over(h)
  BY ShapeOfApp DEF JobOpened, Answered, QuietAt
<1> DEFINE a == Card(app, ops[h].job, Report(ops[h].job))
<1>1. DOMAIN a = AppFields
  BY <1>0, CardForm
<1>2. Subscribe(a, a.job, streams) \/ (app' = a /\ UNCHANGED streams)
  BY DEF JobOpened
<1> HIDE DEF a
<1> QED
  BY <1>0, <1>1, <1>2, SubscribeHears, OverHushes DEF AppShape

LEMMA CanceledKeeps ==
  ASSUME StreamInv, NEW h \in Slots, ActiveJobCanceled(h) \/ CancelSeen(h)
  PROVE  StreamInv'
<1>0. DOMAIN app = AppFields /\ DOMAIN ops[h] = OpFields /\ ops[h].at \in QuietAt /\ UNCHANGED streams
  BY ShapeOfApp DEF ActiveJobCanceled, CancelSeen, Answered, QuietAt, clientVars
<1>1. CASE ActiveJobCanceled(h)
  <2>1. AppShape'
    BY <1>0, <1>1 DEF ActiveJobCanceled, CardCanceled, Card, AppShape, AppFields
  <2>2. Wait(h, [ops[h] EXCEPT !.at = "timer"])
    BY <1>1 DEF ActiveJobCanceled
  <2> QED
    BY <1>0, <2>1, <2>2, AtWaits
<1>2. CASE CancelSeen(h)
  <2>1. AppShape'
    BY <1>0, <1>2, CardForm DEF CancelSeen, AppShape
  <2> QED
    BY <1>0, <1>2, <2>1, OverHushes DEF CancelSeen
<1> QED
  BY <1>1, <1>2

(* A click that leaves the stream.                                            *)
LEMMA LeavesHush ==
  ASSUME StreamInv, NEW h \in Slots, NEW at, at # "cancelMany", NEW j, Ask(h, at, j),
         NEW a, DOMAIN a = AppFields, Unsubscribe(a)
  PROVE  StreamInv'
<1> DEFINE op == [IdleOp EXCEPT !.at = at, !.job = j, !.ids = <<app.job>>]
<1>1. DOMAIN op = OpFields /\ op.at = at
  BY OpForms, IdleForm
<1>2. Wait(h, op)
  BY DEF Ask
<1> HIDE DEF op
<1>3. AppShape' /\ streams' = Unsubscribed(app.unsub)
  BY DEF Unsubscribe, AppShape, AppFields
<1>4. Hush(h)
  BY <1>1, <1>2, <1>3, Left DEF Hush, Silent, StreamShape
<1> QED
  BY <1>4, HushKeeps

LEMMA LeavingKeeps ==
  ASSUME StreamInv, NEW h \in Slots,
         (\E j \in Jobs : OpenJob(h, j)) \/ CancelActiveJob(h) \/ CancelAll(h)
  PROVE  StreamInv'
<1>0. DOMAIN app = AppFields
  BY ShapeOfApp
<1>1. ASSUME NEW j \in Jobs, OpenJob(h, j) PROVE StreamInv'
  <2> DEFINE a == [Card(app, j, Report(j)) EXCEPT !.background = FALSE,
                     !.screen = IF status[j] = "failed" THEN "queue-failed" ELSE "queue-detail"]
  <2>1. DOMAIN a = AppFields
    BY <1>0 DEF Card, AppFields
  <2>2. Unsubscribe(a) /\ Ask(h, "open", j)
    BY <1>1 DEF OpenJob
  <2> HIDE DEF a
  <2> QED
    BY <2>1, <2>2, LeavesHush
<1>2. CASE CancelActiveJob(h)
  BY <1>0, <1>2, LeavesHush DEF CancelActiveJob
<1>3. CASE CancelAll(h)
  <2> DEFINE a == [Card(app, NoJob, "none") EXCEPT !.batch = <<>>]
  <2>1. DOMAIN a = AppFields
    BY <1>0 DEF Card, AppFields
  <2>2. Unsubscribe(a) /\ Ask(h, "cancelAll", NoJob)
    BY <1>3 DEF CancelAll
  <2> HIDE DEF a
  <2> QED
    BY <2>1, <2>2, LeavesHush
<1> QED
  BY <1>1, <1>2, <1>3

(* A click that asks and leaves the card.                                     *)
LEMMA AskingKeeps ==
  ASSUME StreamInv, NEW h \in Slots,
         (\E j \in Jobs : CancelJobs(h, j) \/ DeleteJobs(h, j)) \/ DeleteActiveJob(h)
  PROVE  StreamInv'
<1>1. /\ DOMAIN app = AppFields /\ UNCHANGED <<app, streams>>
      /\ \E at, j : Ask(h, at, j) /\ at \in {"cancelMany", "deleteMany", "delete"}
                    /\ (at = "cancelMany" => j \in Jobs)
  BY ShapeOfApp DEF CancelJobs, DeleteJobs, DeleteActiveJob, Unmoved, clientVars
<1>2. PICK at, j : Ask(h, at, j) /\ at \in {"cancelMany", "deleteMany", "delete"}
                   /\ (at = "cancelMany" => j \in Jobs)
  BY <1>1
<1> DEFINE op == [IdleOp EXCEPT !.at = at, !.job = j, !.ids = <<app.job>>]
<1>3. DOMAIN op = OpFields /\ op.at = at /\ op.job = j /\ op.ids = <<app.job>>
  BY OpForms, IdleForm
<1>4. Wait(h, op)
  BY <1>2 DEF Ask
<1> HIDE DEF op
<1>5. op.at \notin QuietAt
  BY <1>2, <1>3 DEF QuietAt
<1>6. op.at = "cancelMany" /\ op.ids = <<op.job>> => op.job = app.job /\ app.job # NoJob
  <2>1. <<app.job>> = <<j>> => app.job = j
    OBVIOUS
  <2>2. j \in Jobs => j # NoJob
    BY DEF Jobs, NoJob
  <2> QED
    BY <1>2, <1>3, <2>1, <2>2
<1>7. Keep(h)
  BY <1>1, <1>3, <1>4, <1>5, <1>6 DEF Keep, AppShape
<1> QED
  BY <1>7, KeepKeeps

LEMMA EmptyingKeeps ==
  ASSUME StreamInv, NEW h \in Slots, JobsCanceled(h) \/ JobsDeleted(h) \/ ActiveJobDeleted(h)
  PROVE  StreamInv'
<1>0. DOMAIN app = AppFields /\ h \in Waiting /\ Over(h)
  BY ShapeOfApp DEF JobsCanceled, JobsDeleted, ActiveJobDeleted, Answered, Waiting
<1>1. UNCHANGED streams
  BY DEF JobsCanceled, JobsDeleted, ActiveJobDeleted, Deleted, clientVars
<1>2. ~overlap => CardKept
  BY DEF StreamInv
<1>3. CASE JobsCanceled(h)
  <2>1. app' = app \/ (OnCard(h) /\ \E st : app' = Card(app, ops[h].job, st))
    BY <1>3 DEF JobsCanceled, CardCanceled
  <2>2. AppShape' /\ app'.unsub = app.unsub /\ (~overlap => app'.job = app.job)
    BY <1>0, <1>2, <1>3, <2>1, CardForm DEF AppShape, CardKept, JobsCanceled, Answered
  <2>3. Empty(h)
    BY <1>0, <1>1, <2>2 DEF Empty
  <2> QED
    BY <2>3, EmptyKeeps
<1>4. CASE JobsDeleted(h) \/ ActiveJobDeleted(h)
  <2>1. app' = app \/ app' = Card(app, NoJob, "none")
        \/ app' = [Card(app, NoJob, "none") EXCEPT !.screen = "queue-list"]
    BY <1>4 DEF JobsDeleted, ActiveJobDeleted
  <2>2. AppShape' /\ app'.unsub = app.unsub /\ app'.job \in {NoJob, app.job}
    BY <1>0, <2>1 DEF AppShape, AppFields, Card
  <2>3. Empty(h)
    BY <1>0, <1>1, <2>2 DEF Empty
  <2> QED
    BY <2>3, EmptyKeeps
<1> QED
  BY <1>3, <1>4

LEMMA PlainKeeps ==
  ASSUME StreamInv, NEW h \in Slots, AllCanceled(h) \/ RequestFails(h)
  PROVE  StreamInv'
<1>1. DOMAIN app = AppFields /\ Over(h)
  BY ShapeOfApp DEF AllCanceled, RequestFails
<1>2. UNCHANGED streams /\ (app' = app \/ app' = [app EXCEPT !.screen = "queue-list"])
  BY DEF AllCanceled, RequestFails, clientVars
<1>3. AppShape' /\ app'.job = app.job /\ app'.unsub = app.unsub
  BY <1>1, <1>2 DEF AppShape, AppFields
<1> QED
  BY <1>1, <1>2, <1>3, OverKeeps

LEMMA StillsKeep ==
  ASSUME StreamInv, JobMoves \/ CloseDialog \/ OpenRunningQueue \/ \E s : Navigate(s)
  PROVE  StreamInv'
<1>0. DOMAIN app = AppFields
  BY ShapeOfApp
<1>1. UNCHANGED <<streams, ops, overlap>>
  BY DEF JobMoves, ClientNext, Advance, CancelTimer, CloseDialog, OpenRunningQueue, Navigate, Unmoved,
         clientVars, faultVars
<1>2. \/ app' = app
      \/ app' = [app EXCEPT !.remote = {}, !.gate = {}]
      \/ \E b, s : app' = [app EXCEPT !.background = b, !.screen = s]
      \/ \E s : app' = [app EXCEPT !.screen = s]
  BY DEF JobMoves, CloseDialog, OpenRunningQueue, Navigate
<1>3. Still
  BY <1>0, <1>1, <1>2 DEF Still, AppShape, AppFields
<1> QED
  BY <1>3, StillKeeps

(* What a stream tells of a job that goes on.                                 *)
LEMMA ToldKeeps ==
  ASSUME StreamInv, NEW s \in Streams, Snapshot(s) \/ Progress(s) \/ StreamLost(s)
  PROVE  StreamInv'
<1>0. DOMAIN app = AppFields /\ StreamShape(streams) /\ OpsShape
  BY ShapeOfApp DEF StreamInv
<1>1. PICK told : streams' = [streams EXCEPT ![s].told = told]
  BY DEF Snapshot, Progress, StreamLost, LoseStream
<1>2. UNCHANGED <<ops, overlap>> /\ streams[s] # Closed
  BY DEF Snapshot, CanSnapshot, Progress, CanProgress, StreamLost, LoseStream, faultVars, Closed
<1>3. /\ StreamShape(streams)' /\ \A r \in Streams : streams'[r].job = streams[r].job
      /\ \A r \in Streams \ {s} : streams'[r] = streams[r]
  BY <1>0, <1>1 DEF StreamShape
<1>4. \/ app' = app
      \/ \E st : app' = Card(app, app.job, st)
      \/ app.job = NoJob /\ \E st : app' = Card(app, streams[s].job, st)
  BY DEF Snapshot, Progress, StreamLost
<1>5. AppShape' /\ app'.unsub = app.unsub
      /\ (app'.job = app.job \/ (app.job = NoJob /\ app'.job = streams[s].job))
  BY <1>0, <1>4, CardForm DEF AppShape
<1>6. OpsShape'
  BY <1>0, <1>2 DEF OpsShape
<1> SUFFICES ASSUME ~overlap' PROVE Listens' /\ Alone' /\ Quiet' /\ CardKept'
  BY <1>3, <1>5, <1>6 DEF StreamInv
<1>7. Listens /\ Alone /\ Quiet /\ CardKept
  BY <1>2 DEF StreamInv
<1>8. s = app.unsub /\ app.job \in {NoJob, streams[s].job} /\ \A r \in Streams \ {s} : streams[r] = Closed
  BY <1>2, <1>7 DEF Listens
<1>9. Listens'
  BY <1>3, <1>5, <1>8 DEF Listens
<1>10. Alone' /\ Quiet' /\ CardKept'
  BY <1>2, <1>5, <1>7 DEF Alone, Waiting, Quiet, Silent, CardKept, OnCard
<1> QED
  BY <1>9, <1>10

(* The end of the job of a stream.                                            *)
LEMMA EndedKeeps ==
  ASSUME StreamInv, NEW h \in Slots, NEW s \in Streams, NEW end, Ended(h, s, end)
  PROVE  StreamInv'
<1>0. DOMAIN app = AppFields /\ StreamShape(streams) /\ (~overlap => Listens)
  BY ShapeOfApp DEF StreamInv
<1> DEFINE left == Unsubscribed(app.unsub)
<1>1. StreamShape(left) /\ (~overlap => \A r \in Streams : left[r] = Closed)
  BY Left
<1>2. streams' = [left EXCEPT ![s] = Closed]
  BY DEF Ended
<1> HIDE DEF left
<1>3. StreamShape(streams)' /\ (~overlap => Silent')
  BY <1>1, <1>2 DEF StreamShape, Silent, Closed
<1> DEFINE a == [app EXCEPT !.unsub = NoStream,
                   !.shown = IF app.job = NoJob THEN @ ELSE end,
                   !.completed = IF end = "succeeded" THEN @ \cup ({app.job} \ {NoJob}) ELSE @]
<1>4. DOMAIN a = AppFields /\ a.job = app.job
  BY <1>0 DEF AppFields
<1>5. Succeeded(h, a, app.job) \/ Broken(h, a, app.job, end)
  BY DEF Ended
<1> HIDE DEF a
<1>6. \/ \E at : Follow(h, at, app.job) /\ app' = a /\ at \in {"burn", "listDone", "list"}
      \/ Over(h) /\ \E sc : app' = Show(a, sc)
  BY <1>5 DEF Succeeded, Broken
<1>7. CASE \E at : Follow(h, at, app.job) /\ app' = a /\ at \in {"burn", "listDone", "list"}
  <2>1. PICK at : Follow(h, at, app.job) /\ app' = a /\ at \in {"burn", "listDone", "list"}
    BY <1>7
  <2> DEFINE op == [IdleOp EXCEPT !.at = at, !.job = app.job, !.ids = app.batch]
  <2>2. DOMAIN op = OpFields /\ op.at = at
    BY OpForms, IdleForm
  <2>3. Wait(h, op)
    BY <2>1 DEF Follow
  <2> HIDE DEF op
  <2>4. Hush(h)
    BY <1>3, <1>4, <2>1, <2>2, <2>3 DEF Hush, AppShape
  <2> QED
    BY <2>4, HushKeeps
<1>8. CASE Over(h) /\ \E sc : app' = Show(a, sc)
  <2>1. Hush(h)
    BY <1>3, <1>4, <1>8, ShowForm DEF Hush, AppShape
  <2> QED
    BY <2>1, HushKeeps
<1> QED
  BY <1>6, <1>7, <1>8

LEMMA StreamInvInit == AppJobsInit => StreamInv
<1> SUFFICES ASSUME AppJobsInit PROVE StreamInv
  OBVIOUS
<1>1. AppShape /\ OpsShape /\ StreamShape(streams)
  BY IdleForm DEF AppJobsInit, ClientInit, AppShape, AppFields, OpsShape, StreamShape, Closed
<1>2. \A h \in Slots : ops[h].at = "idle"
  BY IdleForm DEF AppJobsInit
<1>3. Silent
  BY DEF AppJobsInit, ClientInit, Silent
<1> QED
  BY <1>1, <1>2, <1>3 DEF StreamInv, Listens, Silent, Alone, Waiting, Quiet, CardKept

LEMMA StreamInvNext == StreamInv /\ [JobsNext]_jobVars => StreamInv'
<1> SUFFICES ASSUME StreamInv, [JobsNext]_jobVars PROVE StreamInv'
  OBVIOUS
<1>1. CASE UNCHANGED jobVars
  BY <1>1, StillKeeps DEF jobVars, clientVars, Still, StreamInv, AppShape
<1>2. CASE JobsNext
  <2>1. ASSUME NEW h \in Slots, Continues(h) \/ FFmpegInstalled(h) \/ RequestFails(h) \/ Clicked(h)
        PROVE  StreamInv'
    BY <2>1, StartsKeep, JobMadeKeeps, BurnMadeKeeps, JobsListedKeeps, DetailsLoadedKeeps, NextFollowedKeeps,
       JobOpenedKeeps, CanceledKeeps, LeavingKeeps, AskingKeeps, EmptyingKeeps, PlainKeeps, Zenon
       DEF Continues, Clicked
  <2>2. ASSUME NEW s \in Streams, Delivered(s) \/ StreamLost(s) PROVE StreamInv'
    BY <2>2, ToldKeeps, EndedKeeps, Zenon DEF Delivered
  <2> QED
    BY <1>2, <2>1, <2>2, StillsKeep, Zenon DEF JobsNext
<1> QED
  BY <1>1, <1>2

(* However many jobs are made, opened, followed and canceled, App listens to  *)
(* one job at most, holds its subscription, and it is the job of the card,    *)
(* unless two functions waited at a time (AppShell.tsx:392, 464, 777, 875).   *)
THEOREM OneStreamHolds == JobsSpec => []OneStream
<1>1. StreamInv => OneStream
  BY DEF StreamInv, OneStream, Listens
<1> QED
  BY <1>1, StreamInvInit, StreamInvNext, PTL DEF JobsSpec

-------------------------------------------------------------------------------
(* Results.  Where the functions come one at a time and nothing fails (Calm), *)
(* what App has counted as completed is done, a function that counts has the  *)
(* batch of App, and no step undoes what a job has come to (Grows).           *)
Calm == ~Mock /\ present = {} /\ ~overlap /\ ~astray
Past(st) == st \in {"succeeded", "gone"}
Done(j) == j \in Jobs /\ Past(status[j])

(* Where a function waits that counts the jobs of the batch.                  *)
Counting == {"burn", "list", "listDone", "details"}

JobsOf(strs) == \A s \in Streams : strs[s] # Closed => strs[s].job \in Jobs
IdsTyped(op) == op.at = "create" => op.ids \in Seq(Jobs)
OpDone(op) ==
  /\ op.at \in Counting => op.ids = app.batch
  /\ op.at = "listDone" /\ op.job # NoJob => Done(op.job)
  /\ op.at = "details" => \A j \in Range(op.ids) : Done(j)
AppDone ==
  /\ \A j \in app.completed : Done(j)
  /\ app.screen = "main-done" => ~app.background /\ (Single \/ \A j \in Range(app.batch) : Done(j))

DoneShape ==
  DOMAIN status = Jobs /\ app.batch \in Seq(Jobs) /\ JobsOf(streams) /\ \A h \in Slots : IdsTyped(ops[h])
DoneInv == DoneShape /\ (Calm => AppDone /\ \A h \in Slots : OpDone(ops[h]))

(* No step undoes what a job has come to, and the history only grows.         *)
Grows ==
  /\ UNCHANGED <<backend, present>> /\ DOMAIN status' = Jobs
  /\ (~overlap' => ~overlap) /\ (~astray' => ~astray)
  /\ ~Mock => \A j : Done(j) => Done(j)'

LEMMA CalmBefore ==
  ASSUME Grows, Calm'
  PROVE  Calm /\ \A j : Done(j) => Done(j)'
BY DEF Grows, Calm, Mock

(* A step that leaves the batch and what is counted of it.                    *)
MildTo(a) ==
  /\ DOMAIN a = AppFields /\ a.batch = app.batch /\ a.completed = app.completed
  /\ a.screen = "main-done" => app.screen = "main-done" /\ a.background = app.background
AppMild == MildTo(app')
Mild(op) == op.at \notin Counting /\ (op.at = "create" => op.ids = <<>>)
OpsMild(h) == UNCHANGED ops \/ Over(h) \/ \E op : Wait(h, op) /\ Mild(op)

LEMMA OpsAfter ==
  ASSUME OpsShape, NEW h, OpsMild(h), NEW g \in Slots
  PROVE  ops'[g] = ops[g] \/ Mild(ops'[g])
<1>1. Mild(IdleOp)
  BY DEF IdleOp, Mild, Counting
<1>2. ASSUME NEW op, ops' = [ops EXCEPT ![h] = op], Mild(op) PROVE ops'[g] = ops[g] \/ Mild(ops'[g])
  BY <1>2 DEF OpsShape
<1> QED
  BY <1>1, <1>2 DEF OpsMild, Over, Wait

LEMMA MildKeeps ==
  ASSUME StreamInv, DoneInv, NEW h, Grows, AppMild, OpsMild(h), JobsOf(streams')
  PROVE  DoneInv'
<1>1. \A g \in Slots : ops'[g] = ops[g] \/ Mild(ops'[g])
  BY OpsAfter DEF StreamInv
<1>2. ASSUME NEW g \in Slots PROVE IdsTyped(ops[g])'
  <2>1. IdsTyped(ops[g]) /\ <<>> \in Seq(Jobs)
    BY DEF DoneInv, DoneShape
  <2>2. ops'[g].at = "create" => ops'[g].ids \in Seq(Jobs)
    BY <1>1, <2>1 DEF IdsTyped, Mild
  <2> QED
    BY <2>2 DEF IdsTyped
<1>3. DoneShape'
  BY <1>2 DEF DoneInv, DoneShape, Grows, AppMild, MildTo, JobsOf
<1> SUFFICES ASSUME Calm' PROVE AppDone' /\ \A g \in Slots : OpDone(ops[g])'
  BY <1>3 DEF DoneInv
<1>4. Calm /\ \A j : Done(j) => Done(j)'
  BY CalmBefore
<1>5. AppDone /\ \A g \in Slots : OpDone(ops[g])
  BY <1>4 DEF DoneInv
<1>6. AppDone'
  BY <1>4, <1>5 DEF AppDone, AppMild, MildTo, Single
<1>7. ASSUME NEW g \in Slots PROVE OpDone(ops[g])'
  BY <1>1, <1>4, <1>5 DEF OpDone, AppMild, MildTo, Mild, Counting
<1> QED
  BY <1>6, <1>7

(* What becomes of the jobs.                                                  *)
LEMMA GrowsBy ==
  ASSUME DOMAIN status = Jobs, UNCHANGED <<backend, present>>, ~overlap' => ~overlap, ~astray' => ~astray,
         \/ UNCHANGED status
         \/ \E j, x : status' = [status EXCEPT ![j] = x] /\ (~Mock /\ Done(j) => Past(x))
         \/ CancelAllJobs
  PROVE  Grows
<1>1. CASE UNCHANGED status
  BY <1>1 DEF Grows, Done
<1>2. CASE \E j, x : status' = [status EXCEPT ![j] = x] /\ (~Mock /\ Done(j) => Past(x))
  BY <1>2 DEF Grows, Done
<1>3. CASE CancelAllJobs
  BY <1>3 DEF Grows, Done, CancelAllJobs, Past
<1> QED
  BY <1>1, <1>2, <1>3

LEMMA NextIdIsFree ==
  ASSUME CanCreate
  PROVE  NextId \in Jobs /\ status[NextId] = "none"
<1> DEFINE F == {j \in Jobs : status[j] = "none"}
<1>1. F \subseteq Nat /\ F # {}
  BY DEF CanCreate, Jobs
<1>2. PICK m \in F : \A k \in F : m <= k
  BY <1>1, LeastOf
<1>3. \E j \in Jobs : status[j] = "none" /\ \A k \in Jobs : k < j => status[k] # "none"
  <2>1. \A k \in Jobs : k < m => k \notin F
    BY <1>1, <1>2 DEF Jobs
  <2> QED
    BY <1>2, <2>1
<1> QED
  BY <1>3 DEF NextId

LEMMA CreateGrows ==
  ASSUME NEW k, CreateJob(k)
  PROVE  \E j, x : status' = [status EXCEPT ![j] = x] /\ (~Mock /\ Done(j) => Past(x))
<1>1. ~Done(NextId)
  BY NextIdIsFree DEF CreateJob, Done, Past
<1>2. status' = [status EXCEPT ![NextId] = Made(k)]
  BY DEF CreateJob
<1> QED
  BY <1>1, <1>2

LEMMA CancelGrows ==
  ASSUME NEW j, CancelJob(j)
  PROVE  \E i, x : status' = [status EXCEPT ![i] = x] /\ (~Mock /\ Done(i) => Past(x))
<1>1. ~Mock /\ Done(j) => Past(Canceled(j))
  BY DEF Done, Past, Canceled
<1>2. status' = [status EXCEPT ![j] = Canceled(j)]
  BY DEF CancelJob
<1> QED
  BY <1>1, <1>2

LEMMA DeleteGrows ==
  ASSUME NEW j, DeleteJob(j)
  PROVE  \E i, x : status' = [status EXCEPT ![i] = x] /\ (~Mock /\ Done(i) => Past(x))
BY DEF DeleteJob, Past

LEMMA MovesGrow ==
  ASSUME ClientNext
  PROVE  \E i, x : status' = [status EXCEPT ![i] = x] /\ (~Mock /\ Done(i) => Past(x))
<1>1. ASSUME NEW j \in Jobs, Advance(j)
      PROVE  \E i, x : status' = [status EXCEPT ![i] = x] /\ (~Mock /\ Done(i) => Past(x))
  <2>1. ~Done(j)
    BY <1>1 DEF Advance, Done, Past
  <2>2. \E x : status' = [status EXCEPT ![j] = x]
    BY <1>1 DEF Advance
  <2> QED
    BY <2>1, <2>2
<1>2. ASSUME NEW j \in Jobs, CancelTimer(j)
      PROVE  \E i, x : status' = [status EXCEPT ![i] = x] /\ (~Mock /\ Done(i) => Past(x))
  <2> DEFINE x == IF status[j] = "canceling" THEN "canceled" ELSE status[j]
  <2>1. status' = [status EXCEPT ![j] = x]
    BY <1>2 DEF CancelTimer
  <2>2. Done(j) => Past(x)
    BY DEF Done, Past
  <2> HIDE DEF x
  <2> QED
    BY <2>1, <2>2
<1> QED
  BY <1>1, <1>2 DEF ClientNext

LEMMA Monotone ==
  ASSUME NEW h, UNCHANGED overlap \/ Over(h) \/ \E op : Wait(h, op)
  PROVE  ~overlap' => ~overlap
BY DEF Over, Wait

(* The streams are of jobs that were made.                                    *)
LEMMA StreamJobs ==
  ASSUME StreamShape(streams), JobsOf(streams)
  PROVE  \A x : JobsOf(Unsubscribed(x)) /\ StreamShape(Unsubscribed(x))
BY DEF StreamShape, JobsOf, Unsubscribed, Closed

LEMMA OpenedJobs ==
  ASSUME NEW strs, StreamShape(strs), JobsOf(strs), HasFree(strs), NEW j \in Jobs
  PROVE  JobsOf(Opened(j, strs))
<1>1. FirstFree(strs) \in Streams
  BY FirstFreeIsFree
<1> QED
  BY <1>1 DEF StreamShape, JobsOf, Opened

LEMMA MildForms ==
  ASSUME NEW a, MildTo(a)
  PROVE  /\ \A j, st : MildTo(Card(a, j, st))
         /\ \A s : s # "main-done" => MildTo(Show(a, s)) /\ MildTo([a EXCEPT !.screen = s])
         /\ \A x : MildTo([a EXCEPT !.unsub = x])
         /\ \A b, s : s # "main-done" => MildTo([a EXCEPT !.background = b, !.screen = s])
BY DEF MildTo, Card, Show, AppFields

LEMMA SubscribeMild ==
  ASSUME NEW a, MildTo(a), NEW j \in Jobs, NEW strs, StreamShape(strs), JobsOf(strs), Subscribe(a, j, strs)
  PROVE  AppMild /\ JobsOf(streams')
<1>0. DOMAIN a = AppFields
  BY DEF MildTo
<1>1. app' = [a EXCEPT !.unsub = FirstFree(strs)]
  BY DEF Subscribe
<1>2. AppMild
  BY <1>0, <1>1 DEF AppMild, MildTo, AppFields
<1>3. streams' = Opened(j, strs) /\ HasFree(strs)
  BY DEF Subscribe
<1> QED
  BY <1>2, <1>3, OpenedJobs

LEMMA DoneFacts ==
  ASSUME StreamInv, DoneInv
  PROVE  /\ DOMAIN app = AppFields /\ MildTo(app) /\ OpsShape /\ DOMAIN status = Jobs
         /\ StreamShape(streams) /\ JobsOf(streams) /\ \A h \in Slots : DOMAIN ops[h] = OpFields
BY DEF StreamInv, AppShape, OpsShape, DoneInv, DoneShape, MildTo

LEMMA LaunchDone ==
  ASSUME StreamInv, DoneInv, NEW h \in Slots, Launch(h)
  PROVE  DoneInv'
<1>1. Grows
  BY DoneFacts, Monotone, GrowsBy DEF Launch, clientVars
<1>2. AppMild
  BY DoneFacts DEF Launch, AppMild, MildTo, AppShape
<1>3. OpsMild(h)
  BY DEF Launch, OpsMild, Fresh, Mild, StartAt, Counting
<1>4. JobsOf(streams')
  BY DoneFacts DEF Launch, clientVars
<1> QED
  BY <1>1, <1>2, <1>3, <1>4, MildKeeps

(* App subscribes to a job there is.                                          *)
LEMMA FollowsDone ==
  ASSUME StreamInv, DoneInv, NEW h \in Slots, NextFollowed(h) \/ JobOpened(h)
  PROVE  DoneInv'
<1>1. Over(h) /\ ops[h].job \in Jobs /\ UNCHANGED <<backend, status, present, astray>>
  BY DEF NextFollowed, JobOpened, Known
<1>2. Grows
  BY <1>1, DoneFacts, Monotone, GrowsBy
<1> DEFINE b == Card(app, ops[h].job, Report(ops[h].job))
<1>3. MildTo(b) /\ MildTo(Show(b, "main-generating"))
  BY DoneFacts, MildForms
<1>4. b.job = ops[h].job
  BY DoneFacts, CardForm
<1>5. AppMild /\ JobsOf(streams')
  <2>1. CASE NextFollowed(h)
    <3>1. Subscribe(Show(b, "main-generating"), ops[h].job, streams)
      BY <2>1 DEF NextFollowed
    <3> HIDE DEF b
    <3> QED
      BY <1>1, <1>3, <3>1, DoneFacts, SubscribeMild
  <2>2. CASE JobOpened(h)
    <3>1. Subscribe(b, ops[h].job, streams) \/ (app' = b /\ UNCHANGED streams)
      BY <1>4, <2>2 DEF JobOpened
    <3> HIDE DEF b
    <3> QED
      BY <1>1, <1>3, <3>1, DoneFacts, SubscribeMild DEF AppMild
  <2> QED
    BY <2>1, <2>2
<1> QED
  BY <1>1, <1>2, <1>5, MildKeeps DEF OpsMild

(* The answers after which nothing is followed.                               *)
LEMMA MildAnswers ==
  ASSUME DOMAIN app = AppFields, NEW h \in Slots,
         \/ CancelSeen(h) \/ JobsCanceled(h) \/ JobsDeleted(h) \/ ActiveJobDeleted(h) \/ AllCanceled(h)
         \/ RequestFails(h) \/ ActiveJobCanceled(h)
  PROVE  AppMild
<1>1. \/ app' = app
      \/ \E j, st : app' = Card(app, j, st)
      \/ \E j, st : app' = [Card(app, j, st) EXCEPT !.screen = "queue-list"]
      \/ \E j, st : app' = [Card(app, j, st) EXCEPT !.screen = "queue-detail"]
      \/ app' = [app EXCEPT !.screen = "queue-list"]
  BY DEF CancelSeen, JobsCanceled, CardCanceled, JobsDeleted, ActiveJobDeleted, AllCanceled, RequestFails,
         ActiveJobCanceled
<1> QED
  BY <1>1 DEF AppMild, MildTo, Card, AppFields

LEMMA AnswersDone ==
  ASSUME StreamInv, DoneInv, NEW h \in Slots,
         \/ CancelSeen(h) \/ JobsCanceled(h) \/ JobsDeleted(h) \/ ActiveJobDeleted(h) \/ AllCanceled(h)
         \/ RequestFails(h) \/ ActiveJobCanceled(h)
  PROVE  DoneInv'
<1>1. AppMild
  BY DoneFacts, MildAnswers
<1>2. OpsMild(h)
  <2>1. CASE ActiveJobCanceled(h)
    <3> DEFINE op == [ops[h] EXCEPT !.at = "timer"]
    <3>1. Wait(h, op)
      BY <2>1 DEF ActiveJobCanceled
    <3>2. DOMAIN ops[h] = OpFields
      BY DoneFacts
    <3>3. op.at = "timer"
      BY <3>2 DEF OpFields
    <3> HIDE DEF op
    <3> QED
      BY <3>1, <3>3 DEF OpsMild, Mild, Counting
  <2>2. CASE Over(h)
    BY <2>2 DEF OpsMild
  <2> QED
    BY <2>1, <2>2 DEF CancelSeen, JobsCanceled, JobsDeleted, ActiveJobDeleted, AllCanceled, RequestFails
<1>3. UNCHANGED <<backend, present, streams>>
  BY DEF CancelSeen, JobsCanceled, JobsDeleted, ActiveJobDeleted, AllCanceled, RequestFails, ActiveJobCanceled,
         Deleted, clientVars
<1>4. (~overlap' => ~overlap) /\ (~astray' => ~astray)
  <2>1. ~astray' => ~astray
    BY DEF CancelSeen, JobsCanceled, JobsDeleted, ActiveJobDeleted, AllCanceled, RequestFails,
           ActiveJobCanceled, Deleted
  <2>2. OpsMild(h) => UNCHANGED overlap \/ Over(h) \/ \E op : Wait(h, op)
    BY DEF CancelSeen, JobsCanceled, JobsDeleted, ActiveJobDeleted, AllCanceled, RequestFails,
           ActiveJobCanceled
  <2> QED
    BY <1>2, <2>1, <2>2, Monotone
<1>5. UNCHANGED status \/ (\E j : CancelJob(j) \/ DeleteJob(j)) \/ CancelAllJobs
  BY DEF CancelSeen, JobsCanceled, JobsDeleted, ActiveJobDeleted, AllCanceled, RequestFails, ActiveJobCanceled,
         Deleted, clientVars
<1>6. Grows
  BY <1>3, <1>4, <1>5, DoneFacts, CancelGrows, DeleteGrows, GrowsBy
<1> QED
  BY <1>1, <1>2, <1>3, <1>6, DoneFacts, MildKeeps

(* The clicks on the jobs there are.                                          *)
LEMMA AskMild ==
  ASSUME NEW h \in Slots, NEW at, at \notin Counting, at # "create", NEW j, Ask(h, at, j)
  PROVE  OpsMild(h) /\ (~overlap' => ~overlap)
<1> DEFINE op == [IdleOp EXCEPT !.at = at, !.job = j, !.ids = <<app.job>>]
<1>1. Mild(op)
  BY OpForms, IdleForm DEF Mild
<1>2. Wait(h, op)
  BY DEF Ask
<1> HIDE DEF op
<1>3. \E o : Wait(h, o) /\ Mild(o)
  BY <1>1, <1>2, Zenon
<1> QED
  BY <1>3, Monotone DEF OpsMild

LEMMA UnsubscribeMild ==
  ASSUME NEW a, MildTo(a), StreamShape(streams), JobsOf(streams), Unsubscribe(a)
  PROVE  AppMild /\ JobsOf(streams')
<1>0. DOMAIN a = AppFields
  BY DEF MildTo
<1>1. app' = [a EXCEPT !.unsub = NoStream] /\ streams' = Unsubscribed(app.unsub)
  BY DEF Unsubscribe
<1>2. AppMild
  BY <1>0, <1>1 DEF AppMild, MildTo, AppFields
<1> QED
  BY <1>1, <1>2, StreamJobs

LEMMA ClicksDone ==
  ASSUME StreamInv, DoneInv, NEW h \in Slots,
         \/ \E j \in Jobs : OpenJob(h, j) \/ CancelJobs(h, j) \/ DeleteJobs(h, j)
         \/ CancelActiveJob(h) \/ DeleteActiveJob(h)
  PROVE  DoneInv'
<1>1. \E at, j : Ask(h, at, j) /\ at \in {"open", "cancelMany", "deleteMany", "cancel", "delete"}
  BY DEF OpenJob, CancelJobs, DeleteJobs, CancelActiveJob, DeleteActiveJob
<1>2. OpsMild(h) /\ (~overlap' => ~overlap)
  BY <1>1, AskMild DEF Counting
<1>3. UNCHANGED <<backend, present, status, astray>>
  BY DEF OpenJob, CancelJobs, DeleteJobs, CancelActiveJob, DeleteActiveJob, Unmoved, clientVars
<1>4. Grows
  BY <1>2, <1>3, DoneFacts, GrowsBy
<1>5. AppMild /\ JobsOf(streams')
  <2>1. ASSUME NEW j \in Jobs, OpenJob(h, j) PROVE AppMild /\ JobsOf(streams')
    <3> DEFINE s == IF status[j] = "failed" THEN "queue-failed" ELSE "queue-detail"
               a == [Card(app, j, Report(j)) EXCEPT !.background = FALSE, !.screen = s]
    <3>1. s # "main-done"
      OBVIOUS
    <3> HIDE DEF s
    <3>2. MildTo(a)
      BY <3>1, DoneFacts DEF MildTo, Card, AppFields
    <3>3. Unsubscribe(a)
      BY <2>1 DEF OpenJob, s
    <3> HIDE DEF a
    <3> QED
      BY <3>2, <3>3, DoneFacts, UnsubscribeMild
  <2>2. CASE CancelActiveJob(h)
    BY <2>2, DoneFacts, UnsubscribeMild DEF CancelActiveJob
  <2>3. CASE DeleteActiveJob(h) \/ \E j \in Jobs : CancelJobs(h, j) \/ DeleteJobs(h, j)
    BY <2>3, DoneFacts DEF DeleteActiveJob, CancelJobs, DeleteJobs, Unmoved, clientVars, AppMild
  <2> QED
    BY <2>1, <2>2, <2>3
<1> QED
  BY <1>2, <1>4, <1>5, MildKeeps

(* What the streams tell of a job that goes on, and what no function does.    *)
LEMMA ToldDone ==
  ASSUME StreamInv, DoneInv, NEW s \in Streams, Snapshot(s) \/ Progress(s) \/ StreamLost(s)
  PROVE  DoneInv'
<1>1. UNCHANGED ops /\ (~overlap' => ~overlap) /\ (~astray' => ~astray)
  BY DEF Snapshot, Progress, StreamLost, faultVars
<1>2. UNCHANGED <<backend, present>> /\ (UNCHANGED status \/ \E j, x : Mock /\ status' = [status EXCEPT ![j] = x])
  BY DEF Snapshot, Progress, StreamLost, LoseStream, Applied
<1>3. Grows
  BY <1>1, <1>2, DoneFacts, GrowsBy
<1>4. PICK told : streams' = [streams EXCEPT ![s].told = told] /\ streams[s] # Closed
  BY DEF Snapshot, CanSnapshot, Progress, CanProgress, StreamLost, LoseStream, Closed
<1>5. JobsOf(streams')
  BY <1>4, DoneFacts DEF StreamShape, JobsOf
<1>6. app' = app \/ \E j, st : app' = Card(app, j, st)
  BY DEF Snapshot, Progress, StreamLost
<1>7. AppMild
  BY <1>6, DoneFacts DEF AppMild, MildTo, Card, AppFields
<1> QED
  BY <1>1, <1>3, <1>5, <1>7, MildKeeps DEF OpsMild

LEMMA OthersDone ==
  ASSUME StreamInv, DoneInv,
         \/ JobMoves \/ CloseDialog \/ OpenRunningQueue \/ \E s \in {"main-files", "queue-list"} : Navigate(s)
         \/ UNCHANGED jobVars
  PROVE  DoneInv'
<1>1. UNCHANGED <<ops, overlap, astray, backend, present, streams>>
  BY DEF JobMoves, ClientNext, Advance, CancelTimer, CloseDialog, OpenRunningQueue, Navigate, Unmoved,
         clientVars, faultVars, jobVars
<1>2. UNCHANGED status \/ ClientNext
  BY DEF JobMoves, CloseDialog, OpenRunningQueue, Navigate, Unmoved, clientVars, jobVars
<1>3. Grows
  BY <1>1, <1>2, DoneFacts, MovesGrow, GrowsBy
<1>4. \/ app' = app
      \/ app' = [app EXCEPT !.remote = {}, !.gate = {}]
      \/ app' = [app EXCEPT !.background = TRUE, !.screen = "queue-list"]
      \/ \E s \in {"main-files", "queue-list"} : app' = [app EXCEPT !.screen = s]
  BY DEF JobMoves, CloseDialog, OpenRunningQueue, Navigate, jobVars
<1>5. AppMild
  BY <1>4, DoneFacts DEF AppMild, MildTo, AppFields
<1> QED
  BY <1>1, <1>3, <1>5, DoneFacts, MildKeeps DEF OpsMild

(* While one function waits, the others are idle.                             *)
LEMMA OthersIdle ==
  ASSUME StreamInv, ~overlap, NEW h \in Slots, h \in Waiting
  PROVE  \A g \in Slots \ {h} : ops[g].at = "idle"
BY DEF StreamInv, Alone, Waiting

LEMMA IdleDone ==
  ASSUME NEW op, op.at = "idle"
  PROVE  OpDone(op) /\ OpDone(op)' /\ IdsTyped(op)
BY DEF OpDone, Counting, IdsTyped

(* A batch begins: its function is over, and no other one waits.              *)
LEMMA BeginsDone ==
  ASSUME StreamInv, DoneInv, NEW h \in Slots, h \in Waiting, Over(h), Grows, JobsOf(streams'),
         app'.batch \in Seq(Jobs), Calm => AppDone'
  PROVE  DoneInv'
<1>1. /\ \A g \in Slots : ops'[g] = ops[g] \/ ops'[g].at = "idle"
      /\ ops'[h].at = "idle" /\ \A g \in Slots \ {h} : ops'[g] = ops[g]
  BY OverSlots DEF StreamInv
<1>2. ASSUME NEW g \in Slots PROVE IdsTyped(ops[g])'
  BY <1>1 DEF DoneInv, DoneShape, IdsTyped
<1>3. DoneShape'
  BY <1>2 DEF DoneShape, Grows, JobsOf
<1>4. ASSUME Calm', NEW g \in Slots PROVE OpDone(ops[g])'
  <2>1. ~overlap
    BY <1>4, CalmBefore DEF Calm
  <2>2. ops'[g].at = "idle"
    BY <1>1, <2>1, OthersIdle
  <2> QED
    BY <2>2 DEF OpDone, Counting
<1> QED
  BY <1>3, <1>4, CalmBefore DEF DoneInv

(* The jobs are made.                                                         *)
LEMMA JobMadeDone ==
  ASSUME StreamInv, DoneInv, NEW h \in Slots, JobMade(h)
  PROVE  DoneInv'
<1> DEFINE ids == Append(ops[h].ids, NextId)
           left == Unsubscribed(app.unsub)
           st == ReportAs(NextId, Made(ops[h].run.type))
<1>1. /\ h \in Waiting /\ ops[h].at = "create" /\ CreateJob(ops[h].run.type)
      /\ UNCHANGED <<backend, present, astray>>
  BY DEF JobMade, Waiting
<1>2. NextId \in Jobs /\ ops[h].ids \in Seq(Jobs)
  BY <1>1, NextIdIsFree DEF CreateJob, DoneInv, DoneShape, IdsTyped
<1>3. ids \in Seq(Jobs) /\ ids[1] \in Jobs /\ <<NextId>> \in Seq(Jobs)
  <2>1. ids \in Seq(Jobs) /\ Len(ids) = Len(ops[h].ids) + 1 /\ Len(ops[h].ids) \in Nat
    BY <1>2
  <2> HIDE DEF ids
  <2>2. 1 \in 1..Len(ids)
    BY <2>1
  <2> QED
    BY <1>2, <2>1, <2>2, ElementOfSeq
<1>4. JobsOf(left) /\ StreamShape(left)
  BY DoneFacts, StreamJobs
<1>5. Calm => st # "succeeded"
  BY DEF Calm, ReportAs, Made
<1>6. \/ Wait(h, [ops[h] EXCEPT !.ids = ids]) /\ UNCHANGED <<app, streams>>
      \/ Over(h) /\ (BatchBegins(ids) \/ ToolBegins(NextId, st))
  BY DEF JobMade
<1>7. Grows
  BY <1>1, <1>6, DoneFacts, CreateGrows, Monotone, GrowsBy
<1>8. CASE Wait(h, [ops[h] EXCEPT !.ids = ids]) /\ UNCHANGED <<app, streams>>
  <2> DEFINE op == [ops[h] EXCEPT !.ids = ids]
  <2>1. DOMAIN op = OpFields /\ op.at = "create" /\ op.ids = ids
    BY <1>1, DoneFacts DEF OpFields
  <2>2. Wait(h, op)
    BY <1>8
  <2> HIDE DEF op, ids, left, st
  <2>3. ops'[h] = op /\ \A g \in Slots \ {h} : ops'[g] = ops[g]
    BY <2>1, <2>2, WaitSlots, DoneFacts
  <2>4. ASSUME NEW g \in Slots PROVE IdsTyped(ops[g])'
    BY <1>3, <2>1, <2>3 DEF DoneInv, DoneShape, IdsTyped
  <2>5. DoneShape'
    BY <1>7, <1>8, <2>4, DoneFacts DEF DoneInv, DoneShape, Grows, JobsOf
  <2> SUFFICES ASSUME Calm' PROVE AppDone' /\ \A g \in Slots : OpDone(ops[g])'
    BY <2>5 DEF DoneInv
  <2>6. Calm /\ \A j : Done(j) => Done(j)'
    BY <1>7, CalmBefore
  <2>7. AppDone /\ \A g \in Slots : OpDone(ops[g])
    BY <2>6 DEF DoneInv
  <2>8. AppDone'
    BY <1>8, <2>6, <2>7 DEF AppDone, Single
  <2>9. ASSUME NEW g \in Slots PROVE OpDone(ops[g])'
    BY <1>8, <2>1, <2>3, <2>6, <2>7 DEF OpDone, Counting
  <2> QED
    BY <2>8, <2>9
<1>9. CASE Over(h) /\ BatchBegins(ids)
  <2> DEFINE a == [Card(app, ids[1], "queued") EXCEPT !.background = FALSE, !.batch = ids,
                     !.completed = {}, !.screen = "main-generating"]
  <2>1. DOMAIN a = AppFields /\ a.batch = ids /\ a.completed = {} /\ a.screen = "main-generating"
    BY DoneFacts DEF Card, AppFields
  <2>2. Subscribe(a, ids[1], left)
    BY <1>9 DEF BatchBegins
  <2> HIDE DEF a, ids, left, st
  <2>3. app' = [a EXCEPT !.unsub = FirstFree(left)] /\ streams' = Opened(ids[1], left) /\ HasFree(left)
    BY <2>2 DEF Subscribe
  <2>4. app'.batch = ids /\ app'.completed = {} /\ app'.screen = "main-generating"
    BY <2>1, <2>3 DEF AppFields
  <2>5. JobsOf(streams')
    BY <1>3, <1>4, <2>3, OpenedJobs
  <2> QED
    BY <1>1, <1>3, <1>7, <1>9, <2>4, <2>5, BeginsDone DEF AppDone
<1>10. CASE Over(h) /\ ToolBegins(NextId, st)
  <2> DEFINE done == st = "succeeded"
             a == [Card(app, NextId, st) EXCEPT !.background = FALSE, !.batch = <<NextId>>,
                     !.completed = IF done THEN {NextId} ELSE {},
                     !.screen = IF done THEN "main-done" ELSE "main-generating"]
  <2>1. DOMAIN a = AppFields /\ a.batch = <<NextId>>
        /\ (~done => a.completed = {} /\ a.screen = "main-generating")
    BY DoneFacts DEF Card, AppFields
  <2>2. Unsubscribe(a) \/ Subscribe(a, NextId, left)
    BY <1>10 DEF ToolBegins
  <2> HIDE DEF a, ids, left
  <2>3. \E x : app' = [a EXCEPT !.unsub = x]
    BY <2>2 DEF Subscribe, Unsubscribe
  <2>4. app'.batch = <<NextId>> /\ (Calm => app'.completed = {} /\ app'.screen = "main-generating")
    BY <1>5, <2>1, <2>3 DEF AppFields
  <2>5. streams' = left \/ (streams' = Opened(NextId, left) /\ HasFree(left))
    BY <2>2 DEF Subscribe, Unsubscribe, left
  <2>6. JobsOf(streams')
    BY <1>2, <1>4, <2>5, OpenedJobs
  <2> QED
    BY <1>1, <1>3, <1>7, <1>10, <2>4, <2>6, BeginsDone DEF AppDone
<1> QED
  BY <1>6, <1>8, <1>9, <1>10

(* A function goes on to count, and no other one waits.                       *)
LEMMA CountsDone ==
  ASSUME StreamInv, DoneInv, NEW h \in Slots, NEW op, DOMAIN op = OpFields, op.at # "create", Wait(h, op),
         Grows, JobsOf(streams'), app'.batch \in Seq(Jobs), Calm /\ Calm' => AppDone' /\ OpDone(ops[h])'
  PROVE  DoneInv'
<1>1. /\ ops'[h] = op /\ \A g \in Slots \ {h} : ops'[g] = ops[g]
      /\ ~overlap' => \A g \in Slots \ {h} : ops[g].at = "idle"
  BY WaitSlots DEF StreamInv
<1>2. ASSUME NEW g \in Slots PROVE IdsTyped(ops[g])'
  BY <1>1 DEF DoneInv, DoneShape, IdsTyped
<1>3. DoneShape'
  BY <1>2 DEF DoneShape, Grows, JobsOf
<1>4. ASSUME Calm', NEW g \in Slots PROVE OpDone(ops[g])'
  <2>1. CASE g = h
    BY <1>4, <2>1, CalmBefore
  <2>2. CASE g # h
    BY <1>1, <1>4, <2>2 DEF OpDone, Counting, Calm
  <2> QED
    BY <2>1, <2>2
<1> QED
  BY <1>3, <1>4, CalmBefore DEF DoneInv

LEMMA BurnMadeDone ==
  ASSUME StreamInv, DoneInv, NEW h \in Slots, BurnMade(h)
  PROVE  DoneInv'
<1> DEFINE b == NextId
           st == ReportAs(b, Made("burn_in"))
           a == [Card(app, b, st) EXCEPT !.batch = Append(@, b),
                   !.completed = IF st = "succeeded" THEN @ \cup {b} ELSE @]
<1>1. /\ h \in Waiting /\ ops[h].at = "burn" /\ CreateJob("burn_in")
      /\ UNCHANGED <<backend, present, astray>>
  BY DEF BurnMade, Waiting
<1>2. b \in Jobs /\ app.batch \in Seq(Jobs)
  BY <1>1, NextIdIsFree DEF CreateJob, DoneInv, DoneShape
<1>3. Append(app.batch, b) \in Seq(Jobs)
  BY <1>2
<1>4. Calm => st # "succeeded"
  BY DEF Calm, ReportAs, Made
<1>5. /\ DOMAIN a = AppFields /\ a.batch = Append(app.batch, b) /\ a.screen = app.screen
      /\ a.background = app.background /\ (st # "succeeded" => a.completed = app.completed)
  BY DoneFacts DEF Card, AppFields
<1>6. \/ st # "succeeded" /\ Over(h) /\ Subscribe(Show(a, "main-generating"), b, streams)
      \/ st = "succeeded" /\ Over(h) /\ app' = Show(a, "main-done") /\ UNCHANGED streams
      \/ /\ st = "succeeded" /\ Wait(h, [ops[h] EXCEPT !.at = "listDone", !.ids = a.batch])
         /\ app' = a /\ UNCHANGED streams
  BY DEF BurnMade
<1> HIDE DEF a, b, st
<1>7. Grows
  BY <1>1, <1>6, DoneFacts, CreateGrows, Monotone, GrowsBy
<1>8. CASE st # "succeeded" /\ Over(h) /\ Subscribe(Show(a, "main-generating"), b, streams)
  <2>1. /\ app' = [Show(a, "main-generating") EXCEPT !.unsub = FirstFree(streams)]
        /\ streams' = Opened(b, streams) /\ HasFree(streams)
    BY <1>8 DEF Subscribe
  <2>2. /\ app'.batch = Append(app.batch, b) /\ app'.completed = app.completed
        /\ app'.screen = IF app.background THEN app.screen ELSE "main-generating"
    BY <1>5, <1>8, <2>1 DEF Show, AppFields
  <2>3. JobsOf(streams')
    BY <1>2, <2>1, DoneFacts, OpenedJobs
  <2>4. ASSUME Calm PROVE AppDone'
    <3>1. AppDone /\ \A j : Done(j) => Done(j)'
      BY <1>7, <2>4 DEF DoneInv, Grows, Calm
    <3> QED
      BY <2>2, <3>1 DEF AppDone
  <2> QED
    BY <1>1, <1>3, <1>7, <1>8, <2>2, <2>3, <2>4, BeginsDone
<1>9. CASE st = "succeeded" /\ Over(h) /\ app' = Show(a, "main-done") /\ UNCHANGED streams
  <2>1. app'.batch = Append(app.batch, b)
    BY <1>5, <1>9 DEF Show, AppFields
  <2> QED
    BY <1>1, <1>3, <1>4, <1>7, <1>9, <2>1, DoneFacts, BeginsDone
<1>10. CASE /\ st = "succeeded" /\ Wait(h, [ops[h] EXCEPT !.at = "listDone", !.ids = a.batch])
            /\ app' = a /\ UNCHANGED streams
  <2> DEFINE op == [ops[h] EXCEPT !.at = "listDone", !.ids = a.batch]
  <2>1. DOMAIN op = OpFields /\ op.at = "listDone"
    BY DoneFacts, OpForms
  <2>2. Wait(h, op)
    BY <1>10
  <2> HIDE DEF op
  <2> QED
    BY <1>3, <1>4, <1>5, <1>7, <1>10, <2>1, <2>2, DoneFacts, CountsDone
<1> QED
  BY <1>6, <1>8, <1>9, <1>10

(* The batch is listed: all of it has succeeded before its details are asked. *)
LEMMA AllDoneIsDone ==
  ASSUME DoneInv, Calm, NEW h \in Slots, NEW answer, ops[h].at = "listDone", AllDone(h, answer)
  PROVE  \A j \in Range(ops[h].ids) : Done(j)
<1>1. AppDone /\ OpDone(ops[h]) /\ ops[h].ids = app.batch /\ app.batch \in Seq(Jobs)
  BY DEF DoneInv, DoneShape, OpDone, Counting
<1>2. \A j \in Range(app.batch) : j \in Jobs /\ j # NoJob
  <2>1. \A i \in DOMAIN app.batch : app.batch[i] \in Jobs
    BY <1>1, ElementOfSeq
  <2> QED
    BY <2>1 DEF Range, Jobs, NoJob
<1>3. CASE Range(ops[h].ids) \subseteq app.completed
  BY <1>1, <1>3 DEF AppDone
<1>4. CASE /\ Listed(h, answer) = Range(ops[h].ids)
           /\ \A k \in Listed(h, answer) : Heard(h, k, "succeeded") = "succeeded"
  <2>1. ASSUME NEW j \in Range(ops[h].ids) PROVE Done(j)
    <3>1. j \in Jobs /\ j # NoJob /\ Heard(h, j, "succeeded") = "succeeded"
      BY <1>1, <1>2, <1>4, <2>1
    <3>2. CASE j = ops[h].job
      BY <1>1, <3>1, <3>2 DEF OpDone
    <3>3. CASE j # ops[h].job
      BY <3>1, <3>3 DEF Heard, Report, ReportAs, Calm, Done, Past
    <3> QED
      BY <3>2, <3>3
  <2> QED
    BY <2>1
<1> QED
  BY <1>3, <1>4 DEF AllDone

LEMMA JobsListedDone ==
  ASSUME StreamInv, DoneInv, NEW h \in Slots, JobsListed(h)
  PROVE  DoneInv'
<1>1. PICK answer : /\ ListedAfterSuccess(h, answer) \/ ListedAfterFailure(h, answer)
                    /\ astray' = (astray \/ answer # Known)
  BY DEF JobsListed
<1>2. UNCHANGED clientVars /\ UNCHANGED streams
  BY DEF JobsListed, clientVars
<1>3. \/ GoOn(h, answer)
      \/ /\ ops[h].at = "listDone" /\ AllDone(h, answer)
         /\ Wait(h, [ops[h] EXCEPT !.at = "details"]) /\ UNCHANGED app
      \/ Over(h) /\ (app' = app \/ \E s \in {"queue-failed", "main-generating"} : app' = Show(app, s))
  BY <1>1 DEF ListedAfterSuccess, ListedAfterFailure
<1>4. (~overlap' => ~overlap) => Grows
  BY <1>1, <1>2, DoneFacts, GrowsBy DEF clientVars
<1>5. CASE GoOn(h, answer)
  <2>1. PICK k : Wait(h, [ops[h] EXCEPT !.at = "next", !.job = k]) /\ UNCHANGED app
    BY <1>5 DEF GoOn
  <2> DEFINE op == [ops[h] EXCEPT !.at = "next", !.job = k]
  <2>2. op.at = "next"
    BY DoneFacts, OpForms
  <2>3. Wait(h, op) /\ app' = app
    BY <2>1
  <2> HIDE DEF op
  <2>4. OpsMild(h)
    BY <2>2, <2>3 DEF OpsMild, Mild, Counting
  <2>5. AppMild
    BY <2>3, DoneFacts DEF AppMild
  <2> QED
    BY <1>2, <1>4, <2>3, <2>4, <2>5, DoneFacts, Monotone, MildKeeps
<1>6. CASE /\ ops[h].at = "listDone" /\ AllDone(h, answer)
           /\ Wait(h, [ops[h] EXCEPT !.at = "details"]) /\ UNCHANGED app
  <2> DEFINE op == [ops[h] EXCEPT !.at = "details"]
  <2>1. DOMAIN op = OpFields /\ op.at = "details" /\ op.ids = ops[h].ids
    BY DoneFacts DEF OpFields
  <2>2. Wait(h, op) /\ app' = app
    BY <1>6
  <2> HIDE DEF op
  <2>3. Grows
    BY <1>4, <2>2, Monotone
  <2>4. ASSUME Calm PROVE AppDone' /\ OpDone(ops[h])'
    <3>1. AppDone /\ OpDone(ops[h]) /\ ops[h].ids = app.batch
      BY <1>6, <2>4 DEF DoneInv, OpDone, Counting
    <3>2. \A j : Done(j) => Done(j)'
      BY <2>3, <2>4 DEF Grows, Calm
    <3>3. \A j \in Range(op.ids) : Done(j)
      BY <1>6, <2>1, <2>4, AllDoneIsDone
    <3>4. AppDone'
      BY <2>2, <3>1, <3>2 DEF AppDone, Single
    <3>5. ops'[h] = op
      BY <2>1, <2>2, DoneFacts, WaitSlots
    <3> QED
      BY <2>1, <2>2, <3>1, <3>2, <3>3, <3>4, <3>5 DEF OpDone
  <2>5. app'.batch \in Seq(Jobs)
    BY <2>2 DEF DoneInv, DoneShape
  <2> QED
    BY <1>2, <2>1, <2>2, <2>3, <2>4, <2>5, DoneFacts, CountsDone
<1>7. CASE Over(h) /\ (app' = app \/ \E s \in {"queue-failed", "main-generating"} : app' = Show(app, s))
  <2>1. AppMild
    BY <1>7, DoneFacts DEF AppMild, MildTo, Show, AppFields
  <2> QED
    BY <1>2, <1>4, <1>7, <2>1, DoneFacts, Monotone, MildKeeps DEF OpsMild
<1> QED
  BY <1>3, <1>5, <1>6, <1>7

(* The result is shown.                                                       *)
LEMMA DetailsDone ==
  ASSUME StreamInv, DoneInv, NEW h \in Slots, DetailsLoaded(h)
  PROVE  DoneInv'
<1> DEFINE a == [app EXCEPT !.completed = Listed(h, Known)]
<1>1. PICK b : app' = Show(b, "main-done") /\ (b = a \/ \E j, st : b = Card(a, j, st))
  BY DEF DetailsLoaded
<1>2. /\ DOMAIN a = AppFields /\ a.batch = app.batch /\ a.completed = Listed(h, Known)
      /\ a.screen = app.screen /\ a.background = app.background
  BY DoneFacts DEF AppFields
<1> HIDE DEF a
<1>3. /\ DOMAIN b = AppFields /\ b.batch = app.batch /\ b.completed = Listed(h, Known)
      /\ b.screen = app.screen /\ b.background = app.background
  BY <1>1, <1>2 DEF Card, AppFields
<1>4. /\ app'.batch = app.batch /\ app'.completed = Listed(h, Known) /\ app'.background = app.background
      /\ app.background => app'.screen = app.screen
  BY <1>1, <1>3 DEF Show, AppFields
<1>5. h \in Waiting /\ Over(h) /\ ops[h].at = "details" /\ UNCHANGED <<backend, present, status, astray, streams>>
  BY DEF DetailsLoaded, Waiting, clientVars
<1>6. Grows
  BY <1>5, DoneFacts, Monotone, GrowsBy
<1>7. ASSUME Calm PROVE AppDone'
  <2>1. AppDone /\ OpDone(ops[h]) /\ \A j : Done(j) => Done(j)'
    BY <1>6, <1>7 DEF DoneInv, Grows, Calm
  <2>2. ops[h].ids = app.batch /\ \A j \in Range(app.batch) : Done(j)
    BY <1>5, <2>1 DEF OpDone, Counting
  <2>3. \A j \in Listed(h, Known) : Done(j)
    BY <2>2 DEF Listed
  <2> QED
    BY <1>4, <2>1, <2>2, <2>3 DEF AppDone
<1> QED
  BY <1>4, <1>5, <1>6, <1>7, DoneFacts, BeginsDone DEF DoneInv, DoneShape

LEMMA CancelAllDone ==
  ASSUME StreamInv, DoneInv, NEW h \in Slots, CancelAll(h)
  PROVE  DoneInv'
<1> DEFINE a == [Card(app, NoJob, "none") EXCEPT !.batch = <<>>]
           op == [IdleOp EXCEPT !.at = "cancelAll", !.job = NoJob, !.ids = <<app.job>>]
<1>1. /\ DOMAIN a = AppFields /\ a.batch = <<>> /\ a.completed = app.completed
      /\ a.screen = "main-generating"
  BY DoneFacts DEF CancelAll, Card, AppFields
<1>2. DOMAIN op = OpFields /\ op.at = "cancelAll"
  BY OpForms, IdleForm
<1>3. Unsubscribe(a) /\ Wait(h, op) /\ UNCHANGED <<backend, status, present, astray>>
  BY DEF CancelAll, Ask
<1> HIDE DEF a, op
<1>4. app' = [a EXCEPT !.unsub = NoStream] /\ streams' = Unsubscribed(app.unsub)
  BY <1>3 DEF Unsubscribe
<1>5. app'.batch = <<>> /\ app'.completed = app.completed /\ app'.screen = "main-generating"
  BY <1>1, <1>4 DEF AppFields
<1>6. Grows
  BY <1>3, DoneFacts, Monotone, GrowsBy
<1>7. JobsOf(streams') /\ <<>> \in Seq(Jobs)
  BY <1>4, DoneFacts, StreamJobs
<1>8. ASSUME Calm PROVE AppDone' /\ OpDone(ops[h])'
  <2>1. AppDone /\ \A j : Done(j) => Done(j)'
    BY <1>6, <1>8 DEF DoneInv, Grows, Calm
  <2>2. ops'[h] = op
    BY <1>2, <1>3, DoneFacts, WaitSlots
  <2> QED
    BY <1>2, <1>5, <2>1, <2>2 DEF AppDone, OpDone, Counting
<1> QED
  BY <1>2, <1>3, <1>5, <1>6, <1>7, <1>8, CountsDone

(* The end of the job of a stream: while the functions come one at a time, it *)
(* is the job of the card, and no other one counts.                           *)
LEMMA EndedJob ==
  ASSUME StreamInv, DoneInv, Calm, NEW s \in Streams, CanEnd(s, "succeeded"), app.job # NoJob
  PROVE  Done(app.job)
<1>1. streams[s] # Closed /\ status[streams[s].job] = "succeeded"
  BY DEF CanEnd, Closed, Calm
<1>2. app.job = streams[s].job
  BY <1>1 DEF StreamInv, Listens, Calm
<1> QED
  BY <1>1, <1>2 DEF DoneInv, DoneShape, JobsOf, Done, Past

LEMMA EndedDone ==
  ASSUME StreamInv, DoneInv, NEW h \in Slots, NEW s \in Streams, NEW end, Ended(h, s, end)
  PROVE  DoneInv'
<1> DEFINE a == [app EXCEPT !.unsub = NoStream,
                   !.shown = IF app.job = NoJob THEN @ ELSE end,
                   !.completed = IF end = "succeeded" THEN @ \cup ({app.job} \ {NoJob}) ELSE @]
<1>1. /\ DOMAIN a = AppFields /\ a.batch = app.batch /\ a.screen = app.screen
      /\ a.background = app.background
      /\ a.completed = IF end = "succeeded" THEN app.completed \cup ({app.job} \ {NoJob}) ELSE app.completed
  BY DoneFacts DEF AppFields
<1>2. /\ CanEnd(s, end) /\ ops[h].at = "idle"
      /\ \/ end = "succeeded" /\ Succeeded(h, a, app.job)
         \/ end # "succeeded" /\ Broken(h, a, app.job, end)
  BY DEF Ended, FreeSlot, Waiting
<1>3. UNCHANGED <<backend, present, astray>> /\ status' = Applied(streams[s].job, end)
      /\ streams' = [Unsubscribed(app.unsub) EXCEPT ![s] = Closed]
  BY DEF Ended
<1> HIDE DEF a
<1>4. \/ \E at \in {"burn", "listDone", "list"} :
           Follow(h, at, app.job) /\ app' = a /\ (at = "listDone" => end = "succeeded")
      \/ Over(h) /\ Single /\ app' = Show(a, "main-done")
      \/ Over(h) /\ \E x \in {"queue-detail", "queue-failed", "main-conflict"} : app' = Show(a, x)
  BY <1>2 DEF Succeeded, Broken
<1>5. JobsOf(streams')
  <2>1. JobsOf(Unsubscribed(app.unsub)) /\ StreamShape(Unsubscribed(app.unsub))
    BY DoneFacts, StreamJobs
  <2> QED
    BY <1>3, <2>1 DEF JobsOf, StreamShape
<1>6. UNCHANGED status \/ \E j, x : Mock /\ status' = [status EXCEPT ![j] = x]
  BY <1>3 DEF Applied
<1>7. (~overlap' => ~overlap) => Grows
  BY <1>3, <1>6, DoneFacts, GrowsBy
<1>8. ASSUME Calm, Grows PROVE \A j \in a.completed : Done(j)'
  <2>1. AppDone /\ \A j : Done(j) => Done(j)'
    BY <1>8 DEF DoneInv, Grows, Calm
  <2>2. end = "succeeded" /\ app.job # NoJob => Done(app.job)
    BY <1>2, <1>8, EndedJob
  <2> QED
    BY <1>1, <2>1, <2>2 DEF AppDone
<1>9. CASE \E at \in {"burn", "listDone", "list"} :
             Follow(h, at, app.job) /\ app' = a /\ (at = "listDone" => end = "succeeded")
  <2>1. PICK at \in {"burn", "listDone", "list"} :
          Follow(h, at, app.job) /\ app' = a /\ (at = "listDone" => end = "succeeded")
    BY <1>9
  <2> DEFINE op == [IdleOp EXCEPT !.at = at, !.job = app.job, !.ids = app.batch]
  <2>2. DOMAIN op = OpFields /\ op.at = at /\ op.job = app.job /\ op.ids = app.batch
    BY OpForms, IdleForm
  <2>3. Wait(h, op) /\ app' = a
    BY <2>1 DEF Follow
  <2> HIDE DEF op
  <2>4. Grows
    BY <1>7, <2>3, Monotone
  <2>5. ops'[h] = op
    BY <2>2, <2>3, DoneFacts, WaitSlots
  <2>6. ASSUME Calm PROVE AppDone' /\ OpDone(ops[h])'
    <3>1. AppDone /\ \A j : Done(j) => Done(j)'
      BY <2>4, <2>6 DEF DoneInv, Grows, Calm
    <3>2. end = "succeeded" /\ app.job # NoJob => Done(app.job)
      BY <1>2, <2>6, EndedJob
    <3>3. AppDone'
      BY <1>1, <1>8, <2>3, <2>4, <2>6, <3>1 DEF AppDone, Single
    <3>4. OpDone(ops[h])'
      BY <1>1, <2>1, <2>2, <2>3, <2>5, <3>1, <3>2 DEF OpDone
    <3> QED
      BY <3>3, <3>4
  <2>7. app'.batch \in Seq(Jobs) /\ op.at # "create"
    BY <1>1, <2>1, <2>2, <2>3 DEF DoneInv, DoneShape
  <2> QED
    BY <1>5, <2>2, <2>3, <2>4, <2>6, <2>7, CountsDone
<1>10. CASE /\ Over(h)
            /\ \/ Single /\ app' = Show(a, "main-done")
               \/ \E x \in {"queue-detail", "queue-failed", "main-conflict"} : app' = Show(a, x)
  <2>1. Grows
    BY <1>7, <1>10, Monotone
  <2>2. /\ ops'[h].at = "idle" /\ \A g \in Slots \ {h} : ops'[g] = ops[g]
    BY <1>10, DoneFacts, OverSlots
  <2>3. /\ app'.batch = app.batch /\ app'.completed = a.completed /\ app'.background = app.background
        /\ app'.screen = "main-done" => (~app.background /\ Single) \/ app.screen = "main-done"
    BY <1>1, <1>10 DEF Show, AppFields
  <2>4. ASSUME NEW g \in Slots PROVE IdsTyped(ops[g])'
    BY <2>2 DEF DoneInv, DoneShape, IdsTyped
  <2>5. DoneShape'
    BY <1>5, <2>1, <2>3, <2>4 DEF DoneInv, DoneShape, Grows, JobsOf
  <2> SUFFICES ASSUME Calm' PROVE AppDone' /\ \A g \in Slots : OpDone(ops[g])'
    BY <2>5 DEF DoneInv
  <2>6. Calm /\ AppDone /\ \A j : Done(j) => Done(j)'
    BY <2>1, CalmBefore DEF DoneInv
  <2>7. AppDone'
    BY <1>8, <2>1, <2>3, <2>6 DEF AppDone, Single
  <2>8. ASSUME NEW g \in Slots PROVE ops'[g].at \notin Counting
    <3>1. streams[s] # Closed /\ Quiet
      BY <1>2, <2>6 DEF CanEnd, Closed, Calm, StreamInv
    <3>2. ops[g].at \notin QuietAt
      BY <3>1 DEF Quiet, Silent
    <3> QED
      BY <2>2, <3>2 DEF QuietAt, Counting
  <2> QED
    BY <2>7, <2>8 DEF OpDone, Counting
<1> QED
  BY <1>4, <1>9, <1>10

LEMMA DoneInvInit == AppJobsInit => DoneInv
<1> SUFFICES ASSUME AppJobsInit PROVE DoneInv
  OBVIOUS
<1>1. /\ app.batch = <<>> /\ app.completed = {} /\ app.screen = "main-files"
      /\ DOMAIN status = Jobs /\ \A s \in Streams : streams[s] = Closed
      /\ \A h \in Slots : ops[h] = IdleOp
  BY DEF AppJobsInit, ClientInit
<1>2. \A h \in Slots : ops[h].at = "idle"
  BY <1>1, IdleForm
<1>3. <<>> \in Seq(Jobs)
  OBVIOUS
<1> QED
  BY <1>1, <1>2, <1>3 DEF DoneInv, DoneShape, JobsOf, IdsTyped, AppDone, OpDone, Counting

LEMMA DoneInvNext == StreamInv /\ DoneInv /\ [JobsNext]_jobVars => DoneInv'
<1> SUFFICES ASSUME StreamInv, DoneInv, [JobsNext]_jobVars PROVE DoneInv'
  OBVIOUS
<1>1. CASE JobsNext
  <2>1. ASSUME NEW h \in Slots, Continues(h) \/ FFmpegInstalled(h) \/ RequestFails(h) \/ Clicked(h)
        PROVE  DoneInv'
    <3>1. CASE \/ LabelsSaved(h) \/ LookedAtFFmpeg(h) \/ ConflictResolved(h) \/ FFmpegInstalled(h)
               \/ \E n \in 1..2 : StartFiles(h, n)
               \/ \E type \in Kind \ {"transcribe"} : StartTool(h, type)
               \/ RetryJob(h) \/ ResolveConflict(h) \/ ConfirmRemote(h) \/ InstallFFmpeg(h)
      BY <3>1, ShapeOfApp, StartsLaunch, LaunchDone
    <3> QED
      BY <2>1, <3>1, JobMadeDone, BurnMadeDone, JobsListedDone, DetailsDone, FollowsDone, AnswersDone,
         ClicksDone, CancelAllDone, Zenon DEF Continues, Clicked
  <2>2. ASSUME NEW s \in Streams, Delivered(s) \/ StreamLost(s) PROVE DoneInv'
    BY <2>2, ToldDone, EndedDone, Zenon DEF Delivered
  <2> QED
    BY <1>1, <2>1, <2>2, OthersDone, Zenon DEF JobsNext
<1> QED
  BY <1>1, OthersDone

(* The result is shown only of jobs that succeeded, and of a batch only when  *)
(* all of it did, for any number of jobs and clicks, while the functions come *)
(* one at a time and no request fails (AppShell.tsx:422, 440, 1624).          *)
THEOREM DoneIsDoneHolds == JobsSpec => []DoneIsDone
<1>1. StreamInv /\ DoneInv => DoneIsDone
  BY DEF DoneInv, AppDone, DoneIsDone, Calm, Done, Past
<1> QED
  BY <1>1, StreamInvInit, StreamInvNext, DoneInvInit, DoneInvNext, PTL DEF JobsSpec

-------------------------------------------------------------------------------

(* What may run.  A function that waits keeps the choice it has made: it was  *)
(* made of the lists and the settings, which no step takes away (Same).       *)
LEMMA IndexFound ==
  ASSUME NEW n \in Nat, NEW I \in SUBSET (1..n)
  PROVE  I # {} => Min(I) \in I
<1>0. I \subseteq Nat
  OBVIOUS
<1>1. I # {} => \E m \in I : \A k \in I : m <= k
  BY <1>0, LeastOf
<1> QED
  BY <1>1 DEF Min

LEMMA SelectedModelRuns ==
  ASSUME NEW S, NEW ms \in Seq(S), NEW id, NEW kd, NEW wanted,
         NEW m \in SelectReadyCompatibleModel(id, kd, wanted, ms)
  PROVE  m \in Range(ms) /\ m.state = "ready" /\ ModelCompatible(m, id)
<1> DEFINE Fits(x) == x.kind = kd /\ x.state = "ready" /\ ModelCompatible(x, id)
           Good(x) == x \in Range(ms) /\ x.state = "ready" /\ ModelCompatible(x, id)
           preferred == Find(ms, LAMBDA x : x.id = wanted /\ x.kind = kd)
           I0 == {i \in 1..Len(ms) : ms[i].id = wanted /\ ms[i].kind = kd}
           I1 == {i \in 1..Len(ms) : Fits(ms[i]) /\ ms[i].id = wanted}
           I2 == {i \in 1..Len(ms) : Fits(ms[i]) /\ ms[i].main}
           I3 == {i \in 1..Len(ms) : Fits(ms[i]) /\ id \in ms[i].defaultFor}
           I4 == {i \in 1..Len(ms) : Fits(ms[i])}
           AtMin(I) == IF I = {} THEN {} ELSE {ms[Min(I)]}
<1>1. Len(ms) \in Nat /\ DOMAIN ms = 1..Len(ms)
  OBVIOUS
<1>2. ASSUME NEW I \in SUBSET (1..Len(ms)), I # {} PROVE Min(I) \in I /\ Min(I) # 0
  <2>1. Min(I) \in I
    BY <1>1, <1>2, IndexFound
  <2> QED
    BY <1>1, <2>1
<1>3. preferred = AtMin(I0)
  BY <1>2 DEF Find, SelectInSeq
<1>4. Find(ms, LAMBDA x : Fits(x) /\ x.id = wanted) = AtMin(I1)
  BY <1>2 DEF Find, SelectInSeq
<1>5. Find(ms, LAMBDA x : Fits(x) /\ x.main) = AtMin(I2)
  BY <1>2 DEF Find, SelectInSeq
<1>6. Find(ms, LAMBDA x : Fits(x) /\ id \in x.defaultFor) = AtMin(I3)
  BY <1>2 DEF Find, SelectInSeq
<1>7. Find(ms, Fits) = AtMin(I4)
  BY <1>2 DEF Find, SelectInSeq
<1>8. \A I \in SUBSET I4 : \A x \in AtMin(I) : Good(x)
  BY <1>1, <1>2 DEF Range
<1>9. \A x \in AtMin(I0) : x \in Range(ms)
  BY <1>1, <1>2 DEF Range
<1>10. I1 \in SUBSET I4 /\ I2 \in SUBSET I4 /\ I3 \in SUBSET I4
  OBVIOUS
<1>11. \/ m \in {x \in preferred : x.state = "ready"} /\ \E x \in preferred : ModelCompatible(x, id)
       \/ m \in AtMin(I1) \/ m \in AtMin(I2) \/ m \in AtMin(I3) \/ m \in AtMin(I4)
  BY <1>4, <1>5, <1>6, <1>7 DEF SelectReadyCompatibleModel, OrElse
<1>12. CASE m \in preferred /\ m.state = "ready" /\ \E x \in preferred : ModelCompatible(x, id)
  <2> HIDE DEF preferred, I0
  <2>1. \A x \in preferred : x = m
    BY <1>3, <1>12
  <2> QED
    BY <1>3, <1>9, <1>12, <2>1
<1>13. CASE m \in AtMin(I1) \/ m \in AtMin(I2) \/ m \in AtMin(I3) \/ m \in AtMin(I4)
  <2> HIDE DEF I1, I2, I3, I4, AtMin
  <2>1. Good(m)
    BY <1>8, <1>10, <1>13
  <2> QED
    BY <2>1
<1> HIDE DEF I1, I2, I3, I4, AtMin
<1> QED
  BY <1>11, <1>12, <1>13

LEMMA OfferRuns ==
  ASSUME NEW S, NEW ps \in Seq(S), NEW T, NEW ms \in Seq(T), NEW id, NEW capability, NEW asked, NEW modelId,
         NEW sel \in Offer(id, capability, asked, modelId, ps, ms)
  PROVE  \E p \in Range(ps) :
           /\ p.id = sel.provider /\ ProviderCanRun(p)
           /\ (~Remote(p) /\ p.needsModel) =>
                \E m \in Range(ms) : m.id = sel.model /\ m.state = "ready" /\ ModelCompatible(m, p.id)
<1> DEFINE I == {i \in 1..Len(ps) : ps[i].id = id /\ ps[i].capability = capability}
           found == Find(ps, LAMBDA q : q.id = id /\ q.capability = capability)
<1>1. Len(ps) \in Nat /\ DOMAIN ps = 1..Len(ps)
  OBVIOUS
<1>2. I # {} => Min(I) \in I /\ Min(I) # 0
  <2>1. I # {} => Min(I) \in I
    BY <1>1, IndexFound
  <2> QED
    BY <1>1, <2>1
<1>3. found = IF I = {} THEN {} ELSE {ps[Min(I)]}
  BY <1>1, <1>2 DEF Find, SelectInSeq
<1>4. \A q \in found : q \in Range(ps) /\ q.id = id
  <2> HIDE DEF found
  <2> QED
    BY <1>1, <1>2, <1>3 DEF Range
<1>5. PICK p \in found :
        /\ ProviderCanRun(p)
        /\ \/ (Remote(p) \/ ~p.needsModel) /\ sel = [provider |-> id, model |-> modelId]
           \/ \E m \in SelectReadyCompatibleModel(id, ModelKind[capability], modelId, ms) :
                sel = [provider |-> id, model |-> m.id]
  BY DEF Offer
<1> HIDE DEF found
<1>6. p \in Range(ps) /\ p.id = id
  BY <1>4
<1>7. CASE (Remote(p) \/ ~p.needsModel) /\ sel = [provider |-> id, model |-> modelId]
  BY <1>5, <1>6, <1>7
<1>8. CASE \E m \in SelectReadyCompatibleModel(id, ModelKind[capability], modelId, ms) :
             sel = [provider |-> id, model |-> m.id]
  <2>1. PICK m \in SelectReadyCompatibleModel(id, ModelKind[capability], modelId, ms) :
          sel = [provider |-> id, model |-> m.id]
    BY <1>8
  <2>2. m \in Range(ms) /\ m.state = "ready" /\ ModelCompatible(m, id)
    BY <2>1, SelectedModelRuns
  <2> QED
    BY <1>5, <1>6, <2>1, <2>2
<1> QED
  BY <1>5, <1>7, <1>8

LEMMA TranslatorListed ==
  ASSUME NEW S, NEW ps \in Seq(S), NEW cfg, NEW p \in TranslationProvider(cfg, ps)
  PROVE  p \in Range(ps) /\ p.id = cfg.tr
<1> DEFINE I == {i \in 1..Len(ps) : ps[i].id = cfg.tr /\ ps[i].capability = "translation"}
<1>1. Len(ps) \in Nat /\ DOMAIN ps = 1..Len(ps)
  OBVIOUS
<1>2. I # {} => Min(I) \in I
  BY <1>1, IndexFound
<1>3. TranslationProvider(cfg, ps) = IF I = {} THEN {} ELSE {ps[Min(I)]}
  BY <1>1, <1>2 DEF TranslationProvider, Find, SelectInSeq
<1> QED
  BY <1>1, <1>2, <1>3 DEF Range

RunFields == {"type", "n", "resolved", "asr", "model", "confirmed", "named", "agreed"}
Runnable == TranslationProviderRunnable(config, providers)

(* The pair that a call goes by is one of Selection; a tool has none.         *)
Chosen(run, sel) == run.type = "transcribe" => sel \in Selection(run)

(* A call may say that it is confirmed only when the user has agreed to the   *)
(* upload that the dialog named, and that upload is one of the pair that the  *)
(* call finds when it begins anew.                                            *)
RunOK(run) ==
  /\ DOMAIN run = RunFields
  /\ run.confirmed => run.named # "none" /\ run.agreed = {run.named}
  /\ run.named # "none" => \A sel : Chosen(run, sel) => run.named = Names(run, sel)
  /\ run.type = "translate_srt" => Runnable
DialogsOK(a) ==
  /\ \A run \in a.remote : RunOK(run) /\ run.named # "none"
  /\ \A run \in a.gate : RunOK(run)
SelOK(sel) ==
  \E p \in Range(providers) :
    /\ p.id = sel.provider /\ ProviderCanRun(p)
    /\ (~Remote(p) /\ p.needsModel) =>
         \E m \in Range(models) : m.id = sel.model /\ m.state = "ready" /\ ModelCompatible(m, p.id)
PairOK(run, sel) ==
  /\ Chosen(run, sel)
  /\ run.type = "transcribe" /\ OutputTypeNeedsTranslation(config) => Runnable
AskedOK(run, sel) ==
  /\ AudioLeaves(run, sel) => "audio" \in run.agreed
  /\ TextLeaves(run) => "text" \in run.agreed \/ AudioLeaves(run, sel)

OpOK(op) ==
  /\ RunOK(op.run)
  /\ op.at = "labels" => op.sel \in Selection(op.run)
  /\ op.at \in {"ffmpeg", "create"} => PairOK(op.run, op.sel)
  /\ op.at = "create" => AskedOK(op.run, op.sel)

AllowedInv ==
  /\ ListsOK
  /\ \A h \in Slots : OpOK(ops[h])
  /\ DialogsOK(app)

(* The choice is one of one provider: two pairs of it have the same.          *)
LEMMA OneSelection ==
  ASSUME NEW run, NEW s1 \in Selection(run), NEW s2 \in Selection(run)
  PROVE  s1.provider = s2.provider
<1> DEFINE found == Find(<<run.asr, LocalDefault["stt"]>>
                            \o Ids(SelectSeq(providers, LAMBDA p : p.capability = "stt" /\ ~Remote(p))),
                         LAMBDA id : Offer(id, "stt", run.asr, run.model, providers, models) # {})
           Of(id) == Offer(id, "stt", run.asr, run.model, providers, models)
<1>1. \A x, y \in found : x = y
  BY DEF Find
<1>2. Selection(run) = UNION {Of(id) : id \in found}
  BY DEF Selection, ResolveReadyProviderModel
<1>3. ASSUME NEW id, NEW s \in Of(id) PROVE s.provider = id
  <2>1. \E m : s = [provider |-> id, model |-> m]
    BY <1>3, Zenon DEF Offer
  <2> QED
    BY <2>1
<1> HIDE DEF found, Of
<1>4. PICK x \in found : s1 \in Of(x)
  BY <1>2
<1>5. PICK y \in found : s2 \in Of(y)
  BY <1>2
<1> QED
  BY <1>1, <1>3, <1>4, <1>5

LEMMA OneNamed ==
  ASSUME NEW run, NEW sel, NEW other, Chosen(run, sel), Chosen(run, other)
  PROVE  Names(run, sel) = Names(run, other)
<1>1. CASE run.type = "transcribe"
  <2>1. sel.provider = other.provider
    BY <1>1, OneSelection DEF Chosen
  <2> QED
    BY <2>1 DEF Names, AudioLeaves
<1>2. CASE run.type # "transcribe"
  BY <1>2 DEF Names, AudioLeaves
<1> QED
  BY <1>1, <1>2

LEMMA SelectionRuns ==
  ASSUME ListsOK, NEW run, NEW sel \in Selection(run)
  PROVE  SelOK(sel)
<1>1. PICK id : sel \in Offer(id, "stt", run.asr, run.model, providers, models)
  BY Zenon DEF Selection, ResolveReadyProviderModel
<1> QED
  BY <1>1, OfferRuns DEF ListsOK, SelOK

LEMMA ReadyIsRunnable ==
  TranslationOutputReady(config, providers, models) => Runnable
BY DEF TranslationOutputReady, Runnable, TranslationProviderRunnable

(* A job that is about to be made is allowed.                                 *)
LEMMA AllowedRuns ==
  ASSUME AllowedInv, NEW h \in Slots, ops[h].at = "create"
  PROVE  RunsAllowed(ops[h].run, ops[h].sel)
<1> DEFINE run == ops[h].run
           sel == ops[h].sel
<1>1. RunOK(run) /\ PairOK(run, sel) /\ AskedOK(run, sel) /\ ListsOK
  BY DEF AllowedInv, OpOK
<1> HIDE DEF run, sel
<1>2. run.confirmed => run.agreed # {}
  BY <1>1 DEF RunOK
<1>3. ASSUME run.type = "transcribe"
      PROVE  \E p \in Range(providers) :
               /\ p.id = sel.provider /\ ProviderCanRun(p)
               /\ Remote(p) => "audio" \in run.agreed
               /\ (~Remote(p) /\ p.needsModel) =>
                    \E m \in Range(models) :
                      m.id = sel.model /\ m.state = "ready" /\ ModelCompatible(m, p.id)
  <2>1. PICK p \in Range(providers) :
          /\ p.id = sel.provider /\ ProviderCanRun(p)
          /\ (~Remote(p) /\ p.needsModel) =>
               \E m \in Range(models) : m.id = sel.model /\ m.state = "ready" /\ ModelCompatible(m, p.id)
    BY <1>1, <1>3, SelectionRuns DEF PairOK, Chosen, SelOK
  <2>2. Remote(p) => "audio" \in run.agreed
    BY <1>1, <1>3, <2>1 DEF ListsOK, AskedOK, AudioLeaves, NeedsConfirmation
  <2> QED
    BY <2>1, <2>2
<1>4. ASSUME run.type = "translate_srt" \/ (run.type = "transcribe" /\ OutputTypeNeedsTranslation(config))
      PROVE  \E p \in TranslationProvider(config, providers) :
               ProviderCanRun(p) /\ (Remote(p) => "text" \in run.agreed \/ AudioLeaves(run, sel))
  <2>1. PICK p \in TranslationProvider(config, providers) : ProviderCanRun(p)
    BY <1>1, <1>4 DEF RunOK, PairOK, Runnable, TranslationProviderRunnable
  <2>2. p \in Range(providers) /\ p.id = config.tr
    BY <1>1, <2>1, TranslatorListed DEF ListsOK
  <2>3. Remote(p) => "text" \in run.agreed \/ AudioLeaves(run, sel)
    BY <1>1, <1>4, <2>2 DEF ListsOK, AskedOK, TextLeaves, NeedsConfirmation
  <2> QED
    BY <2>1, <2>3
<1>5. RunsAllowed(run, sel)
  BY <1>2, <1>3, <1>4 DEF RunsAllowed
<1> QED
  BY <1>5 DEF run, sel

(* What a start may leave waiting.                                            *)
Begun(h, a) ==
  /\ Over(h) \/ \E op : Wait(h, op) /\ DOMAIN op = OpFields /\ OpOK(op)
  /\ \A run \in app'.remote : run \in a.remote \/ (RunOK(run) /\ run.named # "none")
  /\ app'.gate = a.gate

LEMMA BegunWaits ==
  ASSUME NEW h, NEW a, NEW op, Wait(h, op), DOMAIN op = OpFields, OpOK(op), app' = a
  PROVE  Begun(h, a)
<1>1. \E o : Wait(h, o) /\ DOMAIN o = OpFields /\ OpOK(o)
  BY Zenon
<1> QED
  BY <1>1 DEF Begun

LEMMA OpRecordRun ==
  ASSUME NEW at, NEW run, NEW sel
  PROVE  /\ [IdleOp EXCEPT !.at = at, !.run = run, !.sel = sel].run = run
         /\ [IdleOp EXCEPT !.at = at, !.run = run, !.sel = sel].sel = sel
         /\ [IdleOp EXCEPT !.at = at, !.run = run].run = run
BY DEF IdleOp

(* The run that the dialog keeps.                                             *)
LEMMA AskedRun ==
  ASSUME NEW run, RunOK(run), ~run.confirmed, NEW sel, Chosen(run, sel)
  PROVE  /\ RunOK([run EXCEPT !.named = Names(run, sel)])
         /\ [run EXCEPT !.named = Names(run, sel)].named # "none"
<1> DEFINE r == [run EXCEPT !.named = Names(run, sel)]
<1>1. /\ DOMAIN r = RunFields /\ r.named = Names(run, sel)
      /\ r.type = run.type /\ r.asr = run.asr /\ r.model = run.model /\ r.confirmed = run.confirmed
  BY DEF RunOK, RunFields
<1>2. Names(run, sel) # "none"
  BY DEF Names
<1> HIDE DEF r
<1>3. Selection(r) = Selection(run)
  BY <1>1 DEF Selection
<1>4. ASSUME NEW s, Chosen(r, s) PROVE r.named = Names(r, s)
  <2>1. Chosen(run, s)
    BY <1>1, <1>3, <1>4 DEF Chosen
  <2>2. Names(r, s) = Names(run, s)
    BY <1>1 DEF Names, AudioLeaves
  <2> QED
    BY <1>1, <2>1, <2>2, OneNamed
<1>5. RunOK(r)
  BY <1>1, <1>4 DEF RunOK
<1> QED
  BY <1>1, <1>2, <1>5 DEF r

LEMMA AskOrCreateBegins ==
  ASSUME NEW h, NEW run, NEW sel, NEW a, DOMAIN a = AppFields, AskOrCreate(h, run, sel, a),
         RunOK(run), PairOK(run, sel)
  PROVE  Begun(h, a)
<1>1. CASE MustAsk(run, sel) /\ ~run.confirmed
  <2> DEFINE r == [run EXCEPT !.named = Names(run, sel)]
  <2>1. Over(h) /\ app' = [a EXCEPT !.remote = {r}]
    BY <1>1 DEF AskOrCreate
  <2>2. RunOK(r) /\ r.named # "none"
    BY <1>1, AskedRun DEF PairOK
  <2> HIDE DEF r
  <2>3. app'.remote = {r} /\ app'.gate = a.gate
    BY <2>1 DEF AppFields
  <2> QED
    BY <2>1, <2>2, <2>3 DEF Begun
<1>2. CASE ~(MustAsk(run, sel) /\ ~run.confirmed)
  <2> DEFINE op == [IdleOp EXCEPT !.at = "create", !.run = run, !.sel = sel]
  <2>1. DOMAIN op = OpFields /\ op.at = "create" /\ op.run = run /\ op.sel = sel
    BY OpRecord, OpRecordRun
  <2>2. Wait(h, op) /\ app' = a
    BY <1>2 DEF AskOrCreate
  <2> HIDE DEF op
  <2>3. AskedOK(run, sel)
    <3>1. MustAsk(run, sel) => run.named = Names(run, sel) /\ run.agreed = {run.named}
      BY <1>2 DEF RunOK, PairOK
    <3> QED
      BY <3>1 DEF AskedOK, MustAsk, Names
  <2>4. OpOK(op)
    BY <2>1, <2>3 DEF OpOK
  <2> QED
    BY <2>1, <2>2, <2>4, BegunWaits
<1> QED
  BY <1>1, <1>2

LEMMA AfterLabelsBegins ==
  ASSUME NEW h, NEW run, NEW sel, NEW a, DOMAIN a = AppFields, AfterLabels(h, run, sel, a),
         RunOK(run), sel \in Selection(run)
  PROVE  Begun(h, a)
<1>1. CASE \E s : Over(h) /\ app' = [a EXCEPT !.screen = s]
  BY <1>1 DEF Begun, AppFields
<1>2. CASE /\ Wait(h, [IdleOp EXCEPT !.at = "ffmpeg", !.run = run, !.sel = sel]) /\ app' = a
           /\ OutputTypeNeedsTranslation(config) => TranslationOutputReady(config, providers, models)
  <2> DEFINE op == [IdleOp EXCEPT !.at = "ffmpeg", !.run = run, !.sel = sel]
  <2>1. DOMAIN op = OpFields /\ op.at = "ffmpeg" /\ op.run = run /\ op.sel = sel
    BY OpRecord, OpRecordRun
  <2>2. Wait(h, op) /\ app' = a
    BY <1>2
  <2> HIDE DEF op
  <2>3. OpOK(op)
    BY <1>2, <2>1, ReadyIsRunnable DEF OpOK, PairOK, Chosen
  <2> QED
    BY <2>1, <2>2, <2>3, BegunWaits
<1> QED
  BY <1>1, <1>2 DEF AfterLabels

LEMMA StartJobBegins ==
  ASSUME NEW h, NEW run, NEW a, DOMAIN a = AppFields, StartJob(h, run, a), RunOK(run), ListsOK
  PROVE  Begun(h, a)
<1>1. CASE Over(h) /\ app' = [a EXCEPT !.screen = "main-missing"]
  BY <1>1 DEF Begun, AppFields
<1>2. CASE \E sel \in Selection(run) : AfterLabels(h, run, sel, a)
  BY <1>2, AfterLabelsBegins
<1>3. CASE \E sel \in Selection(run) :
             Wait(h, [IdleOp EXCEPT !.at = "labels", !.run = run, !.sel = sel]) /\ app' = a
  <2>1. PICK sel \in Selection(run) :
          Wait(h, [IdleOp EXCEPT !.at = "labels", !.run = run, !.sel = sel]) /\ app' = a
    BY <1>3
  <2> DEFINE op == [IdleOp EXCEPT !.at = "labels", !.run = run, !.sel = sel]
  <2>2. DOMAIN op = OpFields /\ op.at = "labels" /\ op.run = run /\ op.sel = sel
    BY OpRecord, OpRecordRun
  <2>3. Wait(h, op) /\ app' = a
    BY <2>1
  <2> HIDE DEF op
  <2>4. OpOK(op)
    BY <2>1, <2>2 DEF OpOK
  <2> QED
    BY <2>2, <2>3, <2>4, BegunWaits
<1> QED
  BY <1>1, <1>2, <1>3 DEF StartJob

LEMMA StartToolJobBegins ==
  ASSUME NEW h, NEW run, NEW a, DOMAIN a = AppFields, StartToolJob(h, run, a), RunOK(run),
         run.type # "transcribe"
  PROVE  Begun(h, a)
<1>1. CASE Wait(h, [IdleOp EXCEPT !.at = "ffmpeg", !.run = run]) /\ app' = a
  <2> DEFINE op == [IdleOp EXCEPT !.at = "ffmpeg", !.run = run]
  <2>1. DOMAIN op = OpFields /\ op.at = "ffmpeg" /\ op.run = run
    BY OpRecord, OpRecordRun
  <2>2. Wait(h, op) /\ app' = a
    BY <1>1
  <2> HIDE DEF op
  <2>3. OpOK(op)
    BY <2>1 DEF OpOK, PairOK, Chosen
  <2> QED
    BY <2>1, <2>2, <2>3, BegunWaits
<1>2. CASE AskOrCreate(h, run, NoSel, a)
  BY <1>2, AskOrCreateBegins DEF PairOK, Chosen
<1> QED
  BY <1>1, <1>2 DEF StartToolJob

LEMMA StartBegins ==
  ASSUME NEW h, NEW run, NEW a, DOMAIN a = AppFields, Start(h, run, a), RunOK(run), ListsOK
  PROVE  Begun(h, a)
BY StartJobBegins, StartToolJobBegins DEF Start

(* What a step leaves of what the choices are made by.                        *)
Same ==
  /\ UNCHANGED <<providers, models>>
  /\ {"tr", "output"} \subseteq DOMAIN config'
  /\ config'.tr = config.tr /\ config'.output = config.output

LEMMA SameRunnable ==
  ASSUME Same
  PROVE  Runnable' = Runnable
BY DEF Same, Runnable, TranslationProviderRunnable, TranslationProvider, Find, SelectInSeq

LEMMA SameChoices ==
  ASSUME Same, ListsOK
  PROVE  /\ ListsOK'
         /\ \A run : RunOK(run) => RunOK(run)'
         /\ \A op : OpOK(op) => OpOK(op)'
<1>1. Runnable' = Runnable
  BY SameRunnable
<1>2. ListsOK'
  BY DEF Same, ListsOK
<1>4. \A run : Selection(run)' = Selection(run)
  BY DEF Same, Selection
<1>5. \A run, sel : /\ AudioLeaves(run, sel)' = AudioLeaves(run, sel)
                    /\ TextLeaves(run)' = TextLeaves(run)
                    /\ Chosen(run, sel)' = Chosen(run, sel)
                    /\ Names(run, sel)' = Names(run, sel)
  BY <1>4 DEF Same, AudioLeaves, TextLeaves, OutputTypeNeedsTranslation, NeedsConfirmation, Chosen, Names
<1>3. \A run : RunOK(run) => RunOK(run)'
  BY <1>1, <1>5 DEF RunOK
<1>6. \A run, sel : PairOK(run, sel) => PairOK(run, sel)'
  BY <1>1, <1>5 DEF Same, PairOK, OutputTypeNeedsTranslation
<1>7. \A run, sel : AskedOK(run, sel) => AskedOK(run, sel)'
  BY <1>5 DEF AskedOK
<1>8. \A op : OpOK(op) => OpOK(op)'
  BY <1>3, <1>4, <1>6, <1>7 DEF OpOK
<1> QED
  BY <1>2, <1>3, <1>8

LEMMA IdleAllowed ==
  OpOK(IdleOp)
<1>1. /\ IdleOp.at = "idle" /\ IdleOp.run = NoRun
      /\ DOMAIN NoRun = RunFields /\ ~NoRun.confirmed /\ NoRun.type = "transcribe" /\ NoRun.named = "none"
  BY DEF IdleOp, NoRun, RunFields
<1> QED
  BY <1>1 DEF OpOK, RunOK

LEMMA AllowedStep ==
  ASSUME AllowedInv, OpsShape, Same, NEW h \in Slots,
         \/ UNCHANGED ops
         \/ Over(h)
         \/ \E op : Wait(h, op) /\ DOMAIN op = OpFields /\ OpOK(op),
         DialogsOK(app')
  PROVE  AllowedInv'
<1>1. /\ ListsOK'
      /\ \A run : RunOK(run) => RunOK(run)'
      /\ \A op : OpOK(op) => OpOK(op)'
  BY SameChoices DEF AllowedInv
<1>2. \A op : ops' = [ops EXCEPT ![h] = op] /\ OpOK(op) => \A g \in Slots : OpOK(ops'[g])
  BY DEF AllowedInv, OpsShape
<1>3. \A g \in Slots : OpOK(ops'[g])
  <2>1. CASE UNCHANGED ops
    BY <2>1 DEF AllowedInv
  <2>2. CASE Over(h)
    BY <1>2, <2>2, IdleAllowed DEF Over
  <2>3. CASE \E op : Wait(h, op) /\ DOMAIN op = OpFields /\ OpOK(op)
    BY <1>2, <2>3 DEF Wait
  <2> QED
    BY <2>1, <2>2, <2>3
<1>4. \A g \in Slots : OpOK(ops[g])'
  BY <1>1, <1>3
<1>5. DialogsOK(app)'
  BY <1>1 DEF DialogsOK
<1> QED
  BY <1>1, <1>4, <1>5 DEF AllowedInv

LEMMA BegunKeeps ==
  ASSUME AllowedInv, OpsShape, Same, NEW h \in Slots, NEW a, Begun(h, a), DialogsOK(a)
  PROVE  AllowedInv'
<1>1. DialogsOK(app')
  BY DEF Begun, DialogsOK
<1>2. Over(h) \/ \E op : Wait(h, op) /\ DOMAIN op = OpFields /\ OpOK(op)
  BY DEF Begun
<1> QED
  BY <1>1, <1>2, AllowedStep

(* A step that starts nothing.                                                *)
Plain(op, h) ==
  /\ DOMAIN op = OpFields /\ op.at \notin {"labels", "ffmpeg", "create"}
  /\ op.run \in {NoRun, ops[h].run}
Elsewhere(h) ==
  /\ app'.remote \subseteq app.remote /\ app'.gate \subseteq app.gate
  /\ UNCHANGED ops \/ Over(h) \/ \E op : Wait(h, op) /\ Plain(op, h)

LEMMA ElsewhereKeeps ==
  ASSUME AllowedInv, OpsShape, Same, NEW h \in Slots, Elsewhere(h)
  PROVE  AllowedInv'
<1>1. RunOK(NoRun) /\ RunOK(ops[h].run)
  BY IdleAllowed DEF AllowedInv, OpOK, IdleOp
<1>2. \A op : Plain(op, h) => DOMAIN op = OpFields /\ OpOK(op)
  BY <1>1 DEF Plain, OpOK
<1>3. DialogsOK(app')
  BY DEF Elsewhere, AllowedInv, DialogsOK
<1>4. \/ UNCHANGED ops \/ Over(h) \/ \E op : Wait(h, op) /\ DOMAIN op = OpFields /\ OpOK(op)
  BY <1>2 DEF Elsewhere
<1> QED
  BY <1>3, <1>4, AllowedStep

(* The runs that the calls begin with.                                        *)
LEMMA FirstRuns ==
  /\ \A n : RunOK([NewRun EXCEPT !.n = n])
  /\ RunOK([NewRun EXCEPT !.n = 1, !.resolved = TRUE])
  /\ \A type : (type = "translate_srt" => Runnable) => RunOK([NewRun EXCEPT !.type = type, !.n = 1])
<1>1. /\ DOMAIN NewRun = RunFields /\ ~NewRun.confirmed /\ NewRun.named = "none"
      /\ NewRun.type = "transcribe"
  BY DEF NewRun, NoRun, RunFields
<1> QED
  BY <1>1 DEF RunOK, RunFields

(* The run of the dialog when the user has agreed.                            *)
LEMMA ConfirmedRun ==
  ASSUME NEW run, RunOK(run), run.named # "none"
  PROVE  RunOK([run EXCEPT !.confirmed = TRUE, !.agreed = {run.named}])
<1> DEFINE r == [run EXCEPT !.confirmed = TRUE, !.agreed = {run.named}]
<1>1. /\ DOMAIN r = RunFields /\ r.agreed = {run.named} /\ r.named = run.named
      /\ r.type = run.type /\ r.asr = run.asr /\ r.model = run.model
  BY DEF RunOK, RunFields
<1> HIDE DEF r
<1>2. Selection(r) = Selection(run)
  BY <1>1 DEF Selection
<1>3. \A s : /\ Chosen(r, s) <=> Chosen(run, s)
             /\ Names(r, s) = Names(run, s)
  BY <1>1, <1>2 DEF Chosen, Names, AudioLeaves
<1>4. RunOK(r)
  BY <1>1, <1>3 DEF RunOK
<1> QED
  BY <1>4 DEF r

LEMMA StartsAllowed ==
  ASSUME AllowedInv, StreamInv, UNCHANGED settled, NEW h \in Slots,
         \/ LabelsSaved(h) \/ LookedAtFFmpeg(h) \/ ConflictResolved(h) \/ FFmpegInstalled(h)
         \/ \E n \in 1..2 : StartFiles(h, n)
         \/ \E type \in Kind \ {"transcribe"} : StartTool(h, type)
         \/ RetryJob(h) \/ ResolveConflict(h) \/ ConfirmRemote(h) \/ InstallFFmpeg(h)
  PROVE  AllowedInv'
<1>0. /\ DOMAIN app = AppFields /\ OpsShape /\ ListsOK /\ RunOK(ops[h].run)
      /\ DialogsOK(app)
  BY ShapeOfApp DEF StreamInv, AllowedInv, OpOK
<1>s. UNCHANGED config => Same
  BY <1>0 DEF Same, ListsOK, settled
<1>1. CASE LabelsSaved(h)
  <2>1. Same
    BY <1>0, <1>1 DEF LabelsSaved, Same, ListsOK, settled
  <2>2. ops[h].sel \in Selection(ops[h].run)
    BY <1>1 DEF LabelsSaved, AllowedInv, OpOK
  <2>3. Begun(h, app)
    BY <1>0, <1>1, <2>2, AfterLabelsBegins DEF LabelsSaved
  <2> QED
    BY <1>0, <2>1, <2>3, BegunKeeps
<1>2. CASE LookedAtFFmpeg(h)
  <2>1. Same
    BY <1>s, <1>2 DEF LookedAtFFmpeg
  <2>2. CASE AskOrCreate(h, ops[h].run, ops[h].sel, app)
    <3>1. PairOK(ops[h].run, ops[h].sel)
      BY <1>2 DEF LookedAtFFmpeg, AllowedInv, OpOK
    <3> QED
      BY <1>0, <2>1, <2>2, <3>1, AskOrCreateBegins, BegunKeeps
  <2>3. CASE Over(h) /\ app' = [app EXCEPT !.gate = {ops[h].run}]
    <3>1. DialogsOK(app')
      BY <1>0, <2>3 DEF AppFields, DialogsOK
    <3> QED
      BY <1>0, <2>1, <2>3, <3>1, AllowedStep
  <2> QED
    BY <1>2, <2>2, <2>3 DEF LookedAtFFmpeg
<1>3. CASE ConflictResolved(h)
  BY <1>0, <1>s, <1>3, StartJobBegins, BegunKeeps DEF ConflictResolved
<1>4. CASE FFmpegInstalled(h)
  <2>1. CASE Start(h, ops[h].run, [app EXCEPT !.gate = {}])
    <3> DEFINE a == [app EXCEPT !.gate = {}]
    <3>1. DOMAIN a = AppFields /\ DialogsOK(a)
      BY <1>0 DEF AppFields, DialogsOK
    <3>2. Start(h, ops[h].run, a)
      BY <2>1
    <3> HIDE DEF a
    <3>3. Begun(h, a)
      BY <1>0, <3>1, <3>2, StartBegins
    <3> QED
      BY <1>0, <1>s, <1>4, <3>1, <3>3, BegunKeeps DEF FFmpegInstalled
  <2>2. CASE Over(h) /\ app' = [app EXCEPT !.gate = {ops[h].run}]
    <3>1. DialogsOK(app')
      BY <1>0, <2>2 DEF AppFields, DialogsOK
    <3> QED
      BY <1>0, <1>s, <1>4, <2>2, <3>1, AllowedStep DEF FFmpegInstalled
  <2> QED
    BY <1>4, <2>1, <2>2 DEF FFmpegInstalled
<1>5. ASSUME NEW n \in 1..2, StartFiles(h, n) PROVE AllowedInv'
  <2>1. Begun(h, app)
    BY <1>0, <1>5, FirstRuns, StartJobBegins DEF StartFiles
  <2> QED
    BY <1>0, <1>s, <1>5, <2>1, FirstRuns, BegunKeeps DEF StartFiles, Unmoved
<1>6. ASSUME NEW type \in Kind \ {"transcribe"}, StartTool(h, type) PROVE AllowedInv'
  <2> DEFINE run == [NewRun EXCEPT !.type = type, !.n = 1]
  <2>1. RunOK(run)
    BY <1>6, FirstRuns DEF StartTool, Runnable
  <2>2. run.type # "transcribe"
    BY DEF NewRun, NoRun
  <2>3. StartToolJob(h, run, app) /\ Same
    BY <1>s, <1>6 DEF StartTool, Unmoved
  <2> HIDE DEF run
  <2>4. Begun(h, app)
    BY <1>0, <2>1, <2>2, <2>3, StartToolJobBegins
  <2> QED
    BY <1>0, <2>1, <2>3, <2>4, BegunKeeps
<1>7. CASE RetryJob(h)
  <2>1. Begun(h, app)
    BY <1>0, <1>7, FirstRuns, StartJobBegins DEF RetryJob
  <2> QED
    BY <1>0, <1>s, <1>7, <2>1, FirstRuns, BegunKeeps DEF RetryJob, Unmoved
<1>8. CASE ResolveConflict(h)
  <2> DEFINE run == [NewRun EXCEPT !.n = 1, !.resolved = TRUE]
             op == [IdleOp EXCEPT !.at = "resolve", !.run = run]
  <2>1. DOMAIN op = OpFields /\ op.at = "resolve" /\ op.run = run
    BY OpRecord, OpRecordRun
  <2>2. Wait(h, op) /\ UNCHANGED app /\ Same
    BY <1>8, <1>s DEF ResolveConflict, Unmoved
  <2>3. RunOK(run)
    BY FirstRuns
  <2> HIDE DEF op, run
  <2>4. OpOK(op)
    BY <2>1, <2>3 DEF OpOK
  <2>5. \E o : Wait(h, o) /\ DOMAIN o = OpFields /\ OpOK(o)
    BY <2>1, <2>2, <2>4, Zenon
  <2> QED
    BY <1>0, <2>2, <2>5, AllowedStep
<1>9. CASE ConfirmRemote(h)
  <2> DEFINE a == [app EXCEPT !.remote = {}]
  <2>1. DOMAIN a = AppFields /\ DialogsOK(a)
    BY <1>0 DEF AppFields, DialogsOK
  <2>2. PICK run \in app.remote : Start(h, [run EXCEPT !.confirmed = TRUE, !.agreed = {run.named}], a)
    BY <1>9 DEF ConfirmRemote
  <2>3. Same
    BY <1>9, <1>s DEF ConfirmRemote, Unmoved
  <2> DEFINE r == [run EXCEPT !.confirmed = TRUE, !.agreed = {run.named}]
  <2>4. RunOK(r)
    BY <1>0, <2>2, ConfirmedRun DEF DialogsOK
  <2>5. Start(h, r, a)
    BY <2>2
  <2> HIDE DEF a, r
  <2>6. Begun(h, a)
    BY <1>0, <2>1, <2>4, <2>5, StartBegins
  <2> QED
    BY <1>0, <2>1, <2>3, <2>4, <2>6, BegunKeeps
<1>10. CASE InstallFFmpeg(h)
  <2>1. PICK run \in app.gate : Wait(h, [IdleOp EXCEPT !.at = "install", !.run = run])
    BY <1>10 DEF InstallFFmpeg
  <2> DEFINE op == [IdleOp EXCEPT !.at = "install", !.run = run]
  <2>2. DOMAIN op = OpFields /\ op.at = "install" /\ op.run = run
    BY OpRecord, OpRecordRun
  <2>3. Wait(h, op) /\ UNCHANGED app /\ Same
    BY <1>10, <1>s, <2>1 DEF InstallFFmpeg, Unmoved
  <2> HIDE DEF op
  <2>4. OpOK(op)
    BY <1>0, <2>1, <2>2 DEF OpOK, DialogsOK
  <2>5. \E o : Wait(h, o) /\ DOMAIN o = OpFields /\ OpOK(o)
    BY <2>2, <2>3, <2>4, Zenon
  <2> QED
    BY <1>0, <2>3, <2>5, AllowedStep
<1> QED
  BY <1>1, <1>2, <1>3, <1>4, <1>5, <1>6, <1>7, <1>8, <1>9, <1>10

LEMMA ElsewhereWaits ==
  ASSUME NEW h, NEW op, Wait(h, op), Plain(op, h),
         app'.remote \subseteq app.remote, app'.gate \subseteq app.gate
  PROVE  Elsewhere(h)
<1>1. \E o : Wait(h, o) /\ Plain(o, h)
  BY Zenon
<1> QED
  BY <1>1 DEF Elsewhere

LEMMA PlainForms ==
  ASSUME NEW h, DOMAIN ops[h] = OpFields, NEW x, x \notin {"labels", "ffmpeg", "create"}, NEW y, NEW z
  PROVE  /\ Plain([IdleOp EXCEPT !.at = x, !.job = y, !.ids = z], h)
         /\ Plain([ops[h] EXCEPT !.at = x], h)
         /\ Plain([ops[h] EXCEPT !.at = x, !.job = y], h)
         /\ Plain([ops[h] EXCEPT !.at = x, !.ids = z], h)
<1>1. \A r : DOMAIN r = OpFields => /\ [r EXCEPT !.at = x].run = r.run
                                    /\ [r EXCEPT !.at = x, !.job = y].run = r.run
                                    /\ [r EXCEPT !.at = x, !.ids = z].run = r.run
                                    /\ [r EXCEPT !.at = x, !.job = y, !.ids = z].run = r.run
  BY DEF OpFields
<1>2. IdleOp.run = NoRun
  BY DEF IdleOp
<1>3. \A r : DOMAIN r = OpFields =>
        /\ DOMAIN [r EXCEPT !.at = x] = OpFields /\ [r EXCEPT !.at = x].at = x
        /\ DOMAIN [r EXCEPT !.at = x, !.job = y] = OpFields /\ [r EXCEPT !.at = x, !.job = y].at = x
        /\ DOMAIN [r EXCEPT !.at = x, !.ids = z] = OpFields /\ [r EXCEPT !.at = x, !.ids = z].at = x
        /\ DOMAIN [r EXCEPT !.at = x, !.job = y, !.ids = z] = OpFields
        /\ [r EXCEPT !.at = x, !.job = y, !.ids = z].at = x
  BY DEF OpFields
<1>4. DOMAIN IdleOp = OpFields
  BY IdleForm
<1> QED
  BY <1>1, <1>2, <1>3, <1>4 DEF Plain

LEMMA DialogForms ==
  ASSUME NEW a, DOMAIN a = AppFields, NEW x, NEW y, NEW z
  PROVE  /\ Show(a, x).remote = a.remote /\ Show(a, x).gate = a.gate
         /\ Card(a, x, y).remote = a.remote /\ Card(a, x, y).gate = a.gate
         /\ [a EXCEPT !.screen = x].remote = a.remote /\ [a EXCEPT !.screen = x].gate = a.gate
         /\ [a EXCEPT !.unsub = x].remote = a.remote /\ [a EXCEPT !.unsub = x].gate = a.gate
BY DEF Show, Card, AppFields

(* Where App subscribes and where it leaves, the dialogs stay as they are.    *)
LEMMA FollowsElsewhere ==
  ASSUME NEW h, Over(h) \/ \E op : Wait(h, op) /\ Plain(op, h),
         NEW a, DOMAIN a = AppFields, a.remote = app.remote, a.gate = app.gate,
         app' = a \/ Unsubscribe(a) \/ \E j, strs : Subscribe(a, j, strs)
  PROVE  Elsewhere(h)
<1>1. app' = a \/ \E s : app' = [a EXCEPT !.unsub = s]
  BY DEF Unsubscribe, Subscribe
<1>2. app'.remote = app.remote /\ app'.gate = app.gate
  BY <1>1 DEF AppFields
<1> QED
  BY <1>2 DEF Elsewhere

LEMMA JobMadeAllowed ==
  ASSUME AllowedInv, StreamInv, Same, NEW h \in Slots, JobMade(h)
  PROVE  AllowedInv'
<1>0. DOMAIN app = AppFields /\ OpsShape /\ DOMAIN ops[h] = OpFields
  BY ShapeOfApp DEF StreamInv
<1> DEFINE ids == Append(ops[h].ids, NextId)
<1>1. CASE Wait(h, [ops[h] EXCEPT !.ids = ids]) /\ UNCHANGED app
  <2> DEFINE op == [ops[h] EXCEPT !.ids = ids]
  <2>1. DOMAIN op = OpFields /\ op.at = ops[h].at /\ op.run = ops[h].run /\ op.sel = ops[h].sel
    BY <1>0 DEF OpFields
  <2>2. Wait(h, op)
    BY <1>1
  <2> HIDE DEF op
  <2>3. OpOK(op)
    BY <2>1 DEF AllowedInv, OpOK
  <2>4. \E o : Wait(h, o) /\ DOMAIN o = OpFields /\ OpOK(o)
    BY <2>1, <2>2, <2>3, Zenon
  <2>5. DialogsOK(app')
    BY <1>1 DEF AllowedInv
  <2> QED
    BY <1>0, <2>4, <2>5, AllowedStep
<1>2. CASE Over(h) /\ BatchBegins(ids)
  <2> DEFINE a == [Card(app, ids[1], "queued") EXCEPT !.background = FALSE, !.batch = ids,
                     !.completed = {}, !.screen = "main-generating"]
  <2>1. DOMAIN a = AppFields /\ a.remote = app.remote /\ a.gate = app.gate
    BY <1>0 DEF Card, AppFields
  <2>2. \E j, strs : Subscribe(a, j, strs)
    BY <1>2 DEF BatchBegins
  <2> HIDE DEF a
  <2>3. Elsewhere(h)
    BY <1>2, <2>1, <2>2, FollowsElsewhere
  <2> QED
    BY <1>0, <2>3, ElsewhereKeeps
<1>3. CASE Over(h) /\ \E st : ToolBegins(NextId, st)
  <2>1. PICK st : ToolBegins(NextId, st)
    BY <1>3
  <2> DEFINE done == st = "succeeded"
             a == [Card(app, NextId, st) EXCEPT !.background = FALSE, !.batch = <<NextId>>,
                     !.completed = IF done THEN {NextId} ELSE {},
                     !.screen = IF done THEN "main-done" ELSE "main-generating"]
  <2>2. DOMAIN a = AppFields /\ a.remote = app.remote /\ a.gate = app.gate
    BY <1>0 DEF Card, AppFields
  <2>3. Unsubscribe(a) \/ \E j, strs : Subscribe(a, j, strs)
    BY <2>1 DEF ToolBegins
  <2> HIDE DEF a
  <2>4. Elsewhere(h)
    BY <1>3, <2>2, <2>3, FollowsElsewhere
  <2> QED
    BY <1>0, <2>4, ElsewhereKeeps
<1> QED
  BY <1>1, <1>2, <1>3 DEF JobMade

LEMMA BurnMadeElsewhere ==
  ASSUME NEW h \in Slots, DOMAIN app = AppFields, DOMAIN ops[h] = OpFields, BurnMade(h)
  PROVE  Elsewhere(h)
<1> DEFINE b == NextId
           st == ReportAs(b, Made("burn_in"))
           a == [Card(app, b, st) EXCEPT !.batch = Append(@, b),
                   !.completed = IF st = "succeeded" THEN @ \cup {b} ELSE @]
<1>1. DOMAIN a = AppFields /\ a.remote = app.remote /\ a.gate = app.gate
  BY DEF Card, AppFields
<1>2. \/ Over(h) /\ \E j, strs : Subscribe(Show(a, "main-generating"), j, strs)
      \/ Over(h) /\ app' = Show(a, "main-done")
      \/ Wait(h, [ops[h] EXCEPT !.at = "listDone", !.ids = a.batch]) /\ app' = a
  BY DEF BurnMade
<1> HIDE DEF a, b
<1>3. \A s : /\ DOMAIN Show(a, s) = AppFields
             /\ Show(a, s).remote = app.remote /\ Show(a, s).gate = app.gate
  BY <1>1, ShowForm, DialogForms
<1>4. CASE Wait(h, [ops[h] EXCEPT !.at = "listDone", !.ids = a.batch]) /\ app' = a
  <2> DEFINE op == [ops[h] EXCEPT !.at = "listDone", !.ids = a.batch]
  <2>1. Plain(op, h)
    BY PlainForms
  <2>2. Wait(h, op)
    BY <1>4
  <2> HIDE DEF op
  <2> QED
    BY <1>1, <1>4, <2>1, <2>2, ElsewhereWaits
<1>5. CASE Over(h) /\ \E j, strs : Subscribe(Show(a, "main-generating"), j, strs)
  BY <1>3, <1>5, FollowsElsewhere
<1>6. CASE Over(h) /\ app' = Show(a, "main-done")
  BY <1>3, <1>6 DEF Elsewhere
<1> QED
  BY <1>2, <1>4, <1>5, <1>6

LEMMA JobsListedElsewhere ==
  ASSUME NEW h \in Slots, DOMAIN app = AppFields, DOMAIN ops[h] = OpFields, JobsListed(h)
  PROVE  Elsewhere(h)
<1>1. PICK answer : ListedAfterSuccess(h, answer) \/ ListedAfterFailure(h, answer)
  BY DEF JobsListed
<1>2. \/ GoOn(h, answer)
      \/ Wait(h, [ops[h] EXCEPT !.at = "details"]) /\ UNCHANGED app
      \/ Over(h) /\ (app' = app \/ \E s : app' = Show(app, s))
  BY <1>1 DEF ListedAfterSuccess, ListedAfterFailure
<1>3. CASE GoOn(h, answer)
  <2>1. PICK k : Wait(h, [ops[h] EXCEPT !.at = "next", !.job = k]) /\ UNCHANGED app
    BY <1>3 DEF GoOn
  <2>2. Plain([ops[h] EXCEPT !.at = "next", !.job = k], h)
    BY PlainForms
  <2> DEFINE op == [ops[h] EXCEPT !.at = "next", !.job = k]
  <2>3. Wait(h, op) /\ Plain(op, h)
    BY <2>1, <2>2
  <2> HIDE DEF op
  <2> QED
    BY <2>1, <2>3, ElsewhereWaits
<1>4. CASE Wait(h, [ops[h] EXCEPT !.at = "details"]) /\ UNCHANGED app
  <2> DEFINE op == [ops[h] EXCEPT !.at = "details"]
  <2>1. Wait(h, op) /\ Plain(op, h)
    BY <1>4, PlainForms
  <2> HIDE DEF op
  <2> QED
    BY <1>4, <2>1, ElsewhereWaits
<1>5. CASE Over(h) /\ (app' = app \/ \E s : app' = Show(app, s))
  BY <1>5, DialogForms DEF Elsewhere
<1> QED
  BY <1>2, <1>3, <1>4, <1>5

LEMMA DetailsElsewhere ==
  ASSUME NEW h \in Slots, DOMAIN app = AppFields, DetailsLoaded(h)
  PROVE  Elsewhere(h)
<1> DEFINE a == [app EXCEPT !.completed = Listed(h, Known)]
<1>1. PICK b : app' = Show(b, "main-done") /\ (b = a \/ \E j, st : b = Card(a, j, st))
  BY DEF DetailsLoaded
<1>2. DOMAIN a = AppFields /\ a.remote = app.remote /\ a.gate = app.gate
  BY DEF AppFields
<1>3. app' = Show(b, "main-done")
  BY <1>1
<1> HIDE DEF a
<1>4. DOMAIN b = AppFields /\ b.remote = app.remote /\ b.gate = app.gate
  BY <1>1, <1>2, CardForm, DialogForms
<1>5. app'.remote = app.remote /\ app'.gate = app.gate
  BY <1>3, <1>4, DialogForms
<1>6. Over(h)
  BY DEF DetailsLoaded
<1> QED
  BY <1>5, <1>6 DEF Elsewhere

LEMMA AnswersElsewhere ==
  ASSUME NEW h \in Slots, DOMAIN app = AppFields, DOMAIN ops[h] = OpFields,
         \/ NextFollowed(h) \/ JobOpened(h) \/ ActiveJobCanceled(h) \/ CancelSeen(h) \/ JobsCanceled(h)
         \/ JobsDeleted(h) \/ ActiveJobDeleted(h) \/ AllCanceled(h) \/ RequestFails(h)
  PROVE  Elsewhere(h)
<1>1. \A j, st : /\ DOMAIN Card(app, j, st) = AppFields
                 /\ Card(app, j, st).remote = app.remote /\ Card(app, j, st).gate = app.gate
  BY CardForm, DialogForms
<1>2. CASE NextFollowed(h)
  <2> DEFINE b == Card(app, ops[h].job, Report(ops[h].job))
             a == Show(b, "main-generating")
  <2>1. Over(h) /\ \E j, strs : Subscribe(a, j, strs)
    BY <1>2 DEF NextFollowed
  <2>2. DOMAIN b = AppFields /\ b.remote = app.remote /\ b.gate = app.gate
    BY <1>1
  <2> HIDE DEF b
  <2>3. DOMAIN a = AppFields /\ a.remote = app.remote /\ a.gate = app.gate
    BY <2>2, ShowForm, DialogForms
  <2> HIDE DEF a
  <2> QED
    BY <2>1, <2>3, FollowsElsewhere
<1>3. CASE JobOpened(h)
  <2> DEFINE a == Card(app, ops[h].job, Report(ops[h].job))
  <2>1. Over(h) /\ (app' = a \/ \E j, strs : Subscribe(a, j, strs))
    BY <1>3 DEF JobOpened
  <2>2. DOMAIN a = AppFields /\ a.remote = app.remote /\ a.gate = app.gate
    BY <1>1
  <2> HIDE DEF a
  <2> QED
    BY <2>1, <2>2, FollowsElsewhere
<1>4. CASE ActiveJobCanceled(h)
  <2> DEFINE op == [ops[h] EXCEPT !.at = "timer"]
  <2>1. Wait(h, op) /\ Plain(op, h)
    BY <1>4, PlainForms DEF ActiveJobCanceled
  <2>2. \E st : app' = [Card(app, ops[h].job, st) EXCEPT !.screen = "queue-detail"]
    BY <1>4 DEF ActiveJobCanceled, CardCanceled
  <2>3. app'.remote = app.remote /\ app'.gate = app.gate
    BY <1>1, <2>2, DialogForms
  <2> HIDE DEF op
  <2> QED
    BY <2>1, <2>3, ElsewhereWaits
<1>5. CASE \/ CancelSeen(h) \/ JobsCanceled(h) \/ JobsDeleted(h) \/ ActiveJobDeleted(h) \/ AllCanceled(h)
           \/ RequestFails(h)
  <2>1. Over(h)
    BY <1>5 DEF CancelSeen, JobsCanceled, JobsDeleted, ActiveJobDeleted, AllCanceled, RequestFails
  <2>2. \/ app' = app
        \/ \E j, st : app' = Card(app, j, st)
        \/ \E j, st, s : app' = [Card(app, j, st) EXCEPT !.screen = s]
        \/ \E s : app' = [app EXCEPT !.screen = s]
    BY <1>5 DEF CancelSeen, JobsCanceled, CardCanceled, JobsDeleted, ActiveJobDeleted, AllCanceled, RequestFails
  <2>3. app'.remote = app.remote /\ app'.gate = app.gate
    BY <2>2 DEF Card, AppFields
  <2> QED
    BY <2>1, <2>3 DEF Elsewhere
<1> QED
  BY <1>2, <1>3, <1>4, <1>5

LEMMA ClicksElsewhere ==
  ASSUME NEW h \in Slots, DOMAIN app = AppFields, DOMAIN ops[h] = OpFields,
         \/ \E j \in Jobs : OpenJob(h, j) \/ CancelJobs(h, j) \/ DeleteJobs(h, j)
         \/ CancelActiveJob(h) \/ DeleteActiveJob(h) \/ CancelAll(h)
  PROVE  Elsewhere(h)
<1>1. ASSUME NEW at, NEW j, Ask(h, at, j), at \notin {"labels", "ffmpeg", "create"}
      PROVE  \E op : Wait(h, op) /\ Plain(op, h)
  <2> DEFINE op == [IdleOp EXCEPT !.at = at, !.job = j, !.ids = <<app.job>>]
  <2>1. Wait(h, op) /\ Plain(op, h)
    BY <1>1, PlainForms DEF Ask
  <2> HIDE DEF op
  <2> QED
    BY <2>1, Zenon
<1>2. ASSUME NEW j \in Jobs, OpenJob(h, j) PROVE Elsewhere(h)
  <2> DEFINE a == [Card(app, j, Report(j)) EXCEPT !.background = FALSE,
                     !.screen = IF status[j] = "failed" THEN "queue-failed" ELSE "queue-detail"]
  <2>1. DOMAIN a = AppFields /\ a.remote = app.remote /\ a.gate = app.gate
    BY DEF Card, AppFields
  <2>2. Unsubscribe(a) /\ Ask(h, "open", j)
    BY <1>2 DEF OpenJob
  <2> HIDE DEF a
  <2> QED
    BY <1>1, <2>1, <2>2, FollowsElsewhere
<1>3. CASE CancelAll(h)
  <2> DEFINE a == [Card(app, NoJob, "none") EXCEPT !.batch = <<>>]
  <2>1. DOMAIN a = AppFields /\ a.remote = app.remote /\ a.gate = app.gate
    BY DEF Card, AppFields
  <2>2. Unsubscribe(a) /\ Ask(h, "cancelAll", NoJob)
    BY <1>3 DEF CancelAll
  <2> HIDE DEF a
  <2> QED
    BY <1>1, <2>1, <2>2, FollowsElsewhere
<1>4. CASE CancelActiveJob(h)
  <2>1. Unsubscribe(app) /\ Ask(h, "cancel", app.job)
    BY <1>4 DEF CancelActiveJob
  <2> QED
    BY <1>1, <2>1, FollowsElsewhere
<1>5. CASE DeleteActiveJob(h) \/ \E j \in Jobs : CancelJobs(h, j) \/ DeleteJobs(h, j)
  <2>1. UNCHANGED app /\ \E at, j : Ask(h, at, j) /\ at \in {"delete", "cancelMany", "deleteMany"}
    BY <1>5 DEF DeleteActiveJob, CancelJobs, DeleteJobs
  <2>2. PICK at, j : Ask(h, at, j) /\ at \in {"delete", "cancelMany", "deleteMany"}
    BY <2>1
  <2>3. at \notin {"labels", "ffmpeg", "create"}
    BY <2>2
  <2> QED
    BY <1>1, <2>1, <2>2, <2>3 DEF Elsewhere
<1> QED
  BY <1>2, <1>3, <1>4, <1>5

LEMMA EndedElsewhere ==
  ASSUME NEW h \in Slots, DOMAIN app = AppFields, DOMAIN ops[h] = OpFields, NEW s, NEW end, Ended(h, s, end)
  PROVE  Elsewhere(h)
<1> DEFINE a == [app EXCEPT !.unsub = NoStream,
                   !.shown = IF app.job = NoJob THEN @ ELSE end,
                   !.completed = IF end = "succeeded" THEN @ \cup ({app.job} \ {NoJob}) ELSE @]
<1>1. DOMAIN a = AppFields /\ a.remote = app.remote /\ a.gate = app.gate
  BY DEF AppFields
<1>2. Succeeded(h, a, app.job) \/ Broken(h, a, app.job, end)
  BY DEF Ended
<1> HIDE DEF a
<1>3. \/ \E at : Follow(h, at, app.job) /\ app' = a /\ at \in {"burn", "listDone", "list"}
      \/ Over(h) /\ \E sc : app' = Show(a, sc)
  BY <1>2 DEF Succeeded, Broken
<1>4. CASE \E at : Follow(h, at, app.job) /\ app' = a /\ at \in {"burn", "listDone", "list"}
  <2>1. PICK at : Follow(h, at, app.job) /\ app' = a /\ at \in {"burn", "listDone", "list"}
    BY <1>4
  <2>2. at \notin {"labels", "ffmpeg", "create"}
    BY <2>1
  <2> DEFINE op == [IdleOp EXCEPT !.at = at, !.job = app.job, !.ids = app.batch]
  <2>3. Wait(h, op) /\ Plain(op, h)
    BY <2>1, <2>2, PlainForms DEF Follow
  <2> HIDE DEF op
  <2> QED
    BY <1>1, <2>1, <2>3, ElsewhereWaits
<1>5. CASE Over(h) /\ \E sc : app' = Show(a, sc)
  BY <1>1, <1>5, DialogForms DEF Elsewhere
<1> QED
  BY <1>3, <1>4, <1>5

(* Steps of no function: a job, a stream, a screen.                           *)
LEMMA StillAllowed ==
  ASSUME AllowedInv, OpsShape, Same, UNCHANGED ops, app'.remote \subseteq app.remote, app'.gate \subseteq app.gate
  PROVE  AllowedInv'
<1>1. /\ ListsOK'
      /\ \A run : RunOK(run) => RunOK(run)'
      /\ \A op : OpOK(op) => OpOK(op)'
  BY SameChoices DEF AllowedInv
<1>2. \A g \in Slots : OpOK(ops[g])'
  BY <1>1 DEF AllowedInv
<1>3. DialogsOK(app)'
  BY <1>1 DEF AllowedInv, DialogsOK
<1> QED
  BY <1>1, <1>2, <1>3 DEF AllowedInv

LEMMA OthersAllowed ==
  ASSUME AllowedInv, StreamInv, Same,
         \/ JobMoves \/ CloseDialog \/ OpenRunningQueue \/ \E s : Navigate(s)
         \/ \E s \in Streams : Snapshot(s) \/ Progress(s) \/ StreamLost(s)
  PROVE  AllowedInv'
<1>0. DOMAIN app = AppFields /\ OpsShape
  BY ShapeOfApp DEF StreamInv
<1>1. UNCHANGED ops
  BY DEF JobMoves, CloseDialog, OpenRunningQueue, Navigate, Snapshot, Progress, StreamLost
<1>2. \/ app' = app
      \/ app' = [app EXCEPT !.remote = {}, !.gate = {}]
      \/ \E b, s : app' = [app EXCEPT !.background = b, !.screen = s]
      \/ \E s : app' = [app EXCEPT !.screen = s]
      \/ \E j, st : app' = Card(app, j, st)
  BY DEF JobMoves, CloseDialog, OpenRunningQueue, Navigate, Snapshot, Progress, StreamLost
<1>3. app'.remote \subseteq app.remote /\ app'.gate \subseteq app.gate
  BY <1>0, <1>2 DEF Card, AppFields
<1> QED
  BY <1>0, <1>1, <1>3, StillAllowed

LEMMA AllowedInvInit == AppJobsInit /\ ListsOK => AllowedInv
<1>1. AppJobsInit => app.remote = {} /\ app.gate = {} /\ \A h \in Slots : ops[h] = IdleOp
  BY DEF AppJobsInit
<1> QED
  BY <1>1, IdleAllowed DEF AllowedInv, DialogsOK

LEMMA AllowedInvNext == StreamInv /\ AllowedInv /\ [JobsNext]_jobVars => AllowedInv'
<1> SUFFICES ASSUME StreamInv, AllowedInv, [JobsNext]_jobVars PROVE AllowedInv'
  OBVIOUS
<1>0. /\ DOMAIN app = AppFields /\ OpsShape /\ ListsOK /\ \A h \in Slots : DOMAIN ops[h] = OpFields
  BY ShapeOfApp DEF StreamInv, AllowedInv
<1>1. CASE UNCHANGED jobVars
  <2>1. Same
    BY <1>0, <1>1 DEF jobVars, Same, ListsOK
  <2> QED
    BY <1>0, <1>1, <2>1, StillAllowed DEF jobVars
<1>2. CASE JobsNext
  <2>0. UNCHANGED settled
    BY <1>2 DEF JobsNext
  <2>s. UNCHANGED config => Same
    BY <1>0, <2>0 DEF Same, ListsOK, settled
  <2>1. ASSUME NEW h \in Slots, Continues(h) \/ FFmpegInstalled(h) \/ RequestFails(h) \/ Clicked(h)
        PROVE  AllowedInv'
    <3>1. CASE \/ LabelsSaved(h) \/ LookedAtFFmpeg(h) \/ ConflictResolved(h) \/ FFmpegInstalled(h)
               \/ \E n \in 1..2 : StartFiles(h, n)
               \/ \E type \in Kind \ {"transcribe"} : StartTool(h, type)
               \/ RetryJob(h) \/ ResolveConflict(h) \/ ConfirmRemote(h) \/ InstallFFmpeg(h)
      BY <2>0, <3>1, StartsAllowed
    <3>2. CASE JobMade(h)
      <4>1. Same
        BY <2>s, <3>2 DEF JobMade
      <4> QED
        BY <3>2, <4>1, JobMadeAllowed
    <3>3. CASE \/ BurnMade(h) \/ JobsListed(h) \/ DetailsLoaded(h) \/ NextFollowed(h) \/ JobOpened(h)
               \/ ActiveJobCanceled(h) \/ CancelSeen(h) \/ JobsCanceled(h) \/ JobsDeleted(h)
               \/ ActiveJobDeleted(h) \/ AllCanceled(h) \/ RequestFails(h)
      <4>1. UNCHANGED config
        BY <3>3 DEF BurnMade, JobsListed, DetailsLoaded, NextFollowed, JobOpened, ActiveJobCanceled, CancelSeen,
                    JobsCanceled, JobsDeleted, ActiveJobDeleted, AllCanceled, RequestFails, Answered
      <4>2. Elsewhere(h)
        BY <1>0, <3>3, BurnMadeElsewhere, JobsListedElsewhere, DetailsElsewhere, AnswersElsewhere
      <4> QED
        BY <1>0, <2>s, <4>1, <4>2, ElsewhereKeeps
    <3>4. CASE \/ \E j \in Jobs : OpenJob(h, j) \/ CancelJobs(h, j) \/ DeleteJobs(h, j)
               \/ CancelActiveJob(h) \/ DeleteActiveJob(h) \/ CancelAll(h)
      <4>1. UNCHANGED config
        BY <3>4 DEF OpenJob, CancelJobs, DeleteJobs, CancelActiveJob, DeleteActiveJob, CancelAll, Unmoved
      <4>2. Elsewhere(h)
        BY <1>0, <3>4, ClicksElsewhere
      <4> QED
        BY <1>0, <2>s, <4>1, <4>2, ElsewhereKeeps
    <3> QED
      BY <2>1, <3>1, <3>2, <3>3, <3>4, Zenon DEF Continues, Clicked
  <2>2. ASSUME NEW s \in Streams, NEW h \in Slots, NEW end, Ended(h, s, end) PROVE AllowedInv'
    <3>1. Elsewhere(h) /\ Same
      BY <1>0, <2>s, <2>2, EndedElsewhere DEF Ended
    <3> QED
      BY <1>0, <3>1, ElsewhereKeeps
  <2>3. CASE \/ JobMoves \/ CloseDialog \/ OpenRunningQueue \/ \E s : Navigate(s)
             \/ \E s \in Streams : Snapshot(s) \/ Progress(s) \/ StreamLost(s)
    <3>1. UNCHANGED config
      BY <2>3 DEF JobMoves, CloseDialog, OpenRunningQueue, Navigate, Snapshot, Progress, StreamLost, Unmoved
    <3> QED
      BY <2>3, <2>s, <3>1, OthersAllowed
  <2> QED
    BY <1>2, <2>1, <2>2, <2>3, Zenon DEF JobsNext, Delivered
<1> QED
  BY <1>1, <1>2

(* Whatever providers and models there are, a job is made only of a provider, *)
(* a model and a translator that can run; audio leaves only for a provider    *)
(* the user was shown and agreed to in this very call, and so does a text,    *)
(* except that the text of a job whose audio leaves as well goes with the     *)
(* answer about the audio (AppShell.tsx:690, 727, 733, 739, 782).             *)
THEOREM JobsAllowedHolds == JobsSpec /\ ListsOK => JobsAllowed
<1>1. StreamInv /\ AllowedInv /\ [JobsNext]_jobVars =>
        [\A h \in Slots : ops[h].at = "create" /\ status' # status /\ ops'[h] # ops[h]
           => RunsAllowed(ops[h].run, ops[h].sel)]_jobVars
  BY AllowedRuns
<1> QED
  BY <1>1, StreamInvInit, StreamInvNext, AllowedInvInit, AllowedInvNext, PTL DEF JobsSpec, JobsAllowed
===============================================================================
