---------------------------- MODULE Desktop_proofs ----------------------------
(***************************************************************************)
(* Theorems about DaemonProcess and DesktopMain, for any callers, pids,    *)
(* faults and menus.  Whatever the callers do, each of their steps is one  *)
(* of a few steps of the process manager (ManagerNext), and what is proved *)
(* of the processes is proved of those; what a call makes of its job needs *)
(* the steps of the calls themselves.                                      *)
(*                                                                         *)
(* Behind them, those about WebTranslation, the other processes that the   *)
(* desktop starts: it shares no state with the first two.                  *)
(*                                                                         *)
(* At the end, the parts together: a behaviour of MCDesktop, whatever the  *)
(* constants, is one of each part, so that the theorems about the parts,   *)
(* these and those of Installs_proofs, hold of it.                         *)
(***************************************************************************)
EXTENDS MCDesktop, Installs_proofs, SequenceTheorems, WellFoundedInduction, TLAPS

(* Phases of a caller that neither starts a daemon nor stops one.             *)
Resting == {"idle", "native", "have", "failed", "reading", "backoff"}

(* A caller goes on to something that does not concern the manager.           *)
Rests(c) ==
  /\ pc[c] \in Resting
  /\ \E phase \in {"idle", "native", "reading", "backoff"} : pc' = [pc EXCEPT ![c] = phase]
  /\ at' = at \/ at' = [at EXCEPT ![c] = NoPid]
  /\ UNCHANGED <<childVars, quitting, raced>>

AsksManager(c) == pc[c] \in Resting /\ Ask(c) /\ UNCHANGED <<childVars, quitting>>
Stops(c) == pc[c] \in Resting /\ Stop(c) /\ quitting' \in {quitting, TRUE}

LastStopEnds(c) ==
  /\ pc[c] = "tree" /\ Forget(c) /\ Uncross(c)
  /\ pc' = [pc EXCEPT ![c] = "idle"]
  /\ at' = [at EXCEPT ![c] = NoPid]
  /\ UNCHANGED quitting

(* The process manager alone, its callers calling as they please.             *)
ManagerNext ==
  \/ \E c \in Callers : \/ Rests(c) \/ AsksManager(c) \/ Stops(c) \/ LastStopEnds(c)
                        \/ Restart(c) \/ Spawn(c) \/ ReadyTimeout(c)
  \/ \E p \in Pids : ChildEvent(p) \/ PrintReady(p) \/ LoseLine(p) \/ Crash(p)

ManagerSpec == ProcInit /\ [][ManagerNext]_procVars

-------------------------------------------------------------------------------
(* The steps of the calls, seen by the manager *)

LEMMA DoneRests ==
  ASSUME NEW c \in Callers, pc[c] \in Resting, Done(c), UNCHANGED <<childVars, quitting, raced>>
  PROVE  ManagerNext
BY DEF Done, Rests, ManagerNext

LEMMA FinishRests ==
  ASSUME NEW c \in Callers, pc[c] \in Resting, Finish(c), UNCHANGED quitting
  PROVE  ManagerNext
BY DoneRests DEF Finish

LEMMA LookRests ==
  ASSUME NEW c \in Callers, pc[c] \in Resting, NEW s, LookAtFFmpeg(c, s), UNCHANGED quitting
  PROVE  ManagerNext
BY DEF LookAtFFmpeg, Rests, ManagerNext

LEMMA RequestAsks ==
  ASSUME NEW c \in Callers, pc[c] \in Resting, NEW s, Request(c, s), UNCHANGED quitting
  PROVE  ManagerNext
BY DEF Request, AsksManager, ManagerNext

LEMMA RepairStops ==
  ASSUME NEW c \in Callers, pc[c] \in Resting, NEW s, Repair(c, s), quitting' \in {quitting, TRUE}
  PROVE  ManagerNext
BY DEF Repair, Stops, ManagerNext

LEMMA StreamErrorRests ==
  ASSUME NEW c \in Callers, pc[c] \in Resting, StreamError(c), UNCHANGED <<childVars, quitting>>
  PROVE  ManagerNext
<1>1. CASE aborted[c] BY <1>1, DoneRests DEF StreamError, StreamOver
<1>2. CASE ~aborted[c] BY <1>2 DEF StreamError, Rests, ManagerNext
<1> QED BY <1>1, <1>2

LEMMA BeginsIsManaged ==
  ASSUME NEW c \in Callers, Begins(c) PROVE ManagerNext \/ UNCHANGED procVars
<1> USE DEF Idle, Resting
<1>1. CASE SingleRequest(c) BY <1>1, RequestAsks DEF SingleRequest
<1>2. CASE Check(c) BY <1>2, LookRests DEF Check
<1>3. CASE RepairDaemon(c) BY <1>3, RepairStops DEF RepairDaemon
<1>4. CASE InstallFFmpeg(c) BY <1>4, LookRests DEF InstallFFmpeg
<1>5. CASE ClearFFmpeg(c) BY <1>5, RepairStops DEF ClearFFmpeg
<1>6. CASE SaveKey(c) BY <1>6, RequestAsks DEF SaveKey
<1>7. CASE \E media, key \in BOOLEAN : CreateJob(c, media, key)
  BY <1>7, RequestAsks, LookRests DEF CreateJob
<1>8. CASE Subscribe(c) BY <1>8, RequestAsks DEF Subscribe
<1>9. CASE Unsubscribe(c) BY <1>9 DEF Unsubscribe
<1>10. CASE Quit(c) BY <1>10 DEF Quit, Stops, ManagerNext
<1> QED BY <1>1, <1>2, <1>3, <1>4, <1>5, <1>6, <1>7, <1>8, <1>9, <1>10 DEF Begins

LEMMA PostIsManaged ==
  ASSUME NEW c \in Callers, PostStep(c) PROVE ManagerNext \/ UNCHANGED procVars
<1> USE DEF Resting, Answered, Unanswered
<1>1. CASE \E s \in {"post", "repost"} : PostHandled(c, s) BY <1>1 DEF PostHandled
<1>2. CASE \E s \in {"post", "repost"} : PostRefused(c, s) BY <1>2, FinishRests DEF PostRefused
<1>3. CASE \E s \in {"post", "repost", "answer"} : PostFails(c, s)
  BY <1>3, FinishRests DEF PostFails
<1>4. CASE PostLacksFFmpeg(c) BY <1>4, FinishRests, LookRests DEF PostLacksFFmpeg
<1>5. CASE PostAnswered(c) BY <1>5, RequestAsks DEF PostAnswered
<1> QED BY <1>1, <1>2, <1>3, <1>4, <1>5 DEF PostStep

LEMMA StreamIsManaged ==
  ASSUME NEW c \in Callers,
         Retry(c) \/ Connect(c) \/ Resynced(c) \/ EventsLost(c) \/ StreamEnds(c)
  PROVE  ManagerNext
<1> USE DEF Resting, Answered, Unanswered
<1>1. CASE Retry(c)
  <2>1. CASE StreamOver(c) /\ UNCHANGED childVars
    BY <1>1, <2>1, DoneRests DEF Retry, StreamOver
  <2>2. CASE Request(c, "connect") BY <1>1, <2>2, RequestAsks DEF Retry
  <2> QED BY <1>1, <2>1, <2>2 DEF Retry
<1>2. CASE Connect(c)
  <2>1. CASE StreamOver(c) BY <1>2, <2>1, DoneRests DEF Connect, StreamOver
  <2>2. CASE StreamError(c) BY <1>2, <2>2, StreamErrorRests DEF Connect
  <2>3. CASE pc' = [pc EXCEPT ![c] = "reading"] /\ UNCHANGED <<at, raced>>
    BY <1>2, <2>3 DEF Connect, Rests, ManagerNext
  <2> QED BY <1>2, <2>1, <2>2, <2>3 DEF Connect
<1>3. CASE Resynced(c)
  <2>1. CASE Unanswered(c, "resync") /\ StreamError(c)
    BY <1>3, <2>1, StreamErrorRests DEF Resynced
  <2>2. CASE Answered(c, "resync") /\ pc' = [pc EXCEPT ![c] = "reading"] /\ UNCHANGED <<at, raced>>
    BY <1>3, <2>2 DEF Resynced, Rests, ManagerNext
  <2> QED BY <1>3, <2>1, <2>2 DEF Resynced
<1>4. CASE EventsLost(c) BY <1>4, RequestAsks DEF EventsLost
<1>5. CASE StreamEnds(c)
  BY <1>5, StreamErrorRests, DoneRests DEF StreamEnds, StreamOver
<1> QED BY <1>1, <1>2, <1>3, <1>4, <1>5

LEMMA CallIsManaged ==
  ASSUME NEW c \in Callers, CallStep(c) PROVE ManagerNext \/ UNCHANGED procVars
<1> USE DEF Resting
<1>1. CASE CheckLooks(c) BY <1>1, RequestAsks DEF CheckLooks
<1>2. CASE \E available \in BOOLEAN : InstallLooks(c, available)
  BY <1>2, RepairStops, LookRests DEF InstallLooks
<1>3. CASE \E available \in BOOLEAN : JobLooks(c, available)
  BY <1>3, RepairStops, FinishRests DEF JobLooks
<1>4. CASE RestartStep(c) BY <1>4 DEF RestartStep, ManagerNext
<1>5. CASE WaitStep(c) BY <1>5 DEF WaitStep, ManagerNext
<1>6. CASE Repaired(c)
  <2>1. pc[c] \in Resting /\ UNCHANGED quitting /\ step[c] \in RepairSteps
    BY <1>6 DEF Repaired, RepairOver
  <2>2. (\E s \in Step : Request(c, s)) \/ LookAtFFmpeg(c, "list")
    BY <1>6, <2>1 DEF Repaired, RepairSteps, Step
  <2> QED BY <2>1, <2>2, RequestAsks, LookRests
<1>7. CASE RepairThrows(c) BY <1>7, FinishRests DEF RepairThrows, RepairOver
<1>8. CASE QuitDone(c) BY <1>8 DEF QuitDone, Done, LastStopEnds, ManagerNext
<1>9. CASE LastAnswered(c) BY <1>9, FinishRests DEF LastAnswered, Answered, Unanswered
<1>10. CASE PatchAnswered(c)
  BY <1>10, FinishRests, RepairStops DEF PatchAnswered, Answered, Unanswered
<1>11. CASE ConfigAnswered(c)
  BY <1>11, RequestAsks, FinishRests DEF ConfigAnswered, Answered, Unanswered
<1>12. CASE SecretAnswered(c)
  BY <1>12, RequestAsks, FinishRests DEF SecretAnswered, Answered, Unanswered
<1>13. CASE PostStep(c) BY <1>13, PostIsManaged
<1>14. CASE Retry(c) \/ Connect(c) \/ Resynced(c) BY <1>14, StreamIsManaged
<1> QED BY <1>1, <1>2, <1>3, <1>4, <1>5, <1>6, <1>7, <1>8, <1>9, <1>10, <1>11, <1>12,
           <1>13, <1>14 DEF CallStep

LEMMA NextIsManaged == ASSUME [Next]_vars PROVE [ManagerNext]_procVars
<1>1. CASE UNCHANGED vars BY <1>1 DEF vars
<1>2. ASSUME NEW c \in Callers, Begins(c) \/ CallStep(c) \/ EventsLost(c) \/ StreamEnds(c)
      PROVE  [ManagerNext]_procVars
  BY <1>2, BeginsIsManaged, CallIsManaged, StreamIsManaged
<1>3. ASSUME NEW p \in Pids, ChildStep(p) \/ DaemonReady(p) \/ DaemonStep(p)
      PROVE  [ManagerNext]_procVars
  BY <1>3 DEF ChildStep, DaemonReady, DaemonStep, ManagerNext
<1> QED BY <1>1, <1>2, <1>3 DEF Next

(* Whatever calls run, they do to the processes only what the manager may.    *)
THEOREM RefinesManager == Spec => ManagerSpec
<1>1. Init => ProcInit BY DEF Init
<1>2. [Next]_vars => [ManagerNext]_procVars BY NextIsManaged
<1> QED BY <1>1, <1>2, PTL DEF Spec, ManagerSpec

-------------------------------------------------------------------------------
(* The types of the manager *)

LEMMA FreePid == ASSUME Free # {} PROVE (CHOOSE p \in Free : TRUE) \in Free
OBVIOUS

LEMMA BeginStartTypes ==
  ASSUME ProcTypeOK, NEW c \in Callers, BeginStart(c)
  PROVE  /\ pc' \in [Callers -> Phase] /\ at' \in [Callers -> Pids \cup {NoPid}]
         /\ crossed' \subseteq Callers
BY DEF ProcTypeOK, BeginStart, Phase, Cross, Uncross, Starting, Stopping

LEMMA StraysTypes ==
  ASSUME ProcTypeOK
  PROVE  (\A c : Lost(c) \subseteq Pids) /\ (DeadAreNone => strays' \subseteq Pids)
BY DEF ProcTypeOK, Lost, Alive, DeadAreNone

LEMMA KillTypes ==
  ASSUME ProcTypeOK, NEW p \in Pids
  PROVE  Kill(p) \in [Pids -> Life]
BY DEF ProcTypeOK, Kill, Life

LEMMA SettleTypes ==
  ASSUME ProcTypeOK, NEW p \in Pids, NEW phase \in Phase, Settle(p, phase)
  PROVE  pc' \in [Callers -> Phase] /\ at' \in [Callers -> Pids \cup {NoPid}]
BY DEF ProcTypeOK, Settle

(* The start that has an environment and a pid.                               *)
Spawns(c, p) ==
  /\ pc' = [pc EXCEPT ![c] = "await"] /\ at' = [at EXCEPT ![c] = p]
  /\ proc' = [proc EXCEPT ![p] = "starting"] /\ line' = [line EXCEPT ![p] = "none"]
  /\ child' = p /\ strays' = (Lost(c) \ {p}) \cup (IF quitting THEN {p} ELSE {})

LEMMA SpawnsOne ==
  ASSUME NEW c \in Callers, Spawn(c)
  PROVE  \/ pc' = [pc EXCEPT ![c] = "failed"] /\ UNCHANGED <<childVars, at, strays>>
         \/ \E p \in Pids : Spawns(c, p)
BY FreePid DEF Spawn, Spawns, Free

LEMMA CallerKeepsTypes ==
  ASSUME ProcTypeOK, NEW c \in Callers,
         \/ Rests(c) \/ AsksManager(c) \/ Stops(c) \/ LastStopEnds(c)
         \/ Restart(c) \/ Spawn(c) \/ ReadyTimeout(c)
  PROVE  ProcTypeOK'
<1>1. CASE Rests(c) BY <1>1 DEF ProcTypeOK, Rests, childVars, raced, Phase
<1>2. CASE AsksManager(c)
  <2>1. CASE BeginStart(c) /\ UNCHANGED strays
    BY <1>2, <2>1, BeginStartTypes DEF ProcTypeOK, AsksManager, childVars
  <2>2. CASE session # NoPid /\ UNCHANGED raced /\ pc' = [pc EXCEPT ![c] = "have"]
             /\ at' = [at EXCEPT ![c] = session]
    BY <1>2, <2>2 DEF ProcTypeOK, AsksManager, childVars, raced, Phase
  <2> QED BY <1>2, <2>1, <2>2 DEF AsksManager, Ask
<1>3. CASE Stops(c)
  <2>1. proc' \in [Pids -> Life] BY <1>3, KillTypes DEF ProcTypeOK, Stops, Stop
  <2>2. crossed' \subseteq Callers /\ strays' \subseteq Pids
    BY <1>3, StraysTypes DEF ProcTypeOK, Stops, Stop, Cross, Starting
  <2>3. quitting' \in BOOLEAN BY <1>3 DEF ProcTypeOK, Stops
  <2> QED BY <1>3, <2>1, <2>2, <2>3 DEF ProcTypeOK, Stops, Stop, Phase
<1>4. CASE LastStopEnds(c)
  BY <1>4, StraysTypes DEF ProcTypeOK, LastStopEnds, Forget, Uncross, Phase
<1>5. CASE Restart(c) BY <1>5, BeginStartTypes, StraysTypes DEF ProcTypeOK, Restart, Forget
<1>6. CASE Spawn(c)
  <2>1. crossed' \subseteq Callers BY <1>6 DEF ProcTypeOK, Spawn, Uncross
  <2>2. CASE /\ pc' = [pc EXCEPT ![c] = "failed"] /\ UNCHANGED <<childVars, at, strays>>
    BY <1>6, <2>1, <2>2 DEF ProcTypeOK, Spawn, childVars, Phase
  <2>3. ASSUME NEW p \in Pids, Spawns(c, p) PROVE ProcTypeOK'
    BY <1>6, <2>1, <2>3, StraysTypes DEF ProcTypeOK, Spawn, Spawns, Phase, Life
  <2> QED BY <1>6, <2>2, <2>3, SpawnsOne
<1>7. CASE ReadyTimeout(c) BY <1>7, StraysTypes DEF ProcTypeOK, ReadyTimeout, Phase, Life
<1> QED BY <1>1, <1>2, <1>3, <1>4, <1>5, <1>6, <1>7

LEMMA ChildKeepsTypes ==
  ASSUME ProcTypeOK, NEW p \in Pids, ChildEvent(p) \/ PrintReady(p) \/ LoseLine(p) \/ Crash(p)
  PROVE  ProcTypeOK'
<1> USE DEF raced
<1>1. CASE ReadyLine(p) BY <1>1, SettleTypes DEF ProcTypeOK, ReadyLine, Phase
<1>2. CASE GarbageLine(p)
  BY <1>2, SettleTypes, StraysTypes DEF ProcTypeOK, GarbageLine, Phase, Life
<1>3. CASE ChildExits(p) BY <1>3, SettleTypes DEF ProcTypeOK, ChildExits, Phase, Life
<1>4. CASE PrintReady(p) BY <1>4 DEF ProcTypeOK, PrintReady, Life
<1>5. CASE LoseLine(p) BY <1>5 DEF ProcTypeOK, LoseLine
<1>6. CASE Crash(p) BY <1>6, KillTypes, StraysTypes DEF ProcTypeOK, Crash
<1> QED BY <1>1, <1>2, <1>3, <1>4, <1>5, <1>6 DEF ChildEvent

-------------------------------------------------------------------------------
(* The processes.  A start or a stop that meets no other start finds no       *)
(* daemon alive in this.child when it sets that field, and so loses none.     *)

NoneAlive == \A p \in Pids : ~Alive(p)

(* A daemon that no session was made of is waited for.                        *)
ChildIsAwaited ==
  session = NoPid /\ Alive(child) => \E c \in Callers : pc[c] = "await" /\ at[c] = child

StartsAlone ==
  \A c \in Callers \ crossed :
    pc[c] = "env" => Starting \cup Stopping = {c} /\ ~Alive(child)

StopsAlone == \A c \in Callers \ crossed : pc[c] = "tree" => Starting = {} /\ ~Alive(child)

QuitLeaves == quitting => \A p \in Pids : Alive(p) => p \in strays

Kept == OneDaemon /\ ChildIsAwaited /\ StartsAlone /\ StopsAlone /\ QuitLeaves
ManagerInv == ProcTypeOK /\ Kept

(* A step of a caller that leaves the processes alone.                        *)
LEMMA RestFrame ==
  ASSUME ManagerInv, ProcTypeOK', NEW c \in Callers, pc[c] \in Resting,
         NEW phase \in Resting, pc' = [pc EXCEPT ![c] = phase],
         NEW a, at' = at \/ at' = [at EXCEPT ![c] = a],
         UNCHANGED <<childVars, quitting, strays>>, UNCHANGED crossed \/ Uncross(c)
  PROVE  ManagerInv'
<1>1. Starting' = Starting /\ Stopping' = Stopping
  BY DEF ManagerInv, ProcTypeOK, Resting, Starting, Stopping
<1>2. \A d \in Callers : /\ pc'[d] \in {"env", "await", "tree"} <=> pc[d] \in {"env", "await", "tree"}
                         /\ pc[d] \in {"env", "await", "tree"} => pc[d] = pc'[d] /\ at'[d] = at[d]
  BY DEF ManagerInv, ProcTypeOK, Resting
<1>3. \A d \in Callers : pc'[d] \in {"env", "tree"} => (d \in crossed' <=> d \in crossed)
  BY <1>2 DEF Uncross, ManagerInv, ProcTypeOK, Resting
<1>4. \A p : Alive(p)' <=> Alive(p) BY DEF Alive, childVars
<1>5. OneDaemon' /\ QuitLeaves' BY <1>4 DEF ManagerInv, Kept, OneDaemon, QuitLeaves, childVars
<1>6. ChildIsAwaited' BY <1>2, <1>4 DEF ManagerInv, Kept, ChildIsAwaited, childVars
<1>7. StartsAlone' /\ StopsAlone'
  BY <1>1, <1>2, <1>3, <1>4 DEF ManagerInv, Kept, StartsAlone, StopsAlone, childVars
<1> QED BY <1>5, <1>6, <1>7 DEF ManagerInv, Kept

LEMMA RestsKeep == ASSUME ManagerInv, NEW c \in Callers, Rests(c) PROVE ManagerInv'
<1>1. ProcTypeOK' BY CallerKeepsTypes DEF ManagerInv
<1>2. PICK phase \in {"idle", "native", "reading", "backoff"} : pc' = [pc EXCEPT ![c] = phase]
  BY DEF Rests
<1> QED BY <1>1, <1>2, RestFrame DEF Rests, Resting, raced

(* A start begins: who starts or stops meanwhile has met it.                  *)
LEMMA StartFrame ==
  ASSUME ManagerInv, ProcTypeOK', NEW c \in Callers, pc[c] \in Resting \cup {"tree"},
         pc' = [pc EXCEPT ![c] = "env"], at' = [at EXCEPT ![c] = NoPid],
         Cross(c, (Starting \cup Stopping) \ {c}), UNCHANGED <<proc, quitting>>,
         (Starting \cup Stopping) \ {c} = {} => ~Alive(child)',
         OneDaemon', ChildIsAwaited', strays \subseteq strays'
  PROVE  ManagerInv'
<1>1. /\ pc'[c] = "env" /\ \A d \in Callers \ {c} : pc'[d] = pc[d]
      /\ \A p : Alive(p)' <=> Alive(p)
  BY DEF ManagerInv, ProcTypeOK, Alive
<1>2. Starting' = Starting \cup {c} /\ Stopping' = Stopping \ {c}
  BY <1>1 DEF Starting, Stopping, Resting
<1>3. \A d \in Callers \ {c} : pc'[d] \in {"env", "tree"} => d \in crossed'
  <2> SUFFICES ASSUME NEW d \in Callers \ {c}, pc'[d] \in {"env", "tree"} PROVE d \in crossed'
    OBVIOUS
  <2>1. d \in (Starting \cup Stopping) \ {c} /\ pc[d] # "await" BY <1>1 DEF Starting, Stopping
  <2> QED BY <2>1 DEF Cross
<1>4. c \notin crossed' => (Starting \cup Stopping) \ {c} = {} BY DEF Cross
<1>5. StartsAlone' BY <1>1, <1>2, <1>3, <1>4 DEF StartsAlone
<1>6. StopsAlone' BY <1>1, <1>3 DEF StopsAlone
<1>7. QuitLeaves' BY <1>1 DEF ManagerInv, Kept, QuitLeaves
<1> QED BY <1>5, <1>6, <1>7 DEF ManagerInv, Kept

LEMMA AsksKeep == ASSUME ManagerInv, NEW c \in Callers, AsksManager(c) PROVE ManagerInv'
<1>1. ProcTypeOK' BY CallerKeepsTypes DEF ManagerInv
<1>2. CASE /\ UNCHANGED raced /\ pc' = [pc EXCEPT ![c] = "have"]
           /\ at' = [at EXCEPT ![c] = session]
  BY <1>1, <1>2, RestFrame DEF AsksManager, Resting, raced
<1>3. CASE /\ session = NoPid /\ UNCHANGED strays /\ at' = [at EXCEPT ![c] = NoPid]
           /\ pc' = [pc EXCEPT ![c] = "failed"] /\ Uncross(c)
  BY <1>1, <1>3, RestFrame DEF AsksManager, Resting
<1>4. CASE /\ session = NoPid /\ UNCHANGED strays /\ at' = [at EXCEPT ![c] = NoPid]
           /\ pc' = [pc EXCEPT ![c] = "env"] /\ Cross(c, (Starting \cup Stopping) \ {c})
  <2>1. \A p : Alive(p)' <=> Alive(p) BY DEF AsksManager, Alive, childVars
  <2>2. OneDaemon' BY <1>4, <2>1 DEF ManagerInv, Kept, OneDaemon, AsksManager, childVars
  <2>3. ChildIsAwaited'
    BY <1>4, <2>1 DEF ManagerInv, Kept, ProcTypeOK, ChildIsAwaited, AsksManager, childVars, Resting
  <2>4. (Starting \cup Stopping) \ {c} = {} => ~Alive(child)'
    BY <1>4, <2>1 DEF ManagerInv, Kept, ChildIsAwaited, AsksManager, childVars, Resting, Starting
  <2> QED BY <1>1, <1>4, <2>2, <2>3, <2>4, StartFrame DEF AsksManager, childVars
<1> QED BY <1>2, <1>3, <1>4 DEF AsksManager, Ask, BeginStart

(* Who stops kills this.child, and has met every start under way.             *)
LEMMA StopsKeep == ASSUME ManagerInv, NEW c \in Callers, Stops(c) PROVE ManagerInv'
<1>1. ProcTypeOK' BY CallerKeepsTypes DEF ManagerInv
<1>2. pc' = [pc EXCEPT ![c] = "tree"] /\ Cross(c, Starting \ {c}) /\ DeadAreNone
      /\ UNCHANGED <<line, child, session>>
  BY DEF Stops, Stop
<1>3. ~Alive(child)' /\ \A p \in Pids : Alive(p)' => Alive(p)
  <2>1. ASSUME NEW p \in Pids PROVE Alive(p)' => Alive(p)
    <3>1. proc'[p] \in {proc[p], Kill(p)[p]} BY DEF Stops, Stop
    <3> QED BY <3>1 DEF Kill, Alive, ManagerInv, ProcTypeOK
  <2>2. CASE child \in Pids
    <3>1. proc'[child] = Kill(child)[child] BY <2>2 DEF Stops, Stop
    <3>2. proc'[child] \notin {"starting", "serving"}
      BY <2>2, <3>1 DEF Kill, Alive, ManagerInv, ProcTypeOK
    <3> QED BY <1>2, <2>1, <3>2 DEF Alive
  <2>3. CASE child \notin Pids BY <1>2, <2>1, <2>3 DEF Alive
  <2> QED BY <2>2, <2>3
<1>4. \A p \in Pids : Alive(p)' => p \in strays'
  BY <1>2, <1>3 DEF ManagerInv, Kept, OneDaemon, DeadAreNone
<1>5. OneDaemon' /\ QuitLeaves' /\ ChildIsAwaited' BY <1>3, <1>4 DEF OneDaemon, QuitLeaves, ChildIsAwaited
<1>6. /\ pc'[c] = "tree" /\ \A d \in Callers \ {c} : pc'[d] = pc[d]
      /\ Starting' = Starting /\ c \notin Starting
  BY <1>2 DEF Stops, Resting, ManagerInv, ProcTypeOK, Starting
<1>7. StartsAlone'
  <2>1. ASSUME NEW d \in Callers \ {c}, pc[d] = "env" PROVE d \in crossed'
    BY <1>2, <2>1 DEF Cross, Starting
  <2> QED BY <1>6, <2>1 DEF StartsAlone
<1>8. StopsAlone'
  <2> SUFFICES ASSUME NEW d \in Callers \ crossed', pc'[d] = "tree" PROVE Starting' = {}
    BY <1>3 DEF StopsAlone
  <2>1. CASE d = c BY <1>2, <1>6, <2>1 DEF Cross
  <2>2. CASE d # c
    <3>1. CASE Starting \ {c} = {} BY <1>6, <3>1
    <3>2. CASE Starting \ {c} # {}
      <4>1. d \notin crossed /\ pc[d] = "tree" BY <1>2, <1>6, <2>2, <3>2 DEF Cross
      <4> QED BY <1>6, <4>1 DEF ManagerInv, Kept, StopsAlone
    <3> QED BY <3>1, <3>2
  <2> QED BY <2>1, <2>2
<1> QED BY <1>1, <1>5, <1>7, <1>8 DEF ManagerInv, Kept

(* this.child is forgotten: it was killed before, or is lost now.             *)
LEMMA ForgetLoses ==
  ASSUME ManagerInv, NEW c \in Callers, pc[c] = "tree", Forget(c)
  PROVE  /\ OneDaemon' /\ ChildIsAwaited' /\ ~Alive(child)' /\ strays \subseteq strays'
         /\ \A p : Alive(p)' <=> Alive(p)
<1>1. \A p : Alive(p)' <=> Alive(p) BY DEF Forget, Alive
<1>2. ~Alive(child)' BY PidsAssumption DEF Forget, Alive
<1>3. OneDaemon'
  <2> SUFFICES ASSUME NEW p \in Pids, Alive(p) PROVE p \in Lost(c)
    BY <1>1 DEF OneDaemon, Forget
  <2>1. CASE p \in strays BY <2>1 DEF Lost
  <2>2. CASE p = child BY <2>2 DEF Lost, ManagerInv, Kept, StopsAlone
  <2> QED BY <2>1, <2>2 DEF ManagerInv, Kept, OneDaemon
<1>4. strays \subseteq strays' BY DEF Forget, Lost
<1> QED BY <1>1, <1>2, <1>3, <1>4 DEF ChildIsAwaited

(* A stop is over, and no start follows.                                      *)
LEMMA StopOverFrame ==
  ASSUME ManagerInv, ProcTypeOK', NEW c \in Callers, pc[c] = "tree", Forget(c), Uncross(c),
         NEW phase \in {"idle", "failed"}, pc' = [pc EXCEPT ![c] = phase],
         UNCHANGED quitting
  PROVE  ManagerInv'
<1>1. /\ OneDaemon' /\ ChildIsAwaited' /\ ~Alive(child)' /\ strays \subseteq strays'
      /\ \A p : Alive(p)' <=> Alive(p)
  BY ForgetLoses
<1>2. pc'[c] = phase /\ \A d \in Callers \ {c} : pc'[d] = pc[d] /\ (d \in crossed' <=> d \in crossed)
  BY DEF ManagerInv, ProcTypeOK, Uncross
<1>3. Starting' = Starting /\ Stopping' = Stopping \ {c} BY <1>2 DEF Starting, Stopping
<1>4. StartsAlone'
  <2> SUFFICES ASSUME NEW d \in Callers \ crossed', pc'[d] = "env"
               PROVE  Starting' \cup Stopping' = {d}
    BY <1>1 DEF StartsAlone
  <2>1. d # c /\ d \notin crossed /\ pc[d] = "env" BY <1>2
  <2>2. Starting \cup Stopping = {d} BY <2>1 DEF ManagerInv, Kept, StartsAlone
  <2>3. c \in Stopping BY DEF Stopping
  <2> QED BY <2>1, <2>2, <2>3
<1>5. StopsAlone' BY <1>1, <1>2, <1>3 DEF ManagerInv, Kept, StopsAlone
<1>6. QuitLeaves' BY <1>1 DEF ManagerInv, Kept, QuitLeaves
<1> QED BY <1>1, <1>4, <1>5, <1>6 DEF ManagerInv, Kept

LEMMA LastStopEndsKeeps ==
  ASSUME ManagerInv, NEW c \in Callers, LastStopEnds(c) PROVE ManagerInv'
<1>1. ProcTypeOK' BY CallerKeepsTypes DEF ManagerInv
<1> QED BY <1>1, StopOverFrame DEF LastStopEnds

LEMMA RestartKeeps ==
  ASSUME ManagerInv, NEW c \in Callers, Restart(c) PROVE ManagerInv'
<1>1. ProcTypeOK' BY CallerKeepsTypes DEF ManagerInv
<1>2. CASE pc' = [pc EXCEPT ![c] = "failed"] /\ Uncross(c)
  BY <1>1, <1>2, StopOverFrame DEF Restart
<1>3. CASE /\ at' = [at EXCEPT ![c] = NoPid] /\ pc' = [pc EXCEPT ![c] = "env"]
           /\ Cross(c, (Starting \cup Stopping) \ {c})
  BY <1>1, <1>3, ForgetLoses, StartFrame DEF Restart, Forget
<1> QED BY <1>2, <1>3 DEF Restart, BeginStart

(* The new daemon takes the place of one that is dead, or lost by that.       *)
LEMMA SpawnKeeps ==
  ASSUME ManagerInv, NEW c \in Callers, Spawn(c) PROVE ManagerInv'
<1>1. ProcTypeOK' BY CallerKeepsTypes DEF ManagerInv
<1>2. pc[c] = "env" /\ Uncross(c) /\ UNCHANGED <<session, quitting>> BY DEF Spawn
<1>3. \A d \in Callers \ {c} : d \in crossed' <=> d \in crossed BY <1>2 DEF Uncross
<1>4. \A d \in Callers \ {c} : (d \notin crossed /\ pc[d] = "env") \/ (d \notin crossed /\ pc[d] = "tree") => FALSE
  BY <1>2 DEF ManagerInv, Kept, StartsAlone, StopsAlone, Starting
<1>5. CASE pc' = [pc EXCEPT ![c] = "failed"] /\ UNCHANGED <<childVars, at, strays>>
  <2>1. pc'[c] = "failed" /\ \A d \in Callers \ {c} : pc'[d] = pc[d]
    BY <1>5 DEF ManagerInv, ProcTypeOK
  <2>2. StartsAlone' /\ StopsAlone' BY <1>3, <1>4, <2>1 DEF StartsAlone, StopsAlone
  <2>3. \A p : Alive(p)' <=> Alive(p) BY <1>5 DEF Alive, childVars
  <2>4. OneDaemon' /\ QuitLeaves' /\ ChildIsAwaited'
    BY <1>2, <1>5, <2>1, <2>3 DEF ManagerInv, Kept, OneDaemon, QuitLeaves, ChildIsAwaited, childVars
  <2> QED BY <1>1, <2>2, <2>4 DEF ManagerInv, Kept
<1>6. ASSUME NEW p \in Pids, Spawns(c, p) PROVE ManagerInv'
  <2>1. /\ pc'[c] = "await" /\ at'[c] = p /\ child' = p
        /\ \A d \in Callers \ {c} : pc'[d] = pc[d]
        /\ strays' = (Lost(c) \ {p}) \cup (IF quitting THEN {p} ELSE {})
    BY <1>6 DEF Spawns, ManagerInv, ProcTypeOK
  <2>2. StartsAlone' /\ StopsAlone' BY <1>3, <1>4, <2>1 DEF StartsAlone, StopsAlone
  <2>3. \A q \in Pids \ {p} : Alive(q)' => Alive(q) BY <1>6 DEF Spawns, Alive, ManagerInv, ProcTypeOK
  <2>4. \A q \in Pids \ {p} : Alive(q) => q \in Lost(c)
    <3> SUFFICES ASSUME NEW q \in Pids \ {p}, Alive(q), q \notin strays PROVE q \in Lost(c)
      BY DEF Lost
    <3>1. q = child BY DEF ManagerInv, Kept, OneDaemon
    <3>2. c \in crossed BY <1>2, <3>1 DEF ManagerInv, Kept, StartsAlone
    <3> QED BY <3>1, <3>2 DEF Lost
  <2>5. OneDaemon' BY <2>1, <2>3, <2>4 DEF OneDaemon
  <2>6. QuitLeaves' BY <1>2, <2>1, <2>3, <2>4 DEF QuitLeaves
  <2>7. ChildIsAwaited' BY <2>1 DEF ChildIsAwaited
  <2> QED BY <1>1, <2>2, <2>5, <2>6, <2>7 DEF ManagerInv, Kept
<1> QED BY <1>5, <1>6, SpawnsOne

(* Some who wait for p do so no longer, and no process comes to life: what p  *)
(* was, if it was this.child, it is not any more, or it has become a session. *)
LEMMA WaitOverFrame ==
  ASSUME ManagerInv, ProcTypeOK', NEW p,
         \A d \in Callers : \/ pc'[d] = pc[d] /\ at'[d] = at[d]
                            \/ pc[d] = "await" /\ at[d] = p /\ pc'[d] \in {"have", "failed"},
         \A q \in Pids : Alive(q)' => Alive(q), ~Alive(p)' \/ session' # NoPid,
         DeadAreNone \/ UNCHANGED strays,
         session' = session \/ session' # NoPid, UNCHANGED <<child, quitting, crossed>>
  PROVE  ManagerInv'
<1>1. Starting' \subseteq Starting /\ Stopping' = Stopping BY DEF Starting, Stopping
<1>2. \A d \in Callers : /\ pc'[d] = "env" <=> pc[d] = "env"
                         /\ pc'[d] = "tree" <=> pc[d] = "tree"
  OBVIOUS
<1>3. Alive(child)' => Alive(child) BY DEF Alive
<1>4. \A q \in Pids : Alive(q)' /\ q \in strays => q \in strays' BY DEF DeadAreNone
<1>5. OneDaemon' /\ QuitLeaves' BY <1>4 DEF ManagerInv, Kept, OneDaemon, QuitLeaves
<1>6. StartsAlone'
  <2> SUFFICES ASSUME NEW d \in Callers \ crossed, pc'[d] = "env"
               PROVE  Starting' \cup Stopping' = {d}
    BY <1>2, <1>3 DEF ManagerInv, Kept, StartsAlone
  <2>1. Starting \cup Stopping = {d} BY <1>2 DEF ManagerInv, Kept, StartsAlone
  <2>2. d \in Starting' BY DEF Starting
  <2> QED BY <1>1, <2>1, <2>2
<1>7. StopsAlone' BY <1>1, <1>2, <1>3 DEF ManagerInv, Kept, StopsAlone
<1>8. ChildIsAwaited'
  <2> SUFFICES ASSUME session' = NoPid, Alive(child)'
               PROVE  \E d \in Callers : pc'[d] = "await" /\ at'[d] = child
    BY DEF ChildIsAwaited
  <2>1. PICK d \in Callers : pc[d] = "await" /\ at[d] = child
    BY <1>3 DEF ManagerInv, Kept, ChildIsAwaited
  <2>2. child # p OBVIOUS
  <2> QED BY <2>1, <2>2
<1> QED BY <1>5, <1>6, <1>7, <1>8 DEF ManagerInv, Kept

LEMMA ReadyTimeoutKeeps ==
  ASSUME ManagerInv, NEW c \in Callers, ReadyTimeout(c) PROVE ManagerInv'
<1>1. ProcTypeOK' BY CallerKeepsTypes DEF ManagerInv
<1>2. PICK p \in Pids \cup {NoPid} : p = at[c] BY DEF ManagerInv, ProcTypeOK
<1>3. /\ proc' = [proc EXCEPT ![p] = "none"] /\ pc[c] = "await" /\ pc' = [pc EXCEPT ![c] = "failed"]
      /\ at' = [at EXCEPT ![c] = NoPid]
      /\ DeadAreNone /\ UNCHANGED <<line, child, session, quitting, crossed>>
  BY <1>2 DEF ReadyTimeout
<1>4. \A d \in Callers : \/ pc'[d] = pc[d] /\ at'[d] = at[d]
                         \/ pc[d] = "await" /\ at[d] = p /\ pc'[d] \in {"have", "failed"}
  BY <1>2, <1>3 DEF ManagerInv, ProcTypeOK
<1>5. ~Alive(p)' /\ \A q \in Pids : Alive(q)' => Alive(q)
  BY <1>3 DEF ManagerInv, ProcTypeOK, Alive
<1> QED BY <1>1, <1>3, <1>4, <1>5, WaitOverFrame

LEMMA SettledWait ==
  ASSUME ProcTypeOK, NEW p \in Pids, NEW phase \in {"have", "failed"}, Settle(p, phase)
  PROVE  \A d \in Callers : \/ pc'[d] = pc[d] /\ at'[d] = at[d]
                            \/ pc[d] = "await" /\ at[d] = p /\ pc'[d] \in {"have", "failed"}
BY DEF Settle, Waiting

(* Processes come to no new life, and the manager sees nothing of it.         *)
LEMMA UnseenFrame ==
  ASSUME ManagerInv, ProcTypeOK', \A q \in Pids : Alive(q)' => Alive(q),
         DeadAreNone \/ UNCHANGED strays,
         UNCHANGED <<child, session, quitting, pc, at, crossed>>
  PROVE  ManagerInv'
<1>1. Starting' = Starting /\ Stopping' = Stopping BY DEF Starting, Stopping
<1>2. Alive(child)' => Alive(child) BY DEF Alive
<1>3. \A q \in Pids : Alive(q)' /\ q \in strays => q \in strays' BY DEF DeadAreNone
<1> QED BY <1>1, <1>2, <1>3
        DEF ManagerInv, Kept, OneDaemon, QuitLeaves, ChildIsAwaited, StartsAlone, StopsAlone

LEMMA ChildKeeps ==
  ASSUME ManagerInv, NEW p \in Pids, ChildEvent(p) \/ PrintReady(p) \/ LoseLine(p) \/ Crash(p)
  PROVE  ManagerInv'
<1>1. ProcTypeOK' BY ChildKeepsTypes DEF ManagerInv
<1>2. CASE ReadyLine(p)
  <2>1. session' # NoPid BY <1>2, PidsAssumption DEF ReadyLine
  <2>2. \A q \in Pids : Alive(q)' => Alive(q) BY <1>2 DEF ReadyLine, Alive
  <2>3. \A d \in Callers : \/ pc'[d] = pc[d] /\ at'[d] = at[d]
                           \/ pc[d] = "await" /\ at[d] = p /\ pc'[d] \in {"have", "failed"}
    BY <1>2, SettledWait DEF ReadyLine, ManagerInv
  <2> QED BY <1>1, <1>2, <2>1, <2>2, <2>3, WaitOverFrame DEF ReadyLine, raced
<1>3. CASE GarbageLine(p)
  <2>1. ~Alive(p)' /\ \A q \in Pids : Alive(q)' => Alive(q)
    BY <1>3 DEF GarbageLine, Alive, ManagerInv, ProcTypeOK
  <2>2. \A d \in Callers : \/ pc'[d] = pc[d] /\ at'[d] = at[d]
                           \/ pc[d] = "await" /\ at[d] = p /\ pc'[d] \in {"have", "failed"}
    BY <1>3, SettledWait DEF GarbageLine, ManagerInv
  <2> QED BY <1>1, <1>3, <2>1, <2>2, WaitOverFrame DEF GarbageLine
<1>4. CASE ChildExits(p) /\ session = NoPid
  <2>1. ~Alive(p)' /\ \A q \in Pids : Alive(q)' => Alive(q)
    BY <1>4 DEF ChildExits, Alive, ManagerInv, ProcTypeOK
  <2>2. \A d \in Callers : \/ pc'[d] = pc[d] /\ at'[d] = at[d]
                           \/ pc[d] = "await" /\ at[d] = p /\ pc'[d] \in {"have", "failed"}
    BY <1>4, SettledWait DEF ChildExits, ManagerInv
  <2> QED BY <1>1, <1>4, <2>1, <2>2, WaitOverFrame DEF ChildExits, raced
<1>5. CASE ChildExits(p) /\ session # NoPid
  <2>1. \A q \in Pids : Alive(q)' => Alive(q)
    BY <1>5 DEF ChildExits, Alive, ManagerInv, ProcTypeOK
  <2> QED BY <1>1, <1>5, <2>1, UnseenFrame DEF ChildExits, raced
<1>6. CASE PrintReady(p)
  <2>1. \A q \in Pids : Alive(q)' => Alive(q)
    BY <1>6 DEF PrintReady, Alive, ManagerInv, ProcTypeOK
  <2> QED BY <1>1, <1>6, <2>1, UnseenFrame DEF PrintReady, raced
<1>7. CASE LoseLine(p) BY <1>1, <1>7, UnseenFrame DEF LoseLine, Alive, raced
<1>8. CASE Crash(p)
  <2>1. \A q \in Pids : Alive(q)' => Alive(q)
    BY <1>8 DEF Crash, Kill, Alive, ManagerInv, ProcTypeOK
  <2> QED BY <1>1, <1>8, <2>1, UnseenFrame DEF Crash
<1> QED BY <1>2, <1>3, <1>4, <1>5, <1>6, <1>7, <1>8 DEF ChildEvent

LEMMA ManagerInit == ASSUME ProcInit PROVE ManagerInv
<1>1. ProcTypeOK BY DEF ProcInit, ProcTypeOK, Life, Phase
<1>2. (\A p : ~Alive(p)) /\ Starting = {} BY DEF ProcInit, Alive, Starting
<1>3. \A c \in Callers : pc[c] = "idle" BY DEF ProcInit
<1> QED BY <1>1, <1>2, <1>3
        DEF ManagerInv, Kept, OneDaemon, QuitLeaves, ChildIsAwaited, StartsAlone, StopsAlone

LEMMA ManagerStep == ASSUME ManagerInv, [ManagerNext]_procVars PROVE ManagerInv'
<1>1. CASE UNCHANGED procVars
  <2>1. ProcTypeOK' BY <1>1 DEF ManagerInv, ProcTypeOK, procVars, childVars, raced
  <2> QED BY <1>1, <2>1, UnseenFrame DEF procVars, childVars, raced, Alive
<1>2. ASSUME NEW c \in Callers, \/ Rests(c) \/ AsksManager(c) \/ Stops(c) \/ LastStopEnds(c)
                               \/ Restart(c) \/ Spawn(c) \/ ReadyTimeout(c)
      PROVE  ManagerInv'
  BY <1>2, RestsKeep, AsksKeep, StopsKeep, LastStopEndsKeeps, RestartKeeps, SpawnKeeps,
     ReadyTimeoutKeeps
<1> QED BY <1>1, <1>2, ChildKeeps DEF ManagerNext

(* The invariant of the manager: it holds for whatever callers it may have.   *)
THEOREM ManagerInvariant == ManagerSpec => []ManagerInv
<1>1. ProcInit => ManagerInv BY ManagerInit
<1>2. ManagerInv /\ [ManagerNext]_procVars => ManagerInv' BY ManagerStep
<1> QED BY <1>1, <1>2, PTL DEF ManagerSpec

(* Every daemon that runs is this.child, the one that stop() kills, or one    *)
(* that a start or a stop has lost which met another start, and that nothing  *)
(* else can lose: neither timeouts, garbage, crashes, missing executables nor *)
(* restarts, in any order and after any such meeting (daemonProcess.ts).      *)
THEOREM OneDaemonHolds == Spec => []OneDaemon
<1>1. ManagerInv => OneDaemon BY DEF ManagerInv, Kept
<1> QED BY <1>1, RefinesManager, ManagerInvariant, PTL

(* From the stop of before-quit on no daemon runs but those that were lost so *)
(* before it or by it: not even while calls are still under way.              *)
THEOREM QuitLeavesNoneHolds ==
  Spec => [](QuitLeavesNone /\ (quitting => \A p \in Pids : Alive(p) => p \in strays))
<1>1. ManagerInv => QuitLeavesNone /\ (quitting => \A p \in Pids : Alive(p) => p \in strays)
  BY DEF ManagerInv, Kept, QuitLeaves, QuitLeavesNone, Over
<1> QED BY <1>1, RefinesManager, ManagerInvariant, PTL

-------------------------------------------------------------------------------
(* The calls *)

OpsOK == /\ op \in [Callers -> Op] /\ synced \in BOOLEAN
         /\ menu \in [Callers -> SUBSET Op]

(* The steps that send the body, and the ones after the daemon has handled it. *)
Posts == {"post", "resend", "repost"}
Handled == {"answer", "get"}

(* A job is made by the request that leads to the last two steps of a call,   *)
(* and nowhere else.  If it is to have a key, the body carries a reference    *)
(* whenever it is sent, and so the job has the key.                           *)
JobTypes ==
  /\ step \in [Callers -> Step] /\ want \in [Callers -> Wants] /\ ref \in [Callers -> Refs]
  /\ keyed \in [Callers -> BOOLEAN] /\ made \in [Callers -> 0..1]
JobOK(c) ==
  /\ pc[c] = "idle" => step[c] = "none"
  /\ made[c] = 1 <=> step[c] \in Handled
  /\ want[c] = "wanted" => /\ step[c] \in Handled => keyed[c]
                           /\ step[c] \in Posts => ref[c] # NoPid
JobsOK == JobTypes /\ \A c \in Callers : JobOK(c)

(* A stream has an attempt left, unless it waits after a failed one.          *)
StreamsOK ==
  /\ conn \in [Callers -> Pids \cup {NoPid}] /\ tries \in [Callers -> 0..MaxTries]
  /\ aborted \in [Callers -> BOOLEAN]
  /\ \A c \in Callers :
       /\ pc[c] \in {"reading", "backoff"} => step[c] \in {"connect", "resync"}
       /\ step[c] \in {"connect", "resync"} /\ pc[c] # "backoff" => tries[c] < MaxTries

CallInv == ProcTypeOK /\ OpsOK /\ JobsOK /\ StreamsOK

(* A caller goes on to wait for something.                                    *)
Onward(c) ==
  \E phase \in {"have", "failed", "env", "tree", "native"} : pc' = [pc EXCEPT ![c] = phase]

LEMMA RequestOnward ==
  ASSUME NEW c \in Callers, NEW s, Request(c, s) PROVE Go(c, s) /\ Onward(c)
BY DEF Request, Ask, BeginStart, Onward

LEMMA RepairOnward ==
  ASSUME NEW c \in Callers, NEW s, Repair(c, s) PROVE Go(c, s) /\ Onward(c)
BY DEF Repair, Stop, Onward

LEMMA LookOnward ==
  ASSUME NEW c \in Callers, NEW s, LookAtFFmpeg(c, s) PROVE Go(c, s) /\ Onward(c)
BY DEF LookAtFFmpeg, Onward

(* What a call does for its job, with what it leaves alone.                   *)
LEMMA JobGoesOn ==
  ASSUME CallInv, NEW c \in Callers, Onward(c), step[c] \notin Handled,
         NEW s \in Step \ Handled, Go(c, s), UNCHANGED <<made, keyed>>,
         NEW r \in Refs, ref' = ref \/ ref' = [ref EXCEPT ![c] = r],
         NEW w \in Wants, want' = want \/ want' = [want EXCEPT ![c] = w],
         s \in Posts => want'[c] # "wanted" \/ ref'[c] # NoPid
  PROVE  JobsOK'
<1>1. JobTypes' BY DEF CallInv, JobsOK, JobTypes, Go
<1>2. pc'[c] # "idle" /\ step'[c] = s /\ made'[c] = 0
  BY DEF CallInv, ProcTypeOK, JobsOK, JobTypes, JobOK, Onward, Go
<1>3. ASSUME NEW d \in Callers \ {c}
      PROVE  UNCHANGED <<pc[d], step[d], made[d], keyed[d], ref[d], want[d]>>
  BY DEF CallInv, ProcTypeOK, JobsOK, JobTypes, Onward, Go
<1>4. ASSUME NEW d \in Callers \ {c} PROVE JobOK(d)'
  BY <1>3 DEF CallInv, JobsOK, JobOK
<1>5. JobOK(c)' BY <1>2 DEF JobOK
<1> QED BY <1>1, <1>4, <1>5 DEF JobsOK

LEMMA JobDone == ASSUME CallInv, NEW c \in Callers, Done(c) PROVE JobsOK'
<1>1. JobTypes'
  BY DEF CallInv, JobsOK, JobTypes, Done, Go, Step, Wants, Refs
<1>2. pc'[c] = "idle" /\ step'[c] = "none" /\ made'[c] = 0
  BY DEF CallInv, ProcTypeOK, JobsOK, JobTypes, Done, Go
<1>3. ASSUME NEW d \in Callers \ {c}
      PROVE  UNCHANGED <<pc[d], step[d], made[d], ref[d], want[d]>>
  BY DEF CallInv, ProcTypeOK, JobsOK, JobTypes, Done, Go
<1>4. ASSUME NEW d \in Callers \ {c} PROVE keyed'[d] = keyed[d]
  BY Zenon DEF CallInv, JobsOK, JobTypes, Done
<1>5. ASSUME NEW d \in Callers \ {c} PROVE JobOK(d)'
  <2>1. JobOK(d) BY DEF CallInv, JobsOK
  <2> QED BY <1>3, <1>4, <2>1, Zenon DEF JobOK
<1>6. JobOK(c)' BY <1>2 DEF JobOK, Handled, Posts
<1> QED BY <1>1, <1>5, <1>6 DEF JobsOK

LEMMA JobStays ==
  ASSUME CallInv, UNCHANGED <<step, jobVars>>, \A c \in Callers : pc'[c] = "idle" => pc[c] = "idle"
  PROVE  JobsOK'
BY DEF CallInv, JobsOK, JobTypes, JobOK, jobVars

(* A reference to a pid that is used again is one to nobody.                  *)
LEMMA JobWaits ==
  ASSUME CallInv, UNCHANGED <<step, want, made, keyed>>,
         \A c \in Callers : pc'[c] = "idle" => pc[c] = "idle",
         \/ UNCHANGED ref
         \/ ref' = [d \in Callers |-> IF Spawned(ref[d]) THEN "spent" ELSE ref[d]]
  PROVE  JobsOK'
<1>1. JobTypes' BY DEF CallInv, JobsOK, JobTypes, Refs
<1>2. ASSUME NEW c \in Callers, ref[c] # NoPid PROVE ref'[c] # NoPid
  BY <1>2, RefsAssumption
<1>3. ASSUME NEW c \in Callers PROVE JobOK(c)' BY <1>2 DEF CallInv, JobsOK, JobOK
<1> QED BY <1>1, <1>3 DEF JobsOK

(* ... and what becomes of the streams when one caller goes on.               *)
LEMMA OnwardStream ==
  ASSUME CallInv, NEW c \in Callers, Onward(c), NEW s, Go(c, s)
  PROVE  /\ pc'[c] \notin {"reading", "backoff"} /\ step'[c] = s
         /\ \A d \in Callers \ {c} : pc'[d] = pc[d] /\ step'[d] = step[d]
BY DEF CallInv, ProcTypeOK, JobsOK, JobTypes, Onward, Go

LEMMA StreamGoesOn ==
  ASSUME CallInv, NEW c \in Callers, Onward(c), NEW s, Go(c, s), UNCHANGED streamVars,
         s \in {"connect", "resync"} => tries[c] < MaxTries
  PROVE  StreamsOK'
BY DEF CallInv, ProcTypeOK, JobsOK, JobTypes, StreamsOK, Onward, Go, streamVars

LEMMA StreamDone ==
  ASSUME CallInv, NEW c \in Callers, Done(c), UNCHANGED streamVars \/ StreamOver(c)
  PROVE  StreamsOK'
<1> USE TriesAssumption DEF CallInv, ProcTypeOK, JobsOK, JobTypes, StreamsOK, Done, Go
<1>1. CASE UNCHANGED streamVars BY <1>1 DEF streamVars
<1>2. CASE StreamOver(c) BY <1>2 DEF StreamOver
<1> QED BY <1>1, <1>2

LEMMA StreamStays ==
  ASSUME CallInv, UNCHANGED <<step, tries, aborted>>, conn' \in [Callers -> Pids \cup {NoPid}],
         \A c \in Callers : pc'[c] # pc[c] => pc[c] # "backoff" /\ pc'[c] \notin {"reading", "backoff"}
  PROVE  StreamsOK'
BY DEF CallInv, StreamsOK

LEMMA StreamErrorKeeps ==
  ASSUME CallInv, ProcTypeOK', NEW c \in Callers, pc[c] # "backoff",
         step[c] \in {"connect", "resync"}, StreamError(c), UNCHANGED setupVars
  PROVE  CallInv'
<1>1. CASE aborted[c]
  <2>1. StreamOver(c) /\ Done(c) BY <1>1 DEF StreamError, StreamOver
  <2>2. OpsOK' BY <2>1 DEF CallInv, OpsOK, Done, setupVars, Op
  <2> QED BY <2>1, <2>2, JobDone, StreamDone DEF CallInv
<1>2. CASE ~aborted[c]
  <2>1. /\ pc' = [pc EXCEPT ![c] = "backoff"] /\ conn' = [conn EXCEPT ![c] = NoPid]
        /\ tries' = [tries EXCEPT ![c] = @ + 1] /\ UNCHANGED <<callVars, aborted>>
    BY <1>2 DEF StreamError
  <2>2. JobsOK' BY <2>1, JobStays DEF callVars, jobVars, CallInv, ProcTypeOK
  <2>3. StreamsOK'
    BY <2>1, TriesAssumption DEF callVars, CallInv, ProcTypeOK, StreamsOK
  <2>4. OpsOK' BY <2>1 DEF CallInv, OpsOK, callVars, setupVars
  <2> QED BY <2>2, <2>3, <2>4 DEF CallInv
<1> QED BY <1>1, <1>2

LEMMA Proceeds ==
  ASSUME CallInv, ProcTypeOK', OpsOK', NEW c \in Callers, step[c] \notin Handled, Onward(c),
         NEW s \in Step \ Handled, Go(c, s), UNCHANGED <<made, keyed, streamVars>>,
         NEW r \in Refs, ref' = ref \/ ref' = [ref EXCEPT ![c] = r],
         NEW w \in Wants, want' = want \/ want' = [want EXCEPT ![c] = w],
         s \in Posts => want'[c] # "wanted" \/ ref'[c] # NoPid,
         s \in {"connect", "resync"} => tries[c] < MaxTries
  PROVE  CallInv'
BY JobGoesOn, StreamGoesOn DEF CallInv

(* ... when it has nothing to do with the making of a job.                    *)
LEMMA ProceedsElsewhere ==
  ASSUME CallInv, ProcTypeOK', OpsOK', NEW c \in Callers, step[c] \notin Handled, Onward(c),
         NEW s \in Step \ (Handled \cup Posts), Go(c, s), UNCHANGED <<jobVars, streamVars>>,
         s \in {"connect", "resync"} => tries[c] < MaxTries
  PROVE  CallInv'
BY Proceeds DEF jobVars, Refs, Wants

LEMMA Finishes ==
  ASSUME CallInv, ProcTypeOK', NEW c \in Callers, Done(c), UNCHANGED setupVars,
         UNCHANGED streamVars \/ StreamOver(c)
  PROVE  CallInv'
<1>1. OpsOK' BY DEF CallInv, OpsOK, Done, setupVars, Op
<1> QED BY <1>1, JobDone, StreamDone DEF CallInv

LEMMA RunTypes ==
  ASSUME CallInv, NEW c \in Callers, NEW o \in Op, Run(c, o), UNCHANGED synced
  PROVE  OpsOK'
BY DEF CallInv, OpsOK, Run

LEMMA BeginsKeep ==
  ASSUME CallInv, ProcTypeOK', NEW c \in Callers, Begins(c)
  PROVE  CallInv'
<1>1. pc[c] = "idle" => step[c] = "none" BY DEF CallInv, JobsOK, JobOK
<1> USE <1>1, RunTypes, RequestOnward, RepairOnward, LookOnward
    DEF Idle, Op, Repairs, Step, Handled, Posts
<1>2. CASE SingleRequest(c) BY <1>2, ProceedsElsewhere DEF SingleRequest
<1>3. CASE Check(c) BY <1>3, ProceedsElsewhere DEF Check
<1>4. CASE RepairDaemon(c) BY <1>4, ProceedsElsewhere DEF RepairDaemon
<1>5. CASE InstallFFmpeg(c) BY <1>5, ProceedsElsewhere DEF InstallFFmpeg
<1>6. CASE ClearFFmpeg(c) BY <1>6, ProceedsElsewhere DEF ClearFFmpeg
<1>7. CASE SaveKey(c) BY <1>7, ProceedsElsewhere DEF SaveKey
<1>8. ASSUME NEW media \in BOOLEAN, NEW key \in BOOLEAN, CreateJob(c, media, key) PROVE CallInv'
  <2>1. OpsOK' BY <1>8 DEF CreateJob
  <2>2. PICK w \in {"wanted", "none"} : /\ want' = [want EXCEPT ![c] = w]
                                        /\ w = "wanted" <=> key
    BY <1>8 DEF CreateJob
  <2>3. want'[c] = w BY <2>2 DEF CallInv, JobsOK, JobTypes
  <2>4. PICK s \in {"sync", "config", "post"} : Go(c, s) /\ Onward(c) /\ (s = "post" => ~key)
    BY <1>8 DEF CreateJob
  <2>5. UNCHANGED <<ref, made, keyed, streamVars>> /\ step[c] = "none" BY <1>8 DEF CreateJob
  <2>6. w \in Wants /\ NoPid \in Refs BY DEF Wants, Refs
  <2> QED BY <2>1, <2>2, <2>3, <2>4, <2>5, <2>6, Proceeds
<1>9. CASE Subscribe(c)
  <2>1. OpsOK' /\ Go(c, "connect") /\ Onward(c) BY <1>9 DEF Subscribe
  <2>2. JobsOK' BY <1>9, <2>1, JobGoesOn DEF Subscribe, jobVars, Refs, Wants
  <2>3. /\ conn' = conn /\ tries' = [tries EXCEPT ![c] = 0]
        /\ aborted' = [aborted EXCEPT ![c] = FALSE]
    BY <1>9 DEF Subscribe
  <2>4. aborted' \in [Callers -> BOOLEAN] BY <2>3, Zenon DEF CallInv, StreamsOK
  <2>5. tries' \in [Callers -> 0..MaxTries] BY <2>3, TriesAssumption DEF CallInv, StreamsOK
  <2>6. StreamsOK' BY <2>1, <2>3, <2>4, <2>5, OnwardStream, TriesAssumption DEF CallInv, StreamsOK
  <2> QED BY <2>1, <2>2, <2>6 DEF CallInv
<1>10. CASE Unsubscribe(c)
  <2>1. OpsOK' BY <1>10 DEF Unsubscribe, CallInv, OpsOK, callVars, setupVars
  <2>2. JobsOK' BY <1>10, JobStays DEF Unsubscribe, callVars, jobVars, procVars
  <2>3. StreamsOK' BY <1>10 DEF Unsubscribe, CallInv, StreamsOK, callVars, procVars
  <2> QED BY <2>1, <2>2, <2>3 DEF CallInv
<1>11. CASE Quit(c)
  <2>1. OpsOK' BY <1>11 DEF Quit
  <2>2. Go(c, "none") /\ Onward(c) BY <1>11 DEF Quit, Stop, Onward
  <2>3. JobsOK' BY <1>11, <2>2, JobGoesOn DEF Quit, jobVars, Refs, Wants
  <2>4. aborted' \in [Callers -> BOOLEAN] BY <1>11 DEF Quit, CallInv, StreamsOK
  <2>5. UNCHANGED <<conn, tries>> BY <1>11 DEF Quit
  <2>6. StreamsOK' BY <2>2, <2>4, <2>5, OnwardStream DEF CallInv, StreamsOK
  <2> QED BY <2>1, <2>3, <2>6 DEF CallInv
<1> QED BY <1>2, <1>3, <1>4, <1>5, <1>6, <1>7, <1>8, <1>9, <1>10, <1>11 DEF Begins

(* The daemon makes the job.                                                  *)
LEMMA PostHandledKeeps ==
  ASSUME CallInv, ProcTypeOK', NEW c \in Callers, NEW s \in {"post", "repost"}, PostHandled(c, s)
  PROVE  CallInv'
<1>1. /\ OpsOK' /\ step[c] = s /\ Go(c, "answer") /\ UNCHANGED <<pc, want, streamVars>>
      /\ ref[c] \in {NoPid, at[c]} /\ at[c] \in Pids
  BY DEF PostHandled, Answered, Serving, RefResolves, CallInv, OpsOK, setupVars, procVars
<1>2. StreamsOK' BY <1>1 DEF CallInv, StreamsOK, JobsOK, JobTypes, Go, streamVars
<1>3. made[c] = 0 /\ (want[c] = "wanted" => ref[c] = at[c])
  BY <1>1 DEF CallInv, JobsOK, JobTypes, JobOK, Handled, Posts
<1>4. made' = [made EXCEPT ![c] = 1] BY <1>3 DEF PostHandled
<1>5. ref' = [ref EXCEPT ![c] = IF ref[c] = NoPid THEN NoPid ELSE "spent"] BY DEF PostHandled
<1>6. keyed' = [keyed EXCEPT ![c] = (ref[c] = at[c])] BY DEF PostHandled
<1>7. keyed' \in [Callers -> BOOLEAN] BY <1>6, Zenon DEF CallInv, JobsOK, JobTypes
<1>8. JobTypes'
  <2>1. step' \in [Callers -> Step] BY <1>1 DEF CallInv, JobsOK, JobTypes, Go, Step
  <2>2. made' \in [Callers -> 0..1] BY <1>4 DEF CallInv, JobsOK, JobTypes
  <2>3. ref' \in [Callers -> Refs] BY <1>5 DEF CallInv, JobsOK, JobTypes, Refs
  <2>4. want' \in [Callers -> Wants] BY <1>1 DEF CallInv, JobsOK, JobTypes
  <2> QED BY <1>7, <2>1, <2>2, <2>3, <2>4, Zenon DEF JobTypes
<1>9. JobOK(c)'
  <2>1. step'[c] = "answer" /\ made'[c] = 1 BY <1>1, <1>4 DEF CallInv, JobsOK, JobTypes, Go
  <2>2. keyed'[c] = (ref[c] = at[c]) BY <1>6, Zenon DEF CallInv, JobsOK, JobTypes
  <2>3. want'[c] = "wanted" => keyed'[c] BY <1>1, <1>3, <2>2, Zenon
  <2>4. pc'[c] # "idle" BY <1>1 DEF PostHandled, Answered
  <2> QED BY <2>1, <2>3, <2>4 DEF JobOK, Handled, Posts
<1>10. ASSUME NEW d \in Callers \ {c} PROVE JobOK(d)'
  <2>1. UNCHANGED <<pc[d], step[d], made[d], ref[d], want[d]>>
    BY <1>1, <1>4, <1>5 DEF CallInv, JobsOK, JobTypes, Go
  <2>2. keyed'[d] = keyed[d] BY <1>6, Zenon DEF CallInv, JobsOK, JobTypes
  <2>3. JobOK(d) BY DEF CallInv, JobsOK
  <2> QED BY <2>1, <2>2, <2>3, Zenon DEF JobOK
<1>11. JobsOK' BY <1>8, <1>9, <1>10 DEF JobsOK
<1> QED BY <1>1, <1>2, <1>11 DEF CallInv

(* Its answer has come: the job is fetched.                                   *)
LEMMA PostAnsweredKeeps ==
  ASSUME CallInv, ProcTypeOK', NEW c \in Callers, PostAnswered(c)
  PROVE  CallInv'
<1>1. /\ OpsOK' /\ step[c] = "answer" /\ Go(c, "get") /\ Onward(c)
      /\ UNCHANGED <<want, ref, made, keyed, streamVars>>
  BY RequestOnward DEF PostAnswered, Answered, CallInv, OpsOK, setupVars, jobVars
<1>2. StreamsOK' BY <1>1, StreamGoesOn
<1>3. JobTypes' BY <1>1 DEF CallInv, JobsOK, JobTypes, Go, Step
<1>4. JobOK(c)'
  BY <1>1 DEF CallInv, ProcTypeOK, JobsOK, JobTypes, JobOK, Go, Onward, Handled, Posts
<1>5. ASSUME NEW d \in Callers \ {c} PROVE JobOK(d)'
  <2>1. pc'[d] = pc[d] /\ step'[d] = step[d] BY <1>1, OnwardStream
  <2> QED BY <1>1, <2>1 DEF CallInv, JobsOK, JobOK
<1> QED BY <1>1, <1>2, <1>3, <1>4, <1>5 DEF CallInv, JobsOK

LEMMA PostKeeps ==
  ASSUME CallInv, ProcTypeOK', NEW c \in Callers, PostStep(c)
  PROVE  CallInv'
<1> USE DEF Answered, Unanswered
<1>1. CASE \E s \in {"post", "repost"} : PostHandled(c, s) BY <1>1, PostHandledKeeps
<1>2. CASE \E s \in {"post", "repost"} : PostRefused(c, s)
  BY <1>2, Finishes DEF PostRefused, Finish
<1>3. CASE \E s \in {"post", "repost", "answer"} : PostFails(c, s)
  BY <1>3, Finishes DEF PostFails, Finish
<1>4. CASE PostLacksFFmpeg(c)
  <2>1. CASE Finish(c) BY <1>4, <2>1, Finishes DEF PostLacksFFmpeg, Finish
  <2>2. CASE /\ Answered(c, "post") /\ LookAtFFmpeg(c, "resend")
             /\ UNCHANGED <<op, want, made, keyed>>
             /\ ref' = [ref EXCEPT ![c] = IF @ = NoPid THEN @ ELSE "spent"]
    <3>1. OpsOK' BY <1>4, <2>2 DEF PostLacksFFmpeg, CallInv, OpsOK, setupVars
    <3>2. PICK r \in {NoPid, "spent"} : /\ ref' = [ref EXCEPT ![c] = r]
                                        /\ ref[c] # NoPid => r # NoPid
      BY <2>2, RefsAssumption
    <3>3. Onward(c) /\ Go(c, "resend") BY <2>2, LookOnward
    <3>4. step[c] = "post" /\ UNCHANGED <<made, keyed, want, streamVars>>
      BY <1>4, <2>2 DEF PostLacksFFmpeg
    <3>5. "resend" \in Step \ Handled /\ step[c] \notin Handled
      BY <3>4 DEF Step, Handled
    <3>6. r \in Refs /\ "none" \in Wants BY <3>2 DEF Refs, Wants
    <3>7. want'[c] # "wanted" \/ ref'[c] # NoPid
      BY <3>2, <3>4 DEF CallInv, JobsOK, JobTypes, JobOK, Posts
    <3> QED BY <3>1, <3>2, <3>3, <3>4, <3>5, <3>6, <3>7, Proceeds
  <2> QED BY <1>4, <2>1, <2>2 DEF PostLacksFFmpeg
<1>5. CASE PostAnswered(c) BY <1>5, PostAnsweredKeeps
<1> QED BY <1>1, <1>2, <1>3, <1>4, <1>5 DEF PostStep

LEMMA StreamKeeps ==
  ASSUME CallInv, ProcTypeOK', NEW c \in Callers,
         Retry(c) \/ Connect(c) \/ Resynced(c) \/ EventsLost(c) \/ StreamEnds(c)
  PROVE  CallInv'
<1> USE DEF Answered, Unanswered
<1>1. CASE Retry(c)
  <2>1. CASE StreamOver(c) BY <1>1, <2>1, Finishes DEF Retry, StreamOver
  <2>2. CASE /\ tries[c] # MaxTries /\ Request(c, "connect")
             /\ UNCHANGED <<op, jobVars, streamVars>>
    <3>1. step[c] \in {"connect", "resync"} /\ tries[c] < MaxTries
      BY <1>1, <2>2, TriesAssumption DEF Retry, CallInv, StreamsOK
    <3>2. OpsOK' BY <1>1, <2>2 DEF Retry, CallInv, OpsOK, setupVars
    <3> QED BY <2>2, <3>1, <3>2, RequestOnward, ProceedsElsewhere DEF Step, Handled, Posts
  <2> QED BY <1>1, <2>1, <2>2 DEF Retry
<1>2. CASE Connect(c)
  <2>1. CASE StreamOver(c) BY <1>2, <2>1, Finishes DEF Connect, StreamOver
  <2>2. CASE Unanswered(c, "connect") /\ StreamError(c)
    BY <1>2, <2>2, StreamErrorKeeps DEF Connect
  <2>3. CASE /\ Answered(c, "connect") /\ pc' = [pc EXCEPT ![c] = "reading"]
             /\ conn' = [conn EXCEPT ![c] = at[c]] /\ UNCHANGED <<callVars, at, raced, tries, aborted>>
    <3>1. JobsOK' BY <2>3, JobStays DEF callVars, jobVars, CallInv, ProcTypeOK
    <3>2. StreamsOK' BY <2>3 DEF callVars, CallInv, ProcTypeOK, StreamsOK
    <3>3. OpsOK' BY <1>2, <2>3 DEF Connect, CallInv, OpsOK, callVars, setupVars
    <3> QED BY <3>1, <3>2, <3>3 DEF CallInv
  <2> QED BY <1>2, <2>1, <2>2, <2>3 DEF Connect
<1>3. CASE Resynced(c)
  <2>1. CASE Unanswered(c, "resync") /\ StreamError(c)
    BY <1>3, <2>1, StreamErrorKeeps DEF Resynced
  <2>2. CASE /\ Answered(c, "resync") /\ pc' = [pc EXCEPT ![c] = "reading"]
             /\ UNCHANGED <<callVars, at, raced, streamVars>>
    <3>1. JobsOK' BY <2>2, JobStays DEF callVars, jobVars, CallInv, ProcTypeOK
    <3>2. StreamsOK' BY <2>2 DEF callVars, streamVars, CallInv, ProcTypeOK, StreamsOK
    <3>3. OpsOK' BY <1>3, <2>2 DEF Resynced, CallInv, OpsOK, callVars, setupVars
    <3> QED BY <3>1, <3>2, <3>3 DEF CallInv
  <2> QED BY <1>3, <2>1, <2>2 DEF Resynced
<1>4. CASE EventsLost(c)
  <2>1. step[c] \in {"connect", "resync"} /\ tries[c] < MaxTries
    BY <1>4 DEF EventsLost, CallInv, StreamsOK
  <2>2. OpsOK' BY <1>4 DEF EventsLost, CallInv, OpsOK, setupVars
  <2> QED BY <1>4, <2>1, <2>2, RequestOnward, ProceedsElsewhere
          DEF EventsLost, Step, Handled, Posts
<1>5. CASE StreamEnds(c)
  <2>1. step[c] \in {"connect", "resync"} BY <1>5 DEF StreamEnds, CallInv, StreamsOK
  <2> QED BY <1>5, <2>1, StreamErrorKeeps, Finishes DEF StreamEnds, StreamOver
<1> QED BY <1>1, <1>2, <1>3, <1>4, <1>5

LEMMA OneCallKeeps ==
  ASSUME CallInv, ProcTypeOK', NEW c \in Callers, CallStep(c)
  PROVE  CallInv'
<1> USE RequestOnward, RepairOnward, LookOnward DEF Step, Handled, Posts
<1>1. UNCHANGED <<op, menu>> /\ synced' \in BOOLEAN => OpsOK' BY DEF CallInv, OpsOK
<1>2. synced \in BOOLEAN BY DEF CallInv, OpsOK
<1>3. CASE CheckLooks(c) BY <1>1, <1>2, <1>3, ProceedsElsewhere DEF CheckLooks, setupVars
<1>4. CASE \E available \in BOOLEAN : InstallLooks(c, available)
  BY <1>1, <1>2, <1>4, ProceedsElsewhere DEF InstallLooks, setupVars
<1>5. ASSUME NEW available \in BOOLEAN, JobLooks(c, available) PROVE CallInv'
  <2>1. CASE available
    <3>1. OpsOK' BY <1>1, <1>2, <1>5, <2>1 DEF JobLooks, setupVars
    <3>2. /\ Onward(c) /\ Go(c, step[c]) /\ step[c] \in {"sync", "resend"}
          /\ UNCHANGED <<want, ref, made, keyed, streamVars>>
      BY <1>5, <2>1 DEF JobLooks, jobVars
    <3>3. PICK s \in {"sync", "resend"} : s = step[c] BY <3>2
    <3>4. s \in Posts => want'[c] # "wanted" \/ ref'[c] # NoPid
      BY <3>2, <3>3 DEF CallInv, JobsOK, JobOK
    <3> QED BY <3>1, <3>2, <3>3, <3>4, Proceeds DEF Refs, Wants
  <2>2. CASE ~available BY <1>5, <2>2, Finishes DEF JobLooks, Finish
  <2> QED BY <2>1, <2>2
<1>6. CASE RestartStep(c) \/ WaitStep(c)
  <2>1. \E phase \in {"failed", "env", "await"} : pc' = [pc EXCEPT ![c] = phase]
    BY <1>6 DEF RestartStep, WaitStep, Restart, BeginStart, Spawn, ReadyTimeout
  <2>2. /\ pc[c] \in {"tree", "env", "await"}
        /\ UNCHANGED <<op, step, want, made, keyed, tries, aborted, setupVars>>
    BY <1>6 DEF RestartStep, WaitStep, Restart, Spawn, ReadyTimeout, callVars, jobVars, streamVars
  <2>3. \/ UNCHANGED <<ref, conn>>
        \/ /\ ref' = [d \in Callers |-> IF Spawned(ref[d]) THEN "spent" ELSE ref[d]]
           /\ conn' = [d \in Callers |-> IF Spawned(conn[d]) THEN NoPid ELSE conn[d]]
    BY <1>6 DEF RestartStep, WaitStep, callVars, jobVars, streamVars
  <2>4. JobsOK' BY <2>1, <2>2, <2>3, JobWaits DEF CallInv, ProcTypeOK
  <2>5. conn' \in [Callers -> Pids \cup {NoPid}] BY <2>3 DEF CallInv, StreamsOK
  <2>6. StreamsOK' BY <2>1, <2>2, <2>5, StreamStays DEF CallInv, ProcTypeOK
  <2> QED BY <1>1, <1>2, <2>2, <2>4, <2>6 DEF CallInv, setupVars
<1>7. CASE Repaired(c)
  <2>1. step[c] \in RepairSteps /\ UNCHANGED <<op, menu, jobVars, streamVars>>
    BY <1>7 DEF Repaired, RepairOver
  <2>2. synced' \in BOOLEAN BY <1>2, <1>7 DEF Repaired
  <2>3. PICK s \in {"config", "post", "repost", "list"} :
          /\ Request(c, s) \/ LookAtFFmpeg(c, s)
          /\ s = "post" => want[c] = "none"
          /\ s = "repost" => step[c] = "resend"
    BY <1>7, <2>1 DEF Repaired, RepairSteps
  <2>4. step[c] \notin Handled BY <2>1 DEF RepairSteps
  <2>5. s \in Posts => want'[c] # "wanted" \/ ref'[c] # NoPid
    BY <2>1, <2>3 DEF CallInv, JobsOK, JobOK, jobVars
  <2>6. Onward(c) /\ Go(c, s) BY <2>3
  <2> QED BY <1>1, <2>1, <2>2, <2>3, <2>4, <2>5, <2>6, Proceeds DEF jobVars, Refs, Wants
<1>8. CASE RepairThrows(c) BY <1>8, Finishes DEF RepairThrows, Finish
<1>9. CASE QuitDone(c) BY <1>9, Finishes DEF QuitDone
<1>10. CASE LastAnswered(c) BY <1>10, Finishes DEF LastAnswered, Finish
<1>11. CASE PatchAnswered(c)
  <2>1. CASE Finish(c) BY <1>11, <2>1, Finishes DEF PatchAnswered, Finish
  <2>2. CASE Answered(c, "patch") /\ Repair(c, "repair") /\ UNCHANGED <<op, jobVars>>
    BY <1>1, <1>2, <1>11, <2>2, ProceedsElsewhere DEF PatchAnswered, Answered, setupVars, jobVars
  <2> QED BY <1>11, <2>1, <2>2 DEF PatchAnswered
<1>12. CASE ConfigAnswered(c)
  <2>1. CASE Finish(c) BY <1>12, <2>1, Finishes DEF ConfigAnswered, Finish
  <2>2. CASE Answered(c, "config") /\ Request(c, "secret") /\ UNCHANGED <<op, jobVars>>
    BY <1>1, <1>2, <1>12, <2>2, ProceedsElsewhere DEF ConfigAnswered, Answered, setupVars, jobVars
  <2>3. CASE /\ Unanswered(c, "config") /\ want' = [want EXCEPT ![c] = "unread"]
             /\ Request(c, "secret") \/ Request(c, "post")
             /\ UNCHANGED <<op, ref, made, keyed>>
    <3>1. OpsOK' /\ step[c] = "config" /\ UNCHANGED streamVars
      BY <1>1, <1>2, <1>12, <2>3 DEF ConfigAnswered, Unanswered, setupVars
    <3>2. PICK s \in {"secret", "post"} : Go(c, s) /\ Onward(c) BY <2>3
    <3>3. want'[c] = "unread" BY <2>3 DEF CallInv, JobsOK, JobTypes
    <3> QED BY <2>3, <3>1, <3>2, <3>3, Proceeds DEF Refs, Wants
  <2> QED BY <1>12, <2>1, <2>2, <2>3 DEF ConfigAnswered
<1>13. CASE SecretAnswered(c)
  <2>1. CASE Finish(c) BY <1>13, <2>1, Finishes DEF SecretAnswered, Finish
  <2>2. CASE /\ Answered(c, "secret") /\ Request(c, "post") /\ ref' = [ref EXCEPT ![c] = at[c]]
             /\ UNCHANGED <<op, want, made, keyed>>
    <3>1. at[c] \in Pids /\ step[c] = "secret" BY <2>2 DEF Answered, Serving
    <3>2. UNCHANGED streamVars /\ OpsOK' BY <1>1, <1>2, <1>13, <2>2 DEF SecretAnswered, setupVars
    <3>3. Onward(c) /\ Go(c, "post") /\ UNCHANGED <<want, made, keyed>> BY <2>2
    <3>4. PICK r \in Pids : ref' = [ref EXCEPT ![c] = r] BY <2>2, <3>1
    <3>5. ref'[c] # NoPid BY <3>4, PidsAssumption DEF CallInv, JobsOK, JobTypes
    <3>6. r \in Refs /\ "none" \in Wants BY DEF Refs, Wants
    <3>7. "post" \in Step \ Handled /\ step[c] \notin Handled BY <3>1
    <3> QED BY <3>2, <3>3, <3>4, <3>5, <3>6, <3>7, Proceeds
  <2> QED BY <1>13, <2>1, <2>2 DEF SecretAnswered
<1>14. CASE PostStep(c) BY <1>14, PostKeeps
<1>15. CASE Retry(c) \/ Connect(c) \/ Resynced(c) BY <1>15, StreamKeeps
<1> QED BY <1>3, <1>4, <1>5, <1>6, <1>7, <1>8, <1>9, <1>10, <1>11, <1>12, <1>13, <1>14, <1>15
        DEF CallStep

LEMMA CallInit == ASSUME Init PROVE CallInv
<1>1. ProcTypeOK BY ManagerInit DEF Init, ManagerInv
<1>2. OpsOK BY MenusAssumption DEF Init, OpsOK, Op
<1>3. JobsOK BY DEF Init, ProcInit, JobsOK, JobTypes, JobOK, Step, Handled, Posts, Refs, Wants
<1>4. StreamsOK BY TriesAssumption DEF Init, ProcInit, StreamsOK
<1> QED BY <1>1, <1>2, <1>3, <1>4 DEF CallInv

LEMMA NextKeepsTypes == ASSUME ProcTypeOK, [Next]_vars PROVE ProcTypeOK'
<1>1. CASE UNCHANGED procVars BY <1>1 DEF ProcTypeOK, procVars, childVars, raced
<1> QED BY <1>1, NextIsManaged, CallerKeepsTypes, ChildKeepsTypes DEF ManagerNext

LEMMA CallInvStep == ASSUME CallInv, [Next]_vars PROVE CallInv'
<1>1. ProcTypeOK' BY NextKeepsTypes DEF CallInv
<1>2. CASE UNCHANGED vars
  <2>1. OpsOK' /\ StreamsOK' BY <1>2 DEF vars, CallInv, OpsOK, StreamsOK, procVars, callVars,
       streamVars, setupVars
  <2>2. JobsOK' BY <1>2, JobStays DEF vars, callVars, procVars
  <2> QED BY <1>1, <2>1, <2>2 DEF CallInv
<1>3. ASSUME NEW p \in Pids, ChildStep(p) \/ DaemonReady(p) \/ DaemonStep(p) PROVE CallInv'
  <2>1. UNCHANGED <<callVars, streamVars, setupVars>>
    BY <1>3 DEF ChildStep, DaemonReady, DaemonStep
  <2>2. \A c \in Callers : pc'[c] # pc[c] => pc[c] = "await" /\ pc'[c] \in {"have", "failed"}
    BY <1>3 DEF ChildStep, DaemonReady, DaemonStep, ChildEvent, ReadyLine, GarbageLine, ChildExits,
       Settle, Waiting, PrintReady, LoseLine, Crash
  <2>3. JobsOK' BY <2>1, <2>2, JobStays DEF callVars
  <2>4. StreamsOK' BY <2>1, <2>2, StreamStays DEF callVars, streamVars, CallInv, StreamsOK
  <2> QED BY <1>1, <2>1, <2>3, <2>4 DEF CallInv, OpsOK, callVars, setupVars
<1> QED BY <1>1, <1>2, <1>3, BeginsKeep, OneCallKeeps, StreamKeeps DEF Next

LEMMA CallInvariant == Spec => []CallInv
<1>1. Init => CallInv BY CallInit
<1>2. CallInv /\ [Next]_vars => CallInv' BY CallInvStep
<1> QED BY <1>1, <1>2, PTL DEF Spec

(* Every variable of the desktop's main process keeps its type; in            *)
(* particular no stream ever counts more than MaxTries failed attempts.       *)
THEOREM TypeCorrect == Spec => []TypeOK
<1>1. CallInv => TypeOK BY DEF CallInv, OpsOK, JobsOK, JobTypes, StreamsOK, TypeOK
<1> QED BY <1>1, CallInvariant, PTL

(* A call of createJob makes at most one job, whichever answer is lost, that  *)
(* of the POST which has made it included, and however often the daemon is    *)
(* restarted (daemonClient.ts, createJob).                                    *)
THEOREM OneJobPerCallHolds == Spec => []OneJobPerCall
<1>1. CallInv => OneJobPerCall BY DEF CallInv, JobsOK, JobTypes, OneJobPerCall
<1> QED BY <1>1, CallInvariant, PTL

(* A job that was to have an API key has it, unless the configuration was not *)
(* to be read: the daemon refuses a reference that another daemon has issued, *)
(* or that is spent.                                                          *)
THEOREM NeverKeylessHolds == Spec => []NeverKeyless
<1>1. CallInv => NeverKeyless BY DEF CallInv, JobsOK, JobTypes, JobOK, Handled, NeverKeyless
<1> QED BY <1>1, CallInvariant, PTL

-------------------------------------------------------------------------------
(* Safety of a translation by a web provider, for jobs of any number of cues, *)
(* any number of retries and any failures of the requests.                    *)

(* The jobs: of one of the providers, from and to languages of any name, with *)
(* something to translate.                                                    *)
IsWebOrder(o) ==
  o.provider \in {"bing", "google"} /\ o.packaged \in BOOLEAN /\ o.cues \in Seq(Nat) \ {<<>>}
HostNames == {"bing", "translate.google.com", "translate.google.com.hk"}
Languages == {"auto", "auto-detect", "zh-Hans", "zh-CN", "en", "ja", "ko"}
WebRequests ==
  [host : HostNames, from : Languages, to : Languages, came : {"nothing", "failure", "good", "blank"}]

HostsOf == Hosts[order.provider]

(* The cues: those behind the one at work are translated or given up, those   *)
(* ahead of it are neither.                                                   *)
Cues ==
  /\ IsWebOrder(order)
  /\ job \in {"new", "running", "done", "refused", "stopped"}
  /\ cue \in 1..(Len(order.cues) + 1) /\ try \in 0..Retries
  /\ job \in {"new", "running"} => cue <= Len(order.cues)
  /\ result \in [DOMAIN order.cues -> {"none", "good", "blank"}]
  /\ errors \subseteq 1..(cue - 1)
  /\ \A c \in DOMAIN order.cues :
       IF c < cue THEN c \in errors <=> result[c] # "good" ELSE result[c] # "good"

HelperStates ==
  [at : {"gone", "read", "import", "request"}, host : 0..2, timer : BOOLEAN,
   out : {"none", "good", "blank"} \cup Codes]
Helpers ==
  /\ helper \in HelperStates
  /\ sent \in Seq(WebRequests)

(* The first n hosts were asked, and all but the last have failed.            *)
AskedInTurn ==
  \A h \in 1..Len(sent) : sent[h].host = HostsOf[h] /\ (h < Len(sent) => sent[h].came = "failure")
HostsAsked ==
  /\ helper.at \in {"import", "request"} => IsLanguage(order.from, TRUE) /\ IsLanguage(order.to, TRUE)
  /\ helper.at \in {"read", "import"} => sent = <<>>
  /\ helper.at = "request" => sent # <<>> /\ Len(sent) = helper.host /\ Len(sent) <= Len(HostsOf)
  /\ AskedInTurn
InItsNames == \A h \in 1..Len(sent) : sent[h].from # (IF order.provider = "bing" THEN "auto" ELSE "auto-detect")

(* What was answered but the timeout is the last thing that a helper does.    *)
AllFailed == Len(sent) = Len(HostsOf) /\ \A h \in 1..Len(sent) : sent[h].came = "failure"
HelperAnswered ==
  /\ helper.out \notin {"none", "provider_timeout"} => helper.at = "gone"
  /\ helper.out \in {"good", "blank"} => sent # <<>> /\ Last(sent).came = helper.out
  /\ helper.out \in Codes \ {"invalid_input", "missing_dependency", "provider_timeout"} =>
       sent = <<>> \/ AllFailed

WebInv == Cues /\ Helpers /\ HostsAsked /\ InItsNames /\ HelperAnswered

------------------------------------------------------------------------------
(* Lemmas about the pure parts.                                               *)

LEMMA LeastOf ==
  ASSUME NEW S, S \subseteq Nat, S # {}
  PROVE  \E m \in S : \A k \in S : m <= k
<1>1. PICK m \in S : \A k \in S : ~(<<k, m>> \in OpToRel(<, Nat))
  BY WFMin, NatLessThanWellFounded, Zenon
<1>2. \A k \in S : ~(k < m)
  BY <1>1, Zenon DEF OpToRel
<1> QED
  BY <1>2

(* Whatever a request fails with, the answer is a code, never a text.         *)
LEMMA ErrorsAreCodes == \A signs : MapProviderError(signs) \in Codes
<1> SUFFICES ASSUME NEW signs PROVE MapProviderError(signs) \in Codes
  OBVIOUS
<1> DEFINE I == {i \in 1..Len(Signs) : Signs[i].sign \in signs}
<1>1. Len(Signs) = 7
  BY DEF Signs
<1>2. CASE I = {}
  <2>1. SelectInSeq(Signs, LAMBDA s : s.sign \in signs) = 0
    BY <1>2 DEF SelectInSeq
  <2> QED
    BY <2>1 DEF MapProviderError, Codes
<1>3. CASE I # {}
  <2>1. I \subseteq Nat
    BY <1>1
  <2>2. \E m \in I : \A k \in I : m <= k
    BY <1>3, <2>1, LeastOf
  <2>3. Min(I) \in I
    BY <2>2 DEF Min
  <2>4. SelectInSeq(Signs, LAMBDA s : s.sign \in signs) = Min(I)
    BY <1>3 DEF SelectInSeq
  <2>5. Min(I) \in 1..7
    BY <1>1, <2>3
  <2>6. \A i \in 1..7 : Signs[i].code \in Codes /\ i # 0
    BY DEF Signs, Codes
  <2> QED
    BY <2>4, <2>5, <2>6 DEF MapProviderError
<1> QED
  BY <1>2, <1>3

LEMMA HostsAreSome ==
  ASSUME IsWebOrder(order)
  PROVE  /\ Len(HostsOf) \in 1..2 /\ DOMAIN HostsOf = 1..Len(HostsOf)
         /\ \A h \in 1..Len(HostsOf) : HostsOf[h] \in HostNames
<1>1. CASE order.provider = "bing"
  <2>1. HostsOf = <<"bing">>
    BY <1>1 DEF HostsOf, Hosts
  <2> QED
    BY <2>1 DEF HostNames
<1>2. CASE order.provider = "google"
  <2>1. HostsOf = <<"translate.google.com", "translate.google.com.hk">>
    BY <1>2 DEF HostsOf, Hosts
  <2> QED
    BY <2>1 DEF HostNames
<1> QED
  BY <1>1, <1>2 DEF IsWebOrder

LEMMA HostsAreFunctions ==
  ASSUME IsWebOrder(order)
  PROVE  HostsOf = [h \in DOMAIN HostsOf |-> HostsOf[h]]
<1>1. CASE order.provider = "bing"
  <2>1. HostsOf = <<"bing">>
    BY <1>1 DEF HostsOf, Hosts
  <2> QED
    BY <2>1
<1>2. CASE order.provider = "google"
  <2>1. HostsOf = <<"translate.google.com", "translate.google.com.hk">>
    BY <1>2 DEF HostsOf, Hosts
  <2> QED
    BY <2>1
<1> QED
  BY <1>1, <1>2 DEF IsWebOrder

LEMMA LanguagesOnly ==
  \A v : IsLanguage(v, TRUE) =>
          NormalizeLanguage(v) \in Languages \ {IF order.provider = "bing" THEN "auto" ELSE "auto-detect"}
BY DEF IsLanguage, NormalizeLanguage, Languages, Chinese

(* The request of a language that the helper has let through.                 *)
LEMMA RequestInItsNames ==
  ASSUME IsWebOrder(order), NEW h \in 1..Len(HostsOf),
         IsLanguage(order.from, TRUE), IsLanguage(order.to, TRUE)
  PROVE  /\ RequestTo(h) \in WebRequests /\ RequestTo(h).host = HostsOf[h]
         /\ RequestTo(h).from # (IF order.provider = "bing" THEN "auto" ELSE "auto-detect")
<1>1. HostsOf[h] \in HostNames
  BY HostsAreSome
<1>2. /\ NormalizeLanguage(order.from) \in Languages /\ NormalizeLanguage(order.to) \in Languages
      /\ NormalizeLanguage(order.from) # (IF order.provider = "bing" THEN "auto" ELSE "auto-detect")
  BY LanguagesOnly
<1> QED
  BY <1>1, <1>2 DEF RequestTo, WebRequests, HostsOf

LEMMA CameLast ==
  ASSUME sent \in Seq(WebRequests), sent # <<>>, NEW what \in {"failure", "good", "blank"}
  PROVE  /\ Came(what) \in Seq(WebRequests) /\ Len(Came(what)) = Len(sent) /\ Came(what) # <<>>
         /\ \A h \in 1..Len(sent) : /\ Came(what)[h].host = sent[h].host
                                    /\ Came(what)[h].from = sent[h].from
                                    /\ Came(what)[h].came = IF h = Len(sent) THEN what ELSE sent[h].came
<1>1. Len(sent) \in Nat /\ Len(sent) \in 1..Len(sent) /\ DOMAIN sent = 1..Len(sent)
  BY LenProperties, EmptySeq
<1>2. \A h \in 1..Len(sent) : sent[h] \in WebRequests
  BY ElementOfSeq
<1> DEFINE last == [sent[Len(sent)] EXCEPT !.came = what]
<1>3. /\ last \in WebRequests /\ last.host = sent[Len(sent)].host
      /\ last.from = sent[Len(sent)].from /\ last.came = what
  BY <1>1, <1>2 DEF WebRequests
<1>4. Came(what) = [sent EXCEPT ![Len(sent)] = last]
  BY DEF Came
<1> HIDE DEF last
<1>5. Came(what) \in Seq(WebRequests) /\ Len(Came(what)) = Len(sent)
  BY <1>1, <1>3, <1>4, ExceptSeq
<1>6. \A h \in 1..Len(sent) : Came(what)[h] = IF h = Len(sent) THEN last ELSE sent[h]
  BY <1>1, <1>4
<1>7. Came(what) # <<>>
  BY <1>1, <1>5, EmptySeq
<1> QED
  BY <1>3, <1>5, <1>6, <1>7

------------------------------------------------------------------------------
(* The helper.                                                                *)

HelperInv == Helpers /\ HostsAsked /\ InItsNames /\ HelperAnswered

LEMMA CuesFrame ==
  ASSUME Cues, HelperOnly
  PROVE  Cues'
BY DEF Cues, HelperOnly

(* The first requests and what came of them stay: weak frames of the helper.  *)
LEMMA HelperFrame ==
  ASSUME HelperInv, UNCHANGED <<order, sent, helper>>
  PROVE  HelperInv'
<1>1. Helpers' /\ HostsAsked' /\ InItsNames'
  BY DEF HelperInv, Helpers, HostsAsked, AskedInTurn, InItsNames, HostsOf
<1>2. HelperAnswered'
  BY DEF HelperInv, HelperAnswered, AllFailed, HostsOf, Last
<1> QED
  BY <1>1, <1>2 DEF HelperInv

LEMMA FreshHelper ==
  ASSUME NEW phase \in {"gone", "read"}, helper' = [NoHelper EXCEPT !.at = phase], sent' = <<>>
  PROVE  HelperInv'
<1>1. helper' = [at |-> phase, host |-> 0, timer |-> FALSE, out |-> "none"]
  BY DEF NoHelper
<1>2. Helpers'
  <2>1. \A a \in {"gone", "read"} : [at |-> a, host |-> 0, timer |-> FALSE, out |-> "none"] \in HelperStates
    BY DEF HelperStates
  <2>2. helper' \in HelperStates
    BY <1>1, <2>1
  <2> QED
    BY <2>2, EmptySeq DEF Helpers
<1>3. HostsAsked' /\ InItsNames' /\ HelperAnswered'
  <2>1. helper'.at \in {"gone", "read"} /\ helper'.out = "none" /\ Len(sent') = 0
    BY <1>1, EmptySeq
  <2>2. InItsNames' /\ AskedInTurn'
    BY <2>1 DEF AskedInTurn, InItsNames
  <2>4. HostsAsked'
    BY <2>1, <2>2 DEF HostsAsked
  <2>3. HelperAnswered'
    BY <2>1 DEF HelperAnswered, Codes
  <2> QED
    BY <2>2, <2>3, <2>4
<1> QED
  BY <1>2, <1>3 DEF HelperInv

(* The requests stay and so does the answer, or it is one of the helper's own *)
(* failures.                                                                  *)
LEMMA SentStays ==
  ASSUME HelperInv, UNCHANGED <<order, sent>>,
         helper' \in HelperStates,
         helper'.at \in {"import", "request"} => IsLanguage(order.from, TRUE) /\ IsLanguage(order.to, TRUE),
         helper'.at \in {"read", "import"} => sent = <<>>,
         helper'.at = "request" => helper.at = "request" /\ helper'.host = helper.host,
         \/ helper'.out = helper.out /\ helper.out \in {"none", "provider_timeout"}
         \/ helper'.out \in Codes /\ helper'.at = "gone" /\ sent = <<>>
         \/ helper'.out = "provider_timeout"
  PROVE  HelperInv'
<1>1. Helpers' /\ InItsNames'
  BY DEF HelperInv, Helpers, InItsNames
<1>2. HostsAsked'
  BY DEF HelperInv, HostsAsked, AskedInTurn, HostsOf, IsLanguage
<1>3. HelperAnswered'
  BY DEF HelperInv, HelperAnswered, Codes
<1> QED
  BY <1>1, <1>2, <1>3 DEF HelperInv

LEMMA ReadKeeps ==
  ASSUME HelperInv, ReadRequest
  PROVE  HelperInv'
<1>1. /\ helper.out \in {"none", "provider_timeout"} /\ helper.at = "read"
      /\ sent = <<>> /\ UNCHANGED <<order, sent>>
  BY DEF HelperInv, HelperAnswered, HostsAsked, ReadRequest, Helper, HelperOnly
<1>2. CASE ValidatePayload(order.cues[cue])
  <2>1. helper' = [helper EXCEPT !.at = "import", !.timer = TRUE]
    BY <1>2 DEF ReadRequest
  <2>2. IsLanguage(order.from, TRUE) /\ IsLanguage(order.to, TRUE)
    BY <1>2 DEF ValidatePayload, IsLanguage
  <2>3. /\ helper' \in HelperStates
        /\ helper'.at = "import" /\ helper'.out = helper.out
    BY <2>1 DEF HelperInv, Helpers, HelperStates
  <2> QED
    BY <1>1, <2>2, <2>3, SentStays
<1>3. CASE ~ValidatePayload(order.cues[cue])
  <2>1. helper' = [helper EXCEPT !.out = "invalid_input", !.timer = FALSE, !.at = "gone"]
    BY <1>3 DEF ReadRequest, Respond
  <2>2. /\ helper' \in HelperStates
        /\ helper'.at = "gone" /\ helper'.out = "invalid_input" /\ "invalid_input" \in Codes
    BY <2>1 DEF HelperInv, Helpers, HelperStates, Codes
  <2> QED
    BY <1>1, <2>2, SentStays
<1> QED
  BY <1>2, <1>3

LEMMA TimeoutKeeps ==
  ASSUME HelperInv, HelperTimesOut
  PROVE  HelperInv'
<1>1. /\ helper' = [helper EXCEPT !.out = "provider_timeout", !.timer = FALSE, !.at = helper.at]
      /\ UNCHANGED <<order, sent>>
  BY DEF HelperTimesOut, Respond, HelperOnly
<1>2. /\ helper' \in HelperStates
      /\ helper'.at = helper.at /\ helper'.host = helper.host /\ helper'.out = "provider_timeout"
  BY <1>1 DEF HelperInv, Helpers, HelperStates, Codes
<1>3. /\ helper'.at \in {"import", "request"} => IsLanguage(order.from, TRUE) /\ IsLanguage(order.to, TRUE)
      /\ helper'.at \in {"read", "import"} => sent = <<>>
  BY <1>2 DEF HelperInv, HostsAsked
<1> QED
  BY <1>1, <1>2, <1>3, SentStays

LEMMA ImportKeeps ==
  ASSUME IsWebOrder(order), HelperInv, Import
  PROVE  HelperInv'
<1>1. helper.out \in {"none", "provider_timeout"} /\ helper.at = "import" /\ UNCHANGED order
  BY DEF HelperInv, HelperAnswered, Import, Helper, HelperOnly
<1>2. helper' = [helper EXCEPT !.at = "request", !.host = 1] /\ sent' = <<RequestTo(1)>>
  BY DEF Import
<1>3. IsLanguage(order.from, TRUE) /\ IsLanguage(order.to, TRUE)
  BY <1>1 DEF HelperInv, HostsAsked
<1>4. 1 \in 1..Len(HostsOf) /\ 1 <= Len(HostsOf) /\ Len(HostsOf) \in 1..2
  BY HostsAreSome
<1>5. /\ RequestTo(1) \in WebRequests /\ RequestTo(1).host = HostsOf[1]
      /\ RequestTo(1).from # (IF order.provider = "bing" THEN "auto" ELSE "auto-detect")
  BY <1>3, <1>4, RequestInItsNames
<1>6. /\ helper' \in HelperStates
      /\ helper'.at = "request" /\ helper'.host = 1 /\ helper'.out = helper.out
  <2>1. helper' = [helper EXCEPT !.at = "request", !.host = 1] /\ helper \in HelperStates /\ 1 \in 0..2
    BY <1>2 DEF HelperInv, Helpers
  <2> QED
    BY <2>1 DEF HelperStates
<1>7. sent' \in Seq(WebRequests) /\ Len(sent') = 1 /\ sent'[1] = RequestTo(1) /\ sent' # <<>>
  BY <1>2, <1>5
<1>8. Helpers'
  BY <1>6, <1>7 DEF Helpers
<1>9. HostsAsked' /\ InItsNames'
  BY <1>1, <1>3, <1>4, <1>5, <1>6, <1>7 DEF HostsAsked, AskedInTurn, InItsNames, HostsOf, IsLanguage
<1>10. HelperAnswered'
  BY <1>1, <1>6 DEF HelperAnswered, Codes
<1> QED
  BY <1>8, <1>9, <1>10 DEF HelperInv

(* A failed import is answered before any host was asked.                     *)
LEMMA ImportFailureKeeps ==
  ASSUME HelperInv, NEW signs, ImportFails(signs)
  PROVE  HelperInv'
<1>1. /\ helper.out \in {"none", "provider_timeout"} /\ helper.at = "import"
      /\ sent = <<>> /\ UNCHANGED <<order, sent>>
  BY DEF HelperInv, HelperAnswered, HostsAsked, ImportFails, Helper, HelperOnly
<1>2. CASE helper' = [helper EXCEPT !.at = "gone"]
  <2>1. helper' \in HelperStates /\ helper'.at = "gone" /\ helper'.out = helper.out
    BY <1>2 DEF HelperInv, Helpers, HelperStates
  <2> QED
    BY <1>1, <2>1, SentStays
<1>3. CASE Respond(MapProviderError(signs), "gone")
  <2>1. helper' = [helper EXCEPT !.out = MapProviderError(signs), !.timer = FALSE, !.at = "gone"]
    BY <1>3 DEF Respond
  <2>2. MapProviderError(signs) \in Codes
    BY ErrorsAreCodes
  <2>3. helper' \in HelperStates /\ helper'.at = "gone" /\ helper'.out \in Codes
    BY <2>1, <2>2 DEF HelperInv, Helpers, HelperStates
  <2> QED
    BY <1>1, <2>3, SentStays
<1> QED
  BY <1>2, <1>3 DEF ImportFails

(* The last request is over: what came of it, and an answer if it is the last *)
(* host, or has a text.                                                       *)
LEMMA LastHostIsOver ==
  ASSUME IsWebOrder(order), HelperInv, helper.at = "request", UNCHANGED order,
         NEW what \in {"failure", "good", "blank"}, sent' = Came(what),
         helper' \in HelperStates, helper'.at = "gone",
         \/ helper'.out = helper.out
         \/ what # "failure" /\ helper'.out = what
         \/ what = "failure" /\ Len(sent) = Len(HostsOf) /\ helper'.out \in Codes
  PROVE  HelperInv'
<1>1. /\ sent \in Seq(WebRequests) /\ sent # <<>> /\ AskedInTurn /\ InItsNames
      /\ helper.out \in {"none", "provider_timeout"}
  BY DEF HelperInv, Helpers, HostsAsked, HelperAnswered
<1>2. /\ sent' \in Seq(WebRequests) /\ Len(sent') = Len(sent) /\ sent' # <<>>
      /\ \A h \in 1..Len(sent) : /\ sent'[h].host = sent[h].host /\ sent'[h].from = sent[h].from
                                 /\ sent'[h].came = IF h = Len(sent) THEN what ELSE sent[h].came
  BY <1>1, CameLast
<1>3. Len(sent) \in Nat /\ Len(sent) \in 1..Len(sent)
  BY <1>1, LenProperties, EmptySeq
<1>4. HostsOf' = HostsOf
  BY DEF HostsOf
<1>5. Helpers' /\ InItsNames'
  BY <1>1, <1>2 DEF Helpers, InItsNames
<1>6. AskedInTurn'
  <2> SUFFICES ASSUME NEW h \in 1..Len(sent)
               PROVE  sent'[h].host = HostsOf[h] /\ (h < Len(sent) => sent'[h].came = "failure")
    BY <1>2, <1>4 DEF AskedInTurn
  <2> QED
    BY <1>1, <1>2, <1>3 DEF AskedInTurn
<1>7. HostsAsked'
  BY <1>6 DEF HostsAsked
<1>8. HelperAnswered'
  <2>1. Last(sent').came = what
    BY <1>2, <1>3 DEF Last
  <2>2. CASE helper'.out = helper.out
    BY <1>1, <2>2 DEF HelperAnswered, Codes
  <2>3. CASE what # "failure" /\ helper'.out = what
    BY <1>2, <2>1, <2>3 DEF HelperAnswered, Codes
  <2>4. CASE what = "failure" /\ Len(sent) = Len(HostsOf) /\ helper'.out \in Codes
    <3>1. \A h \in 1..Len(sent) : sent'[h].came = "failure"
      BY <1>1, <1>2, <1>3, <2>4 DEF AskedInTurn
    <3>2. AllFailed'
      BY <1>2, <1>4, <2>4, <3>1 DEF AllFailed
    <3> QED
      BY <2>4, <3>2 DEF HelperAnswered, Codes
  <2> QED
    BY <2>2, <2>3, <2>4
<1> QED
  BY <1>5, <1>7, <1>8 DEF HelperInv

LEMMA HostKeeps ==
  ASSUME IsWebOrder(order), HelperInv, NEW text \in {"good", "blank"}, HostAnswers(text)
  PROVE  HelperInv'
<1>1. helper.at = "request" /\ UNCHANGED order /\ sent' = Came(text) /\ helper \in HelperStates
  BY DEF HostAnswers, Helper, HelperOnly, HelperInv, Helpers
<1>2. CASE helper' = [helper EXCEPT !.out = text, !.timer = FALSE, !.at = "gone"]
  <2>1. helper' \in HelperStates /\ helper'.at = "gone" /\ helper'.out = text
    BY <1>1, <1>2 DEF HelperStates
  <2> QED
    BY <1>1, <2>1, LastHostIsOver
<1>3. CASE helper' = [helper EXCEPT !.at = "gone"]
  <2>1. helper' \in HelperStates /\ helper'.at = "gone" /\ helper'.out = helper.out
    BY <1>1, <1>3 DEF HelperStates
  <2> QED
    BY <1>1, <2>1, LastHostIsOver
<1> QED
  BY <1>2, <1>3 DEF HostAnswers, Respond

(* A host has failed and the next one is asked.                               *)
LEMMA NextHostIsAsked ==
  ASSUME IsWebOrder(order), HelperInv, helper.at = "request", UNCHANGED order,
         NEW next, next = helper.host + 1, next \in DOMAIN HostsOf,
         helper' = [helper EXCEPT !.host = next], sent' = Append(Came("failure"), RequestTo(next))
  PROVE  HelperInv'
<1> DEFINE came == Came("failure")
<1>1. /\ sent \in Seq(WebRequests) /\ sent # <<>> /\ AskedInTurn /\ InItsNames /\ helper \in HelperStates
      /\ helper.out \in {"none", "provider_timeout"} /\ Len(sent) = helper.host
      /\ IsLanguage(order.from, TRUE) /\ IsLanguage(order.to, TRUE)
  BY DEF HelperInv, Helpers, HostsAsked, HelperAnswered
<1>2. /\ came \in Seq(WebRequests) /\ Len(came) = Len(sent)
      /\ \A h \in 1..Len(sent) : /\ came[h].host = sent[h].host /\ came[h].from = sent[h].from
                                 /\ came[h].came = IF h = Len(sent) THEN "failure" ELSE sent[h].came
  BY <1>1, CameLast
<1>3. Len(sent) \in Nat /\ next \in 1..Len(HostsOf) /\ Len(HostsOf) \in 1..2
  BY <1>1, LenProperties, HostsAreSome
<1>4. /\ RequestTo(next) \in WebRequests /\ RequestTo(next).host = HostsOf[next]
      /\ RequestTo(next).from # (IF order.provider = "bing" THEN "auto" ELSE "auto-detect")
  BY <1>1, <1>3, RequestInItsNames
<1> HIDE DEF came
<1>5. /\ sent' \in Seq(WebRequests) /\ Len(sent') = Len(sent) + 1 /\ sent' # <<>>
      /\ \A h \in 1..Len(sent) : sent'[h] = came[h]
      /\ sent'[Len(sent) + 1] = RequestTo(next)
  <2>1. sent' = Append(came, RequestTo(next))
    BY DEF came
  <2>2. /\ Append(came, RequestTo(next)) \in Seq(WebRequests) /\ Append(came, RequestTo(next)) # <<>>
        /\ Len(Append(came, RequestTo(next))) = Len(came) + 1
        /\ \A h \in 1..Len(came) : Append(came, RequestTo(next))[h] = came[h]
        /\ Append(came, RequestTo(next))[Len(came) + 1] = RequestTo(next)
    BY <1>2, <1>4, AppendProperties
  <2> QED
    BY <1>2, <2>1, <2>2
<1>6. /\ helper' \in HelperStates /\ helper'.at = "request" /\ helper'.host = next
      /\ helper'.out = helper.out
  <2>1. next \in 0..2
    BY <1>3
  <2> QED
    BY <1>1, <2>1 DEF HelperStates
<1>7. HostsOf' = HostsOf /\ Len(sent') = next
  BY <1>1, <1>5 DEF HostsOf
<1>8. Helpers'
  BY <1>5, <1>6 DEF Helpers
<1>9. AskedInTurn'
  <2> SUFFICES ASSUME NEW h \in 1..(Len(sent) + 1)
               PROVE  sent'[h].host = HostsOf[h] /\ (h < Len(sent) + 1 => sent'[h].came = "failure")
    BY <1>5, <1>7 DEF AskedInTurn
  <2>1. CASE h = Len(sent) + 1
    BY <1>1, <1>3, <1>4, <1>5, <2>1
  <2>2. CASE h # Len(sent) + 1
    <3>1. h \in 1..Len(sent) /\ sent'[h] = came[h]
      BY <1>3, <1>5, <2>2
    <3> QED
      BY <1>1, <1>2, <1>3, <3>1 DEF AskedInTurn
  <2> QED
    BY <2>1, <2>2
<1>10. InItsNames'
  <2> SUFFICES ASSUME NEW h \in 1..(Len(sent) + 1)
               PROVE  sent'[h].from # (IF order.provider = "bing" THEN "auto" ELSE "auto-detect")
    BY <1>5 DEF InItsNames
  <2>1. CASE h = Len(sent) + 1
    BY <1>4, <1>5, <2>1
  <2>2. CASE h # Len(sent) + 1
    <3>1. h \in 1..Len(sent) /\ sent'[h] = came[h]
      BY <1>3, <1>5, <2>2
    <3> QED
      BY <1>1, <1>2, <3>1 DEF InItsNames
  <2> QED
    BY <2>1, <2>2
<1>11. HostsAsked'
  <2>1. (IsLanguage(order.from, TRUE) /\ IsLanguage(order.to, TRUE))'
    BY <1>1 DEF IsLanguage
  <2>2. sent' # <<>> /\ Len(sent') = helper'.host /\ Len(sent') <= Len(HostsOf')
    <3>1. next <= Len(HostsOf)
      BY <1>3
    <3> QED
      BY <1>5, <1>6, <1>7, <3>1
  <2> QED
    BY <1>6, <1>9, <2>1, <2>2 DEF HostsAsked
<1>12. HelperAnswered'
  BY <1>1, <1>6 DEF HelperAnswered, Codes
<1> QED
  BY <1>8, <1>10, <1>11, <1>12 DEF HelperInv

LEMMA FailureKeeps ==
  ASSUME IsWebOrder(order), HelperInv, NEW signs, HostFails(signs)
  PROVE  HelperInv'
<1>1. helper.at = "request" /\ UNCHANGED order /\ helper \in HelperStates
  BY DEF HostFails, Helper, HelperOnly, HelperInv, Helpers
<1>2. CASE helper.host + 1 \in DOMAIN HostsOf
  <2>1. /\ helper' = [helper EXCEPT !.host = helper.host + 1]
        /\ sent' = Append(Came("failure"), RequestTo(helper.host + 1))
    BY <1>2 DEF HostFails, HostsOf
  <2> QED
    BY <1>1, <1>2, <2>1, NextHostIsAsked
<1>3. CASE helper.host + 1 \notin DOMAIN HostsOf
  <2>1. sent' = Came("failure")
    BY <1>3 DEF HostFails, HostsOf
  <2>2. Len(sent) = Len(HostsOf)
    <3>1. Len(sent) = helper.host /\ Len(sent) <= Len(HostsOf) /\ Len(sent) \in Nat
      BY <1>1, LenProperties DEF HelperInv, HostsAsked, Helpers
    <3>2. Len(HostsOf) \in 1..2 /\ DOMAIN HostsOf = 1..Len(HostsOf)
      BY HostsAreSome
    <3> QED
      BY <1>3, <3>1, <3>2
  <2>3. CASE helper' = [helper EXCEPT !.out = MapProviderError(signs), !.timer = FALSE, !.at = "gone"]
    <3>1. MapProviderError(signs) \in Codes
      BY ErrorsAreCodes
    <3>2. helper' \in HelperStates /\ helper'.at = "gone" /\ helper'.out \in Codes
      BY <1>1, <2>3, <3>1 DEF HelperStates
    <3> QED
      BY <1>1, <2>1, <2>2, <3>2, LastHostIsOver
  <2>4. CASE helper' = [helper EXCEPT !.at = "gone"]
    <3>1. helper' \in HelperStates /\ helper'.at = "gone" /\ helper'.out = helper.out
      BY <1>1, <2>4 DEF HelperStates
    <3> QED
      BY <1>1, <2>1, <3>1, LastHostIsOver
  <2> QED
    BY <1>3, <2>3, <2>4 DEF HostFails, HostsOf, Respond
<1> QED
  BY <1>2, <1>3

------------------------------------------------------------------------------
(* The Python process.                                                        *)

LEMMA AttemptKeeps ==
  ASSUME Cues, Running, NEW out, AttemptOver(out)
  PROVE  Cues' /\ HelperInv'
<1> DEFINE good == out = "good"
           again == ~good /\ try < Retries
           n == Len(order.cues)
<1>1. /\ IsWebOrder(order) /\ n \in Nat /\ n # 0 /\ DOMAIN order.cues = 1..n /\ cue \in 1..n
      /\ try \in 0..Retries /\ Retries \in Nat /\ order' = order
      /\ result \in [1..n -> {"none", "good", "blank"}] /\ errors \subseteq 1..(cue - 1)
  <2>1. order.cues \in Seq(Nat) /\ order.cues # <<>>
    BY DEF Cues, IsWebOrder
  <2>2. n \in Nat /\ n # 0 /\ DOMAIN order.cues = 1..n
    BY <2>1, LenProperties, EmptySeq
  <2>3. cue \in 1..n
    BY <2>2 DEF Cues, Running
  <2> QED
    BY <2>2, <2>3, RetriesAssumption DEF Cues, AttemptOver
<1>2. /\ result' = IF out \in {"good", "blank"} THEN [result EXCEPT ![cue] = out] ELSE result
      /\ try' = IF again THEN try + 1 ELSE 0
      /\ errors' = IF good \/ again THEN errors ELSE errors \cup {cue}
      /\ cue' = IF again THEN cue ELSE cue + 1
      /\ job' = IF ~again /\ cue = n THEN "done" ELSE job
      /\ helper' = NoHelper /\ sent' = <<>>
  BY DEF AttemptOver
<1>3. HelperInv'
  <2>1. helper' = [NoHelper EXCEPT !.at = "gone"]
    BY <1>2 DEF NoHelper
  <2> QED
    BY <1>2, <2>1, FreshHelper
<1>4. job = "running"
  BY DEF Running
<1>5. /\ result' \in [1..n -> {"none", "good", "blank"}] /\ try' \in 0..Retries
      /\ cue' \in 1..(n + 1) /\ errors' \subseteq 1..(cue' - 1)
      /\ job' \in {"running", "done"} /\ (job' = "running" => cue' <= n)
  <2>1. result' \in [1..n -> {"none", "good", "blank"}]
    BY <1>1, <1>2
  <2>2. try' \in 0..Retries
    BY <1>1, <1>2
  <2>3. cue' \in 1..(n + 1) /\ job' \in {"running", "done"} /\ (job' = "running" => cue' <= n)
    BY <1>1, <1>2, <1>4
  <2>4. errors' \subseteq 1..(cue' - 1)
    BY <1>1, <1>2
  <2> QED
    BY <2>1, <2>2, <2>3, <2>4
<1>6. ASSUME NEW c \in 1..n
      PROVE  IF c < cue' THEN c \in errors' <=> result'[c] # "good" ELSE result'[c] # "good"
  <2>1. IF c < cue THEN c \in errors <=> result[c] # "good" ELSE result[c] # "good"
    BY <1>1, <1>6 DEF Cues
  <2>2. CASE c # cue
    <3>1. result'[c] = result[c] /\ (c \in errors' <=> c \in errors) /\ (c < cue' <=> c < cue)
      BY <1>1, <1>2, <2>2
    <3> QED
      BY <2>1, <3>1
  <2>3. CASE c = cue
    <3>1. c \notin errors /\ result[c] # "good"
      BY <1>1, <2>1, <2>3
    <3>2. result'[c] = "good" <=> good
      BY <1>1, <1>2, <2>3, <3>1
    <3>3. c < cue' <=> ~again
      BY <1>1, <1>2, <2>3
    <3>4. c \in errors' <=> ~good /\ ~again
      BY <1>2, <2>3, <3>1
    <3> QED
      BY <3>2, <3>3, <3>4
  <2> QED
    BY <2>2, <2>3
<1>7. Cues'
  BY <1>1, <1>5, <1>6 DEF Cues
<1> QED
  BY <1>3, <1>7

LEMMA WebKeeps == WebInv /\ [WebNext]_webVars => WebInv'
<1> SUFFICES ASSUME Cues, HelperInv, [WebNext]_webVars PROVE Cues' /\ HelperInv'
  BY DEF WebInv, HelperInv
<1>0. IsWebOrder(order)
  BY DEF Cues
<1>1. CASE StartJob
  <2>1. Cues'
    BY <1>1 DEF Cues, StartJob
  <2> QED
    BY <1>1, <2>1, HelperFrame DEF StartJob
<1>2. CASE StartHelper
  BY <1>2, CuesFrame, FreshHelper DEF StartHelper
<1>3. CASE HelperExited \/ HelperKilled \/ HelperDoesNotStart
  BY <1>3, AttemptKeeps DEF HelperExited, HelperKilled, HelperDoesNotStart
<1>4. CASE StopJob
  <2>1. Cues'
    BY <1>4 DEF Cues, StopJob, Running
  <2> QED
    BY <1>4, <2>1, HelperFrame DEF StopJob
<1>5. CASE ReadRequest
  BY <1>5, CuesFrame, ReadKeeps DEF ReadRequest
<1>6. CASE Import
  BY <1>0, <1>6, CuesFrame, ImportKeeps DEF Import
<1>11. ASSUME NEW signs, ImportFails(signs)  PROVE Cues' /\ HelperInv'
  BY <1>11, CuesFrame, ImportFailureKeeps DEF ImportFails
<1>7. CASE HelperTimesOut
  BY <1>7, CuesFrame, TimeoutKeeps DEF HelperTimesOut
<1>8. ASSUME NEW text \in {"good", "blank"}, HostAnswers(text)  PROVE Cues' /\ HelperInv'
  BY <1>0, <1>8, CuesFrame, HostKeeps DEF HostAnswers
<1>9. ASSUME NEW signs, HostFails(signs)  PROVE Cues' /\ HelperInv'
  BY <1>0, <1>9, CuesFrame, FailureKeeps DEF HostFails
<1>10. CASE UNCHANGED webVars
  BY <1>10, CuesFrame, HelperFrame DEF webVars, HelperOnly
<1> QED
  BY <1>1, <1>2, <1>3, <1>4, <1>5, <1>6, <1>7, <1>8, <1>9, <1>10, <1>11 DEF WebNext

LEMMA WebBegins ==
  ASSUME NEW orders, \A o \in orders : IsWebOrder(o), WebInit(orders)
  PROVE  WebInv
<1>1. IsWebOrder(order) /\ order.cues \in Seq(Nat) /\ order.cues # <<>>
  BY DEF WebInit, IsWebOrder
<1>2. Len(order.cues) \in Nat /\ Len(order.cues) # 0 /\ DOMAIN order.cues = 1..Len(order.cues)
  BY <1>1, LenProperties, EmptySeq
<1>3. Cues
  BY <1>1, <1>2, RetriesAssumption DEF WebInit, Cues
<1>4. Helpers
  <2>1. NoHelper \in HelperStates
    BY DEF NoHelper, HelperStates
  <2> QED
    BY <2>1, EmptySeq DEF WebInit, Helpers
<1>5. HostsAsked /\ InItsNames /\ HelperAnswered
  <2>1. helper.at = "gone" /\ helper.out = "none" /\ Len(sent) = 0
    BY EmptySeq DEF WebInit, NoHelper
  <2> QED
    BY <2>1 DEF HostsAsked, AskedInTurn, InItsNames, HelperAnswered, Codes
<1> QED
  BY <1>3, <1>4, <1>5 DEF WebInv

------------------------------------------------------------------------------
(* The invariant holds of every set of jobs with something to translate.      *)
THEOREM WebInvariance ==
  ASSUME NEW orders, \A o \in orders : IsWebOrder(o)
  PROVE  WebSpec(orders) => []WebInv
<1>1. WebInit(orders) => WebInv
  BY WebBegins
<1> QED
  BY <1>1, WebKeeps, PTL DEF WebSpec

(* The variables of the job, of its cues and of the helper keep their types.  *)
THEOREM WebTypeCorrect ==
  ASSUME NEW orders, \A o \in orders : IsWebOrder(o)
  PROVE  WebSpec(orders) => []WebTypeOK
<1>1. ASSUME WebInv PROVE WebTypeOK
  <2>1. /\ IsWebOrder(order) /\ order.cues \in Seq(Nat) /\ cue \in 1..(Len(order.cues) + 1)
        /\ errors \subseteq 1..(cue - 1)
    BY <1>1 DEF WebInv, Cues, IsWebOrder
  <2>2. Len(order.cues) \in Nat /\ DOMAIN order.cues = 1..Len(order.cues)
    BY <2>1, LenProperties
  <2>3. errors \subseteq DOMAIN order.cues
    BY <2>1, <2>2
  <2> QED
    BY <1>1, <2>3 DEF WebInv, Cues, Helpers, HelperStates, WebTypeOK
<1> QED
  BY <1>1, WebInvariance, PTL

(* A text is of the host asked last; once one host was asked, a failure of    *)
(* the provider means that all its hosts failed, each asked in its own names  *)
(* of the languages; and the cues behind are translated or reported, whatever *)
(* the timers, the failed imports and the killed processes do                 *)
(* (helper.mjs:79).                                                           *)
THEOREM AnswerIsTrueHolds ==
  ASSUME NEW orders, \A o \in orders : IsWebOrder(o)
  PROVE  WebSpec(orders) => []AnswerIsTrue
<1>1. ASSUME WebInv PROVE AnswerIsTrue
  <2>1. /\ IsWebOrder(order) /\ order.cues \in Seq(Nat) /\ cue \in 1..(Len(order.cues) + 1)
        /\ sent \in Seq(WebRequests)
    BY <1>1 DEF WebInv, Cues, IsWebOrder, Helpers
  <2>2. /\ Len(order.cues) \in Nat /\ DOMAIN order.cues = 1..Len(order.cues)
        /\ Len(sent) \in Nat /\ DOMAIN sent = 1..Len(sent)
    BY <2>1, LenProperties
  <2>3. Len(HostsOf) \in 1..2 /\ DOMAIN HostsOf = 1..Len(HostsOf)
    BY <2>1, HostsAreSome
  <2>4. \A c \in 1..(cue - 1) : c \in errors <=> result[c] # "good"
    <3> SUFFICES ASSUME NEW c \in 1..(cue - 1) PROVE c \in errors <=> result[c] # "good"
      OBVIOUS
    <3>1. c \in DOMAIN order.cues /\ c < cue
      BY <2>1, <2>2
    <3> QED
      BY <1>1, <3>1 DEF WebInv, Cues
  <2>5. AllFailed /\ AskedInTurn => /\ [h \in DOMAIN sent |-> sent[h].host] = HostsOf
                                    /\ \A h \in DOMAIN sent : sent[h].came = "failure"
    <3> SUFFICES ASSUME AllFailed, AskedInTurn
                 PROVE  /\ [h \in DOMAIN sent |-> sent[h].host] = HostsOf
                        /\ \A h \in DOMAIN sent : sent[h].came = "failure"
      OBVIOUS
    <3>1. DOMAIN sent = DOMAIN HostsOf /\ \A h \in DOMAIN HostsOf : sent[h].host = HostsOf[h]
      BY <2>2, <2>3 DEF AllFailed, AskedInTurn
    <3>2. HostsOf = [h \in DOMAIN HostsOf |-> HostsOf[h]]
      BY <2>3, HostsAreFunctions, <2>1
    <3> QED
      BY <2>2, <3>1, <3>2 DEF AllFailed
  <2>6. \A h \in DOMAIN sent : sent[h].from # (IF order.provider = "bing" THEN "auto" ELSE "auto-detect")
    BY <1>1, <2>2 DEF WebInv, InItsNames
  <2> QED
    BY <1>1, <2>4, <2>5, <2>6 DEF WebInv, HelperAnswered, HostsAsked, AnswerIsTrue, HostsOf
<1> QED
  BY <1>1, WebInvariance, PTL
------------------------------------------------------------------------------
(* The parts together (MCDesktop): a behaviour of the whole is one of each,   *)
(* so that what is proved of the parts is true of the whole.                  *)

SceneNext ==
  OfMain(Next) \/ OfNative(NativeNext) \/ OfWeb(WebNext) \/ OfSetup(EnvNext) \/ OfModels(ModelNext)

LEMMA SceneSteps ==
  ASSUME [SceneNext]_allVars
  PROVE  /\ [Next]_vars /\ [NativeNext]_nativeVars /\ [WebNext]_webVars /\ [EnvNext]_envVars
         /\ [~clashed /\ ModelNext]_modelVars
<1>1. CASE UNCHANGED allVars
  BY <1>1 DEF allVars
<1>2. CASE OfMain(Next)
  BY <1>2 DEF OfMain
<1>3. CASE OfNative(NativeNext)
  BY <1>3 DEF OfNative
<1>4. CASE OfWeb(WebNext)
  BY <1>4 DEF OfWeb
<1>5. CASE OfSetup(EnvNext)
  BY <1>5 DEF OfSetup
<1>6. CASE OfModels(ModelNext)
  BY <1>6 DEF OfModels
<1> QED
  BY <1>1, <1>2, <1>3, <1>4, <1>5, <1>6 DEF SceneNext

LEMMA OrdersAreJobs == \A o \in Orders : IsWebOrder(o)
<1> DEFINE two == <<1000, 1001>>
           short == <<1>>
           long == <<1001>>
<1>1. two \in Seq(Nat) \ {<<>>} /\ short \in Seq(Nat) \ {<<>>} /\ long \in Seq(Nat) \ {<<>>}
  OBVIOUS
<1>2. Orders = {Order("bing", "auto", TRUE, two), Order("bing", "en", FALSE, short),
                Order("google", "auto", TRUE, long)}
  BY DEF Orders
<1> HIDE DEF two, short, long
<1>3. /\ IsWebOrder(Order("bing", "auto", TRUE, two)) /\ IsWebOrder(Order("bing", "en", FALSE, short))
      /\ IsWebOrder(Order("google", "auto", TRUE, long))
  BY <1>1 DEF Order, IsWebOrder
<1> QED
  BY <1>2, <1>3

(* Whatever scene a behaviour of the instance plays, it is one that each      *)
(* component allows: the components are composed without being restricted,    *)
(* or given steps of their own.                                               *)
THEOREM SceneIsOfParts ==
  MCSpec => Spec /\ NativeSpec /\ WebSpec(Orders) /\ EnvSpec /\ ModelSpec
<1>1. MCSpec => MCInit /\ [][SceneNext]_allVars
  BY PTL DEF MCSpec, SceneNext
<1>2. MCInit => Init /\ NativeInit /\ WebInit(Orders) /\ EnvInit /\ ModelInit
  BY DEF MCInit
<1>3. [SceneNext]_allVars
      => /\ [Next]_vars /\ [NativeNext]_nativeVars /\ [WebNext]_webVars /\ [EnvNext]_envVars
         /\ [ModelNext]_modelVars
  BY SceneSteps
<1> QED
  BY <1>1, <1>2, <1>3, PTL DEF Spec, NativeSpec, WebSpec, EnvSpec, ModelSpec

(* Every variable of the processes that the desktop starts, of its installs,  *)
(* of the check page and of the model installer keeps its type.               *)
THEOREM SceneTypesOK == MCSpec => []TypesOK
<1>1. MCSpec => MCInit /\ [][SceneNext]_allVars
  BY PTL DEF MCSpec, SceneNext
<1>2. MCInit => PartsInv
  BY PartsBegin DEF MCInit
<1>3. PartsInv /\ [SceneNext]_allVars => PartsInv'
  <2> SUFFICES ASSUME PartsInv, [SceneNext]_allVars PROVE PartsInv'
    OBVIOUS
  <2> QED
    BY SceneSteps, PartsUntilClash
<1>4. MCSpec => []PartsInv
  BY <1>1, <1>2, <1>3, PTL
<1>5. PartsInv => ModelTypeOK
  BY PartsAreTyped
<1>6. WebSpec(Orders) => []WebTypeOK
  BY OrdersAreJobs, WebTypeCorrect
<1>7. TypeOK /\ NativeTypeOK /\ WebTypeOK /\ EnvTypeOK /\ ModelTypeOK => TypesOK
  BY DEF TypesOK
<1> QED
  BY <1>4, <1>5, <1>6, <1>7, SceneIsOfParts, TypeCorrect, NativeTypeCorrect, EnvTypeCorrect, PTL
==============================================================================
