--------------------------- MODULE DaemonProcess ---------------------------
(***************************************************************************)
(* DaemonProcessManager of the Electron main process: it spawns the Go     *)
(* daemon, reads the one ready line the daemon prints, remembers the       *)
(* session, stops the daemon and starts another (repair).  Its methods are *)
(* async: every caller waits on its own promise, and between two awaits of *)
(* one caller the others run.                                              *)
(*                                                                         *)
(* A caller (a REST call, a stream of events, an IPC handler) goes through *)
(* the phases of ensureStarted and stop here; what it does with the        *)
(* session it gets is the business of the module that extends this one.    *)
(***************************************************************************)
EXTENDS Naturals, FiniteSets

CONSTANTS Callers,   \* async calls that may be under way together
          Pids,      \* daemon processes that may exist
          NoPid,     \* null
          Windows,   \* stop() waits for taskkill there
          Faults     \* what may go wrong: see FaultsAssumption

ASSUME PidsAssumption == IsFiniteSet(Pids) /\ NoPid \notin Pids
ASSUME WindowsAssumption == Windows \in BOOLEAN
ASSUME FaultsAssumption ==
  Faults \subseteq {"crash",     \* a daemon exits by itself
                    "hang",      \* a daemon prints nothing for 15 s
                    "garbage",   \* its first line is no ready JSON
                    "missing",   \* no executable is found
                    "denied",    \* the daemon answers 401
                    "refuses"}   \* the daemon knows of no ffmpeg

VARIABLES
  proc,      \* [Pids -> Life]: the processes the operating system has
  line,      \* [Pids -> ...]: the first line on the stdout of each
  child,     \* this.child
  session,   \* this.session: the pid in it stands for the whole session
  quitting,  \* before-quit has come: the last stop has begun
  pc,        \* [Callers -> Phase]
  at,        \* [Callers -> Pids or NoPid]: the daemon a caller waits for or has
  crossed,   \* history: the callers whose start or stop met another's start
  strays     \* history: the daemons that were lost by such a caller

raced == <<crossed, strays>>
childVars == <<proc, line, child, session>>
procVars == <<childVars, quitting, pc, at, raced>>

(* "dead": the exit event is still to come; "none": gone, or never spawned.   *)
Life == {"none", "starting", "serving", "dead"}
Phase == {"idle",      \* no call
          "native",    \* awaits an answer about ffmpeg
          "env",       \* awaits scrubbedEnv
          "await",     \* awaits the promise of startOwnedDaemon
          "have",      \* ensureStarted has returned a session
          "failed",    \* ensureStarted has thrown
          "tree",      \* awaits killWindowsProcessTree
          "reading",   \* reads a stream of events
          "backoff"}   \* waits before it connects again

ProcTypeOK ==
  /\ proc \in [Pids -> Life]
  /\ line \in [Pids -> {"none", "sent", "read"}]
  /\ child \in Pids \cup {NoPid}
  /\ session \in Pids \cup {NoPid}
  /\ quitting \in BOOLEAN
  /\ pc \in [Callers -> Phase]
  /\ at \in [Callers -> Pids \cup {NoPid}]
  /\ crossed \subseteq Callers /\ strays \subseteq Pids

ProcInit ==
  /\ proc = [p \in Pids |-> "none"]
  /\ line = [p \in Pids |-> "none"]
  /\ child = NoPid
  /\ session = NoPid
  /\ quitting = FALSE
  /\ pc = [c \in Callers |-> "idle"]
  /\ at = [c \in Callers |-> NoPid]
  /\ crossed = {} /\ strays = {}

Alive(p) == p \in Pids /\ proc[p] \in {"starting", "serving"}

(* A start is under way: from the check that found no session to its promise. *)
Starting == {c \in Callers : pc[c] \in {"env", "await"}}
Stopping == {c \in Callers : pc[c] = "tree"}

(* The one field this.child is all that the manager knows of its daemons: who  *)
(* sets it while a start is under way may lose sight of the daemon in it.      *)
Cross(c, others) ==
  crossed' = IF others = {} THEN crossed \ {c}
             ELSE crossed \cup {c} \cup {d \in others : pc[d] # "await"}
Uncross(c) == crossed' = crossed \ {c}
DeadAreNone == strays' = {p \in strays : Alive(p)'}
Lost(c) == strays \cup {p \in {child} : c \in crossed /\ Alive(p)}

(* The check of resolveDaemonCommand, and the start as far as scrubbedEnv.     *)
BeginStart(c) ==
  /\ at' = [at EXCEPT ![c] = NoPid]
  /\ \/ /\ "missing" \in Faults
        /\ pc' = [pc EXCEPT ![c] = "failed"]
        /\ Uncross(c)
     \/ /\ pc' = [pc EXCEPT ![c] = "env"]
        /\ Cross(c, (Starting \cup Stopping) \ {c})

(* Pids are recycled once nothing refers to the dead process any more.        *)
Free == {p \in Pids : /\ p \notin {child, session}
                      /\ proc[p] = "none" /\ line[p] # "sent"
                      /\ \A c \in Callers : at[c] # p}

-------------------------------------------------------------------------------
(* ensureStarted, up to its first await: the session is returned when there   *)
(* is one, alive or not; else startOwnedDaemon begins, unless no executable   *)
(* is found.  Nothing records that a start is under way.                      *)
Ask(c) ==
  \/ /\ session # NoPid
     /\ pc' = [pc EXCEPT ![c] = "have"]
     /\ at' = [at EXCEPT ![c] = session]
     /\ UNCHANGED raced
  \/ /\ session = NoPid
     /\ BeginStart(c)
     /\ UNCHANGED strays

(* Faulty: the first child that was ever spawned stays this.child.            *)
SpawnFirst(c) ==
  /\ pc[c] = "env"
  /\ Uncross(c) /\ UNCHANGED <<session, quitting>>
  /\ \/ /\ Free = {}
        /\ pc' = [pc EXCEPT ![c] = "failed"]
        /\ UNCHANGED <<childVars, at, strays>>
     \/ /\ Free # {}
        /\ LET p == CHOOSE p \in Free : TRUE IN
             /\ proc' = [proc EXCEPT ![p] = "starting"]
             /\ line' = [line EXCEPT ![p] = "none"]
             /\ at' = [at EXCEPT ![c] = p]
             /\ child' = IF child = NoPid THEN p ELSE child
             /\ strays' = (Lost(c) \ {p}) \cup (IF quitting THEN {p} ELSE {})
        /\ pc' = [pc EXCEPT ![c] = "await"]

(* The environment is ready: the process is spawned and becomes this.child,   *)
(* whatever this.child was.  After the last stop nobody will look for it.     *)
(* With every pid in use the start fails as if no executable were there: the  *)
(* bound Pids.                                                                *)
Spawn(c) ==
  /\ pc[c] = "env"
  /\ Uncross(c) /\ UNCHANGED <<session, quitting>>
  /\ \/ /\ Free = {}
        /\ pc' = [pc EXCEPT ![c] = "failed"]
        /\ UNCHANGED <<childVars, at, strays>>
     \/ /\ Free # {}
        /\ LET p == CHOOSE p \in Free : TRUE IN
             /\ proc' = [proc EXCEPT ![p] = "starting"]
             /\ line' = [line EXCEPT ![p] = "none"]
             /\ at' = [at EXCEPT ![c] = p]
             /\ child' = p
             /\ strays' = (Lost(c) \ {p}) \cup (IF quitting THEN {p} ELSE {})
        /\ pc' = [pc EXCEPT ![c] = "await"]

(* The callers whose promise a handler of p settles: none after a timeout.    *)
Waiting(p) == {c \in Callers : pc[c] = "await" /\ at[c] = p}
Settle(p, phase) ==
  /\ pc' = [c \in Callers |-> IF c \in Waiting(p) THEN phase ELSE pc[c]]
  /\ at' = [c \in Callers |-> IF c \in Waiting(p) /\ phase = "failed" THEN NoPid ELSE at[c]]

(* kill() and taskkill only send a signal: a daemon counts as gone from then  *)
(* on, for it does nothing more for the manager.  The exit event of a killed  *)
(* child matters to who waits for it only.                                    *)
Kill(p) == [proc EXCEPT ![p] = IF ~Alive(p) THEN @
                               ELSE IF Waiting(p) = {} THEN "none" ELSE "dead"]

(* rl.once("line"): the session is set, also for a start that has timed out   *)
(* or was stopped meanwhile, when the line was already in the pipe.           *)
ReadyLine(p) ==
  /\ line[p] = "sent"
  /\ line' = [line EXCEPT ![p] = "read"]
  /\ session' = p
  /\ Settle(p, "have")
  /\ UNCHANGED <<proc, child, quitting, raced>>

(* ... or the line is no ready JSON: reject, and kill the child.              *)
GarbageLine(p) ==
  /\ "garbage" \in Faults
  /\ line[p] = "sent"
  /\ line' = [line EXCEPT ![p] = "read"]
  /\ proc' = [proc EXCEPT ![p] = "none"]
  /\ Settle(p, "failed")
  /\ DeadAreNone /\ UNCHANGED <<child, session, quitting, crossed>>

(* child.once("exit"): the start fails at once, but only while no session is  *)
(* set; the exit of a daemon that has served changes nothing.                 *)
ChildExits(p) ==
  /\ proc[p] = "dead"
  /\ proc' = [proc EXCEPT ![p] = "none"]
  /\ IF session = NoPid THEN Settle(p, "failed") ELSE UNCHANGED <<pc, at>>
  /\ UNCHANGED <<line, child, session, quitting, raced>>

(* Faulty: the exit handler also clears the timer when it does not reject.    *)
ReadyTimeoutCleared(c) ==
  /\ pc[c] = "await"
  /\ "hang" \in Faults /\ Alive(at[c])
  /\ line[at[c]] # "read"
  /\ proc' = [proc EXCEPT ![at[c]] = "none"]
  /\ pc' = [pc EXCEPT ![c] = "failed"]
  /\ at' = [at EXCEPT ![c] = NoPid]
  /\ DeadAreNone /\ UNCHANGED <<line, child, session, quitting, crossed>>

(* The 15 s are over: reject, and kill the child.                             *)
ReadyTimeout(c) ==
  /\ pc[c] = "await"
  /\ line[at[c]] # "read"
  /\ "hang" \in Faults \/ ~Alive(at[c])
  /\ proc' = [proc EXCEPT ![at[c]] = "none"]
  /\ pc' = [pc EXCEPT ![c] = "failed"]
  /\ at' = [at EXCEPT ![c] = NoPid]
  /\ DeadAreNone /\ UNCHANGED <<line, child, session, quitting, crossed>>

-------------------------------------------------------------------------------
(* stop, and the stop that repair begins with *)

(* Faulty: stop kills the process of the session only, never a starting one.  *)
StopSessionOnly(c) ==
  /\ proc' = [p \in Pids |-> IF p = session THEN Kill(p)[p] ELSE proc[p]]
  /\ pc' = [pc EXCEPT ![c] = "tree"]
  /\ at' = [at EXCEPT ![c] = NoPid]
  /\ Cross(c, Starting \ {c}) /\ DeadAreNone
  /\ UNCHANGED <<line, child, session>>

(* Up to the await of killWindowsProcessTree: the child is killed, and on     *)
(* Windows the process tree of the session known now.                         *)
Stop(c) ==
  /\ proc' = [p \in Pids |-> IF p = child \/ (Windows /\ p = session)
                             THEN Kill(p)[p] ELSE proc[p]]
  /\ pc' = [pc EXCEPT ![c] = "tree"]
  /\ at' = [at EXCEPT ![c] = NoPid]
  /\ Cross(c, Starting \ {c}) /\ DeadAreNone
  /\ UNCHANGED <<line, child, session>>

(* After it: whoever is this.child and this.session by now is forgotten.      *)
Forget(c) ==
  /\ child' = NoPid
  /\ session' = NoPid
  /\ strays' = Lost(c)
  /\ UNCHANGED <<proc, line>>

(* repair goes on with ensureStarted, which finds no session.                 *)
Restart(c) ==
  /\ pc[c] = "tree"
  /\ Forget(c)
  /\ BeginStart(c)
  /\ UNCHANGED quitting

-------------------------------------------------------------------------------
(* The daemon processes *)

(* serve has bound its port and prints the ready JSON.                        *)
PrintReady(p) ==
  /\ proc[p] = "starting"
  /\ proc' = [proc EXCEPT ![p] = "serving"]
  /\ line' = [line EXCEPT ![p] = "sent"]
  /\ UNCHANGED <<child, session, quitting, pc, at, raced>>

(* A line in the pipe of a dead child that nobody will read.                  *)
LoseLine(p) ==
  /\ ~Alive(p) /\ line[p] = "sent"
  /\ line' = [line EXCEPT ![p] = "none"]
  /\ UNCHANGED <<proc, child, session, quitting, pc, at, raced>>

Crash(p) ==
  /\ "crash" \in Faults
  /\ Alive(p)
  /\ proc' = Kill(p)
  /\ DeadAreNone /\ UNCHANGED <<line, child, session, quitting, pc, at, crossed>>

ChildEvent(p) == ReadyLine(p) \/ GarbageLine(p) \/ ChildExits(p)

-------------------------------------------------------------------------------
(* Properties *)

(* Every daemon that runs is this.child, the one that stop() will kill, or    *)
(* was lost where a start met another start or a stop.  (daemonProcess.ts has *)
(* one field for the child: no path that spawns, times out, reads garbage,    *)
(* crashes or restarts without meeting another may leave a daemon behind.)    *)
OneDaemon == \A p \in Pids : Alive(p) => p = child \/ p \in strays

==============================================================================
