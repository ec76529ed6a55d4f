---------------------------- MODULE JobLifecycle ----------------------------
(* What the job manager promises of a job, seen through GET /v1/jobs: a       *)
(* status that moves along the edges of internal/jobs/types.go, a limit on    *)
(* the active jobs, and the end of the daemon, after which only what the job  *)
(* files say comes back.                                                      *)
EXTENDS Naturals, FiniteSets

CONSTANTS Jobs, MaxRunning

VARIABLE life   \* the status of each job, "absent" when the manager has none

Terminal == {"succeeded", "failed", "canceled", "interrupted"}
Active == {"running", "canceling"}
Lives == {"absent", "created", "queued", "garbled"} \cup Active \cup Terminal

LifecycleInit == life = [j \in Jobs |-> "absent"]

(* One job moves, from one of the statuses in from to one of those in to.     *)
Move(j, from, to) ==
  /\ life[j] \in from
  /\ \E s \in to : life' = [life EXCEPT ![j] = s]

Submit(j) == Move(j, {"absent"}, {"created"})

(* A job can be canceled before it was put on the queue, and is queued then.  *)
Queue(j) == Move(j, {"created", "canceled"}, {"queued"})

Start(j) == /\ Cardinality({k \in Jobs : life[k] \in Active}) < MaxRunning
            /\ Move(j, {"queued"}, {"running"})

Cancel(j) == \/ Move(j, {"created", "queued"}, {"canceled"})
             \/ Move(j, {"running"}, {"canceling"})

(* A cancel prevails over the result; without one the job may still end       *)
(* canceled, when the daemon shuts down.                                      *)
End(j) == \/ Move(j, {"running"}, {"succeeded", "failed", "canceled"})
          \/ Move(j, {"canceling"}, {"canceled"})

Forget(j) == Move(j, Terminal, {"absent"})

Die == life' = [j \in Jobs |-> "absent"]

(* No job comes back as active or as not yet queued.                          *)
Return(j) == Move(j, {"absent"}, {"queued", "garbled"} \cup Terminal)

LifecycleNext == Die \/ \E j \in Jobs : \/ Submit(j) \/ Queue(j) \/ Start(j) \/ Cancel(j)
                                        \/ End(j) \/ Forget(j) \/ Return(j)

Lifecycle == LifecycleInit /\ [][LifecycleNext]_life
=============================================================================
