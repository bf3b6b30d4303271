---------------------------- MODULE JobLifecycle ----------------------------
(***************************************************************************)
(* What the hub and the store promise about jobs, with no goroutine, stream *)
(* or agent in sight: the jobs of a request appear together, a job waits,   *)
(* runs and is over, in this order, and a fan-out is over only after its    *)
(* children. The last promise lasts until a store call fails.               *)
(***************************************************************************)
CONSTANTS Job, Parent, AgentOf, None

VARIABLES
  phase,   \* "absent", "queued", "running" or "done", for each job
  faulty   \* has a store call failed?

vars == <<phase, faulty>>

Kids(p) == {c \in Job : Parent[c] = p}

Init ==
  /\ phase = [j \in Job |-> "absent"]
  /\ faulty = FALSE

(* A request: a fan-out starts at once and its children queue; a pinned job *)
(* queues, or is over at once when no target can be resolved for it.        *)
Submit(j) ==
  /\ Parent[j] = None /\ phase[j] = "absent"
  /\ \E first \in IF AgentOf[j] = None THEN {"running"} ELSE {"queued", "done"} :
       phase' = [k \in Job |-> IF k = j THEN first
                               ELSE IF Parent[k] = j THEN "queued" ELSE phase[k]]

(* An agent's send loop takes the job.                                      *)
Start(j) ==
  /\ phase[j] = "queued"
  /\ phase' = [phase EXCEPT ![j] = "running"]

(* A result, a disconnect or a timeout ends it.                             *)
Finish(j) ==
  /\ phase[j] \in {"queued", "running"}
  /\ AgentOf[j] # None \/ faulty \/ \A c \in Kids(j) : phase[c] = "done"
  /\ phase' = [phase EXCEPT ![j] = "done"]

Next ==
  /\ \/ \E j \in Job : Submit(j) \/ Start(j) \/ Finish(j)
     \/ UNCHANGED phase
  /\ faulty' \in BOOLEAN /\ (faulty => faulty')

Spec == Init /\ [][Next]_vars
=============================================================================
