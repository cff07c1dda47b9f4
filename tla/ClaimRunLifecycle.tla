-------------------------- MODULE ClaimRunLifecycle --------------------------
(***************************************************************************)
(* What the claim pipeline promises, without workers, checkpoints or       *)
(* crashes: the life of a claim's runs and of the status its row shows.    *)
(*                                                                         *)
(* A claim has at most one run in flight.  A run is queued, running, or    *)
(* over with one of four outcomes; an interrupted run goes back to the     *)
(* queue; a finished one never comes back, and only a finished one lets    *)
(* the next attempt be queued.  The row's status changes only while a run  *)
(* of the claim is executing, and a run is over only once the row shows    *)
(* its outcome.                                                            *)
(***************************************************************************)
EXTENDS Naturals

CONSTANT Claims

VARIABLES
  attempts,   \* attempts[c]: number of runs queued for claim c so far
  phase,      \* phase[c]: where the latest of those runs stands
  published   \* published[c]: the status on the claim's row

lifecycleVars == <<attempts, phase, published>>

Outcomes == {"auto_approved", "escalated", "failed", "halted"}
InFlightPhases == {"queued", "running"}

\* The row status an outcome is shown as; a halt keeps the claim "pending".
ShownAs == [o \in Outcomes |-> IF o = "halted" THEN "pending" ELSE o]

LifecycleInit ==
  /\ attempts = [c \in Claims |-> 0]
  /\ phase = [c \in Claims |-> "none"]
  /\ published = [c \in Claims |-> "absent"]

Receive(c) ==
  /\ published[c] = "absent"
  /\ published' = [published EXCEPT ![c] = "pending"]
  /\ UNCHANGED <<attempts, phase>>

Enqueue(c) ==
  /\ published[c] # "absent"
  /\ phase[c] \in {"none"} \cup Outcomes
  /\ attempts' = [attempts EXCEPT ![c] = @ + 1]
  /\ phase' = [phase EXCEPT ![c] = "queued"]
  /\ UNCHANGED published

Start(c) ==
  /\ phase[c] = "queued"
  /\ phase' = [phase EXCEPT ![c] = "running"]
  /\ UNCHANGED <<attempts, published>>

GiveBack(c) ==
  /\ phase[c] = "running"
  /\ phase' = [phase EXCEPT ![c] = "queued"]
  /\ UNCHANGED <<attempts, published>>

Publish(c, o) ==
  /\ phase[c] = "running"
  /\ published' = [published EXCEPT ![c] = ShownAs[o]]
  /\ UNCHANGED <<attempts, phase>>

Finish(c, o) ==
  /\ phase[c] = "running"
  /\ published[c] = ShownAs[o]
  /\ phase' = [phase EXCEPT ![c] = o]
  /\ UNCHANGED <<attempts, published>>

LifecycleNext ==
  \E c \in Claims :
    \/ Receive(c) \/ Enqueue(c) \/ Start(c) \/ GiveBack(c)
    \/ \E o \in Outcomes : Publish(c, o) \/ Finish(c, o)

LifecycleSpec == LifecycleInit /\ [][LifecycleNext]_lifecycleVars

=============================================================================
