---------------------------- MODULE RollingUpdate ----------------------------
(***************************************************************************)
(* The rolling updater (cluster_rolling_updater.py): the thread of a       *)
(* rollout, the threads that update the nodes of a batch, and the calls    *)
(* that start, pause, resume and abort, which arrive on HTTP threads.      *)
(*                                                                         *)
(* The calls hold the updater's lock; the thread takes it to write the     *)
(* phase, and reads the pause and abort events without it.  `pc` is where  *)
(* the thread is between two such accesses.  It reads the statuses of the  *)
(* nodes from the registry, which changes under it (MasterRegistry).       *)
(* update_fn is the user's; the wait for a node may time out at any time.  *)
(***************************************************************************)
EXTENDS Integers, FiniteSets

CONSTANTS
  Node,
  BatchSize,    \* batch_size
  GatePercent,  \* health_gate_ratio, in percent
  AliveFirst,   \* update_order is "alive_first" and not "stable_first"
  MaxRollouts,  \* bound on the rollouts that are started
  MaxChanges    \* bound on the changes of the registry

ASSUME NodeAssumption == IsFiniteSet(Node)
ASSUME ParameterAssumption ==
  /\ BatchSize \in Nat \ {0} /\ GatePercent \in 0 .. 99 /\ AliveFirst \in BOOLEAN
  /\ MaxRollouts \in Nat /\ MaxChanges \in Nat

VARIABLES
  status,    \* of the nodes in the registry; "gone" without a record
  changes,
  phase,     \* _phase
  paused,    \* _pause_event
  aborted,   \* _abort_event
  outcome,   \* _outcomes; "none" for a node that is not part of the rollout
  pc,        \* the thread of the rollout
  todo,      \* the nodes of the batches to come
  first,     \* those that were alive when the batches were made
  batch,     \* the batch under way
  worker,    \* _update_one of a node: updating it, or waiting for it
  rollouts

registry == <<status, changes>>
control == <<phase, paused, aborted>>
work == <<outcome, todo, first, batch, worker>>
vars == <<status, changes, phase, paused, aborted, outcome, pc, todo, first,
          batch, worker, rollouts>>

Statuses == {"alive", "quarantined", "dead", "leaving", "gone"}
Active == {"running", "paused"}
Ended == {"done", "failed", "aborted"}
Stages == {"off", "begin", "next", "pauseCheck", "pausing", "pauseLoop",
           "pauseAbort", "gate", "closing", "gateLoop", "gateAbort", "opening",
           "launch", "join"}

Init ==
  /\ status \in [Node -> {"alive", "quarantined", "dead"}] /\ changes = 0
  /\ phase = "idle" /\ paused = FALSE /\ aborted = FALSE
  /\ outcome = [n \in Node |-> "none"]
  /\ pc = "off" /\ todo = {} /\ first = {} /\ batch = {}
  /\ worker = [n \in Node |-> "off"]
  /\ rollouts = 0

-----------------------------------------------------------------------------
(* The registry: a node times out, is revived, promoted or quarantined,     *)
(* leaves, is purged, joins.                                                *)

Follows(s) ==
  CASE s = "alive" -> {"dead", "leaving"}
    [] s = "quarantined" -> {"alive", "dead", "leaving"}
    [] s = "dead" -> {"alive", "quarantined", "leaving", "gone"}
    [] s = "leaving" -> {"gone", "alive"}
    [] s = "gone" -> {"alive"}

StatusChanges(n) ==
  /\ changes < MaxChanges
  /\ changes' = changes + 1
  /\ \E s \in Follows(status[n]) : status' = [status EXCEPT ![n] = s]
  /\ UNCHANGED <<control, work, pc, rollouts>>

-----------------------------------------------------------------------------
(* The calls.                                                               *)

StartRollout ==
  /\ phase \notin Active /\ rollouts < MaxRollouts
  /\ phase' = "running" /\ paused' = FALSE /\ aborted' = FALSE
  /\ outcome' = [n \in Node |-> "none"]
  /\ pc' = "begin"
  /\ rollouts' = rollouts + 1
  /\ UNCHANGED <<registry, todo, first, batch, worker>>

Pause ==
  /\ phase = "running" /\ ~paused
  /\ paused' = TRUE
  /\ UNCHANGED <<registry, work, phase, aborted, pc, rollouts>>

Resume ==
  /\ phase = "paused"
  /\ phase' = "running" /\ paused' = FALSE
  /\ UNCHANGED <<registry, work, aborted, pc, rollouts>>

\* Clearing the pause is meant to wake up a thread that waits for it.
Abort ==
  /\ phase \in Active /\ (~aborted \/ paused)
  /\ aborted' = TRUE /\ paused' = FALSE
  /\ UNCHANGED <<registry, work, phase, pc, rollouts>>

-----------------------------------------------------------------------------
(* The thread of the rollout.                                               *)

Goes(a, b) == pc = a /\ pc' = b
Idle == UNCHANGED <<registry, rollouts>>
Enters(p) == phase' = p /\ UNCHANGED <<paused, aborted>>

Over(p) == pc' = "off" /\ Enters(p) /\ UNCHANGED work

Eligible == {n \in Node : status[n] \in {"alive", "quarantined"}}

Begin ==
  /\ pc = "begin" /\ Idle
  /\ IF Eligible = {} THEN Over("done")
     ELSE /\ pc' = "next"
          /\ outcome' = [n \in Node |-> IF n \in Eligible THEN "pending" ELSE "none"]
          /\ todo' = Eligible
          /\ first' = {n \in Eligible : AliveFirst /\ status[n] = "alive"}
          /\ UNCHANGED <<control, batch, worker>>

\* Mutant: a last batch that is not full is left out.
Finish_Early ==
  pc = "next" /\ Cardinality(todo) < BatchSize /\ Over("done") /\ Idle

Finish == pc = "next" /\ todo = {} /\ Over("done") /\ Idle

\* Events are read one after the other, without the lock.
AbortCheck ==
  /\ pc = "next" /\ todo # {} /\ Idle
  /\ \/ aborted /\ Over("aborted")
     \/ ~aborted /\ pc' = "pauseCheck" /\ UNCHANGED <<control, work>>

PauseCheck ==
  /\ pc = "pauseCheck" /\ pc' = IF paused THEN "pausing" ELSE "gate"
  /\ Idle /\ UNCHANGED <<control, work>>

EnterPause ==
  Goes("pausing", "pauseLoop") /\ Enters("paused") /\ Idle /\ UNCHANGED work

PauseLoop ==
  /\ pc = "pauseLoop" /\ pc' = IF paused THEN "pauseAbort" ELSE "gate"
  /\ Idle /\ UNCHANGED <<control, work>>

PauseAbort ==
  /\ pc = "pauseAbort" /\ Idle
  /\ \/ aborted /\ Over("aborted")
     \/ ~aborted /\ pc' = "pauseLoop" /\ UNCHANGED <<control, work>>

Known == {n \in Node : status[n] # "gone"}
Alive == {n \in Node : status[n] = "alive"}
\* (Bound, the sets are found by TLC in temporal formulas too.)
GateOk == \E a \in {Alive}, k \in {Known} :
  100 * Cardinality(a) >= GatePercent * Cardinality(k)

Gate ==
  /\ pc = "gate" /\ pc' = IF GateOk THEN "launch" ELSE "closing"
  /\ Idle /\ UNCHANGED <<control, work>>

CloseGate ==
  Goes("closing", "gateLoop") /\ Enters("paused") /\ Idle /\ UNCHANGED work

\* Mutant: a closed gate stays closed.
GateLoop_Shut == Goes("gateLoop", "gateAbort") /\ Idle /\ UNCHANGED <<control, work>>

GateLoop ==
  /\ pc = "gateLoop" /\ pc' = IF GateOk THEN "opening" ELSE "gateAbort"
  /\ Idle /\ UNCHANGED <<control, work>>

\* Mutant: an abort is not noticed while the gate is closed.
GateAbort_Deaf ==
  Goes("gateAbort", "gateLoop") /\ Idle /\ UNCHANGED <<control, work>>

GateAbort ==
  /\ pc = "gateAbort" /\ Idle
  /\ \/ aborted /\ Over("aborted")
     \/ ~aborted /\ pc' = "gateLoop" /\ UNCHANGED <<control, work>>

OpenGate ==
  Goes("opening", "launch") /\ Enters("running") /\ Idle /\ UNCHANGED work

NextBatch(b) ==
  /\ Cardinality(b) = BatchSize \/ (b = todo /\ Cardinality(b) < BatchSize)
  /\ b \subseteq first \/ todo \cap first \subseteq b

Launch == \E b \in SUBSET todo :
  /\ NextBatch(b)
  /\ Goes("launch", "join")
  /\ batch' = b /\ todo' = todo \ b
  /\ worker' = [n \in Node |-> IF n \in b THEN "updating" ELSE worker[n]]
  /\ Idle /\ UNCHANGED <<control, outcome, first>>

\* Mutant: the thread goes on as soon as one node of the batch is ready.
Joined_Any == \E n \in batch : worker[n] = "off"
Joined == \A n \in batch : worker[n] = "off"

\* Mutant: failures count only when the whole batch has failed.
Failed_All == \A n \in batch : outcome[n] = "failed"
Failed == \E n \in batch : outcome[n] = "failed"

Join ==
  /\ pc = "join" /\ Joined /\ Idle
  /\ batch' = {} /\ UNCHANGED <<outcome, todo, first, worker>>
  /\ \/ Failed /\ pc' = "off" /\ Enters("failed")
     \/ ~Failed /\ pc' = "next" /\ UNCHANGED control

-----------------------------------------------------------------------------
(* The thread of a node.                                                    *)

Worked(n, result) ==
  /\ worker' = [worker EXCEPT ![n] = "off"]
  /\ outcome' = [outcome EXCEPT ![n] = result]
  /\ UNCHANGED <<registry, control, pc, todo, first, batch, rollouts>>

UpdateReturns(n) ==
  /\ worker[n] = "updating"
  /\ worker' = [worker EXCEPT ![n] = "waiting"]
  /\ UNCHANGED <<registry, control, pc, outcome, todo, first, batch, rollouts>>

UpdateRaises(n) == worker[n] = "updating" /\ Worked(n, "failed")

\* The status may be that of before the update.
NodeBack(n) == worker[n] = "waiting" /\ status[n] = "alive" /\ Worked(n, "updated")

\* Mutant: the node is skipped.
NodeLate_Skips(n) == worker[n] = "waiting" /\ Worked(n, "skipped")

NodeLate(n) == worker[n] = "waiting" /\ Worked(n, "failed")

-----------------------------------------------------------------------------
RolloutThread ==
  \/ Begin \/ Finish \/ AbortCheck \/ PauseCheck \/ EnterPause
  \/ PauseLoop \/ PauseAbort \/ Gate \/ CloseGate \/ GateLoop \/ GateAbort
  \/ OpenGate \/ Launch \/ Join

Worker(n) == UpdateReturns(n) \/ UpdateRaises(n) \/ NodeBack(n) \/ NodeLate(n)

Next ==
  \/ StartRollout \/ Pause \/ Resume \/ Abort
  \/ RolloutThread
  \/ \E n \in Node : Worker(n) \/ StatusChanges(n)

Spec == Init /\ [][Next]_vars

\* The threads run, update_fn returns or raises and the wait for a node ends.
\* Nobody has to call anything, and no node has to come back.
FairSpec ==
  Spec /\ WF_vars(RolloutThread) /\ \A n \in Node : WF_vars(Worker(n))

-----------------------------------------------------------------------------
(* Properties.                                                              *)

\* The types of the variables.
TypeOK ==
  /\ status \in [Node -> Statuses] /\ changes \in 0 .. MaxChanges
  /\ phase \in {"idle"} \cup Active \cup Ended
  /\ paused \in BOOLEAN /\ aborted \in BOOLEAN
  /\ outcome \in [Node -> {"none", "pending", "updated", "failed"}]
  /\ pc \in Stages
  /\ todo \subseteq Node /\ first \subseteq Node /\ batch \subseteq Node
  /\ worker \in [Node -> {"off", "updating", "waiting"}]
  /\ rollouts \in 0 .. MaxRollouts

\* At most batch_size nodes are being updated, and none once the rollout has
\* ended, so that the next one finds nobody at work.
BatchAtATime ==
  LET busy == {n \in Node : worker[n] # "off"} IN
  /\ Cardinality(busy) <= BatchSize
  /\ phase \notin Active => busy = {}

\* A rollout that ends as "done" has updated every node it began with, however
\* it was paused, resumed and aborted in between.
DoneMeansAll ==
  phase = "done" => \A n \in Node : outcome[n] \in {"none", "updated"}

\* After a node has failed nobody else is touched in this rollout.
FailureStops ==
  [][ (\E n \in Node : outcome[n] = "failed") /\ rollouts' = rollouts
        => \A n \in Node : worker[n] = "off" => worker'[n] = "off" ]_vars

\* An abort ends the rollout, whatever it waits for and whoever pauses it again.
AbortEnds == aborted /\ phase \in Active ~> phase \notin Active

\* A rollout ends when nobody keeps it paused and enough nodes stay alive.
RolloutEnds == <>[](~paused /\ GateOk) => <>[](phase \notin Active)

\* Not a property of this code: a rollout that is paused when it is aborted
\* touches no further node.  Clearing the pause ends the wait before the abort
\* is looked at, and the next look comes after the next batch.
AbortStops ==
  [][ aborted /\ phase = "paused"
        => \A n \in Node : worker[n] = "off" => worker'[n] = "off" ]_vars
=============================================================================
