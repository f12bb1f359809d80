----------------------------- MODULE Remediation -----------------------------
(***************************************************************************)
(* ClusterRemediator (cluster_remediator.py) and its hooks in the rings of  *)
(* HuddleCluster: evictions, open circuits, long rests and operators start  *)
(* actions that quarantine a server; rotate() promotes nobody in            *)
(* quarantine; a promotion of a cooled server ends it.                      *)
(*                                                                         *)
(* The hooks run inside the cluster's lock, for as long as the user's       *)
(* action takes, except for an eviction that ends a drain, which runs       *)
(* outside of it (HuddleRings), and an operator's clear_quarantine.         *)
(***************************************************************************)
EXTENDS Naturals, FiniteSets

CONSTANTS
  Server, None,
  Thread,       \* threads that move servers: the rotation, callers of rotate
                \* and remove_server, operators
  MinInner,
  Threshold,    \* consecutive_evictions_threshold
  MaxRetries    \* max_retries_per_hour

VARIABLES
  ring,         \* where a server is: inner, draining, outer
  lock,         \* the thread that holds the cluster's lock
  run,          \* what a thread is about to do: triggers, or an action
  state,        \* _states
  quarantined,  \* _quarantined_servers
  streak,       \* _eviction_counts, up to the threshold
  since,        \* keys of _outer_ring_since
  attempts      \* of the last hour, in _attempt_timestamps

remediator == <<state, quarantined, streak, since, attempts>>
vars == <<ring, lock, run, state, quarantined, streak, since, attempts>>

State == {"healthy", "quarantined", "healing", "recovered", "dead_letter"}
Idle == [at |-> "idle", server |-> None, todo |-> 0]

Init ==
  /\ ring = [s \in Server |-> "inner"]
  /\ lock = None
  /\ run = [t \in Thread |-> Idle]
  /\ state = [s \in Server |-> "healthy"]
  /\ quarantined = {} /\ since = {}
  /\ streak = [s \in Server |-> 0]
  /\ attempts = [s \in Server |-> 0]

Inner == {s \in Server : ring[s] = "inner"}
Resting == {s \in Server : ring[s] = "outer"}

-----------------------------------------------------------------------------
(* Evictions, and what they trigger.                                         *)

Triggers(t, s, n) ==
  IF n = 0 THEN run' = [run EXCEPT ![t] = Idle]
  ELSE run' = [run EXCEPT ![t] = [at |-> "trigger", server |-> s, todo |-> n]]

(* record_eviction: a policy for consecutive overheating may match.  More    *)
(* than one trigger: an open circuit is one too.                             *)
RecordEviction(t, s, more) ==
  /\ since' = since \cup {s}
  /\ streak' = [streak EXCEPT ![s] = IF @ < Threshold THEN @ + 1 ELSE @]
  /\ Triggers(t, s, more + IF streak'[s] >= Threshold THEN 1 ELSE 0)
  /\ UNCHANGED <<state, quarantined, attempts>>

(* _move_to_outer by a holder of the lock: with open connections the server  *)
(* drains first, and only an open circuit triggers.                          *)
Evict(t, s) ==
  /\ run[t].at = "idle" /\ lock = None /\ ring[s] = "inner"
  /\ \E more \in {0, 1} :
       \/ /\ ring' = [ring EXCEPT ![s] = "draining"]
          /\ Triggers(t, s, more) /\ UNCHANGED remediator
       \/ /\ ring' = [ring EXCEPT ![s] = "outer"]
          /\ RecordEviction(t, s, more)
  /\ lock' = IF run'[t].at = "trigger" THEN t ELSE None

(* _check_draining_servers looks at no lock.                                 *)
DrainEnds(t, s) ==
  /\ run[t].at = "idle" /\ ring[s] = "draining"
  /\ ring' = [ring EXCEPT ![s] = "outer"]
  /\ RecordEviction(t, s, 0)
  /\ UNCHANGED lock

(* rotate() finds a server resting for too long; trigger_manual_remediation  *)
(* takes any server.                                                         *)
Ask(t, s) ==
  /\ run[t].at = "idle" /\ lock = None
  /\ Triggers(t, s, 1)
  /\ lock' = t
  /\ UNCHANGED <<ring, remediator>>

(* A thread without triggers left goes on, and lets go of the lock it had.   *)
Returns(t) ==
  /\ run' = [run EXCEPT ![t] = IF @.todo = 1 THEN Idle
               ELSE [at |-> "trigger", server |-> @.server, todo |-> @.todo - 1]]
  /\ lock' = IF run[t].todo = 1 /\ lock = t THEN None ELSE lock

(* trigger_remediation up to the action: the hourly limit or the quarantine. *)
Trigger(t) ==
  LET s == run[t].server IN
  /\ run[t].at = "trigger"
  /\ IF attempts[s] >= MaxRetries
       THEN /\ state' = [state EXCEPT ![s] = "dead_letter"]
            /\ Returns(t)
            /\ UNCHANGED <<quarantined, attempts>>
       ELSE /\ state' = [state EXCEPT ![s] = "quarantined"]
            /\ quarantined' = quarantined \cup {s}
            /\ attempts' = [attempts EXCEPT ![s] = @ + 1]
            /\ run' = [run EXCEPT ![t].at = "act"]
            /\ UNCHANGED lock
  /\ UNCHANGED <<ring, streak, since>>

(* The action has succeeded, failed or timed out.                            *)
Act(t) ==
  LET s == run[t].server IN
  /\ run[t].at = "act"
  /\ \/ /\ state' = [state EXCEPT ![s] = "healing"]
        /\ streak' = [streak EXCEPT ![s] = 0]
     \/ state' = [state EXCEPT ![s] = "dead_letter"] /\ UNCHANGED streak
  /\ Returns(t)
  /\ UNCHANGED <<ring, quarantined, since, attempts>>

HourPasses(s) ==
  /\ attempts[s] > 0
  /\ attempts' = [attempts EXCEPT ![s] = @ - 1]
  /\ UNCHANGED <<ring, lock, run, state, quarantined, streak, since>>

-----------------------------------------------------------------------------
(* Promotions.                                                               *)

RecordRecovery_Keeps(s) ==
  /\ streak' = [streak EXCEPT ![s] = 0] /\ since' = since \ {s}
  /\ state' = [state EXCEPT ![s] = IF @ = "healing" THEN "recovered" ELSE @]
  /\ UNCHANGED <<quarantined, attempts>>

RecordRecovery(s) ==
  /\ streak' = [streak EXCEPT ![s] = 0] /\ since' = since \ {s}
  /\ IF state[s] = "healing"
       THEN /\ state' = [state EXCEPT ![s] = "recovered"]
            /\ quarantined' = quarantined \ {s}
       ELSE UNCHANGED <<state, quarantined>>
  /\ UNCHANGED attempts

(* rotate(): the head of the heap, any resting server as temperatures go,    *)
(* if it is not in quarantine and has cooled.                                *)
Promote(t, s) ==
  /\ run[t].at = "idle" /\ lock = None
  /\ s \in Resting \ quarantined
  /\ ring' = [ring EXCEPT ![s] = "inner"]
  /\ RecordRecovery(s)
  /\ UNCHANGED <<lock, run>>

(* _maybe_pull_from_outer asks for no quarantine and no temperature; only a  *)
(* server that has cooled is recorded as recovered.                          *)
Pull(t, s) ==
  /\ run[t].at = "idle" /\ lock = None
  /\ s \in Resting /\ Cardinality(Inner) < MinInner
  /\ ring' = [ring EXCEPT ![s] = "inner"]
  /\ RecordRecovery(s) \/ UNCHANGED remediator
  /\ UNCHANGED <<lock, run>>

(* clear_quarantine, by an operator.                                         *)
Clear(s) ==
  /\ quarantined' = quarantined \ {s}
  /\ state' = [state EXCEPT ![s] = "healthy"]
  /\ streak' = [streak EXCEPT ![s] = 0] /\ since' = since \ {s}
  /\ UNCHANGED <<ring, lock, run, attempts>>

Next ==
  \/ \E s \in Server : HourPasses(s) \/ Clear(s)
  \/ \E t \in Thread :
       \/ Trigger(t) \/ Act(t)
       \/ \E s \in Server :
            Evict(t, s) \/ DrainEnds(t, s) \/ Ask(t, s) \/ Promote(t, s) \/ Pull(t, s)

Spec == Init /\ [][Next]_vars

-----------------------------------------------------------------------------
(* Whom the gate keeps out is not reported as healthy or recovered, whatever *)
(* actions, promotions and operators overlap; the reverse does not hold: an  *)
(* action that ends after a clear_quarantine leaves "healing" behind.        *)
QuarantineVisible ==
  \A s \in quarantined : state[s] \notin {"healthy", "recovered"}
=============================================================================
