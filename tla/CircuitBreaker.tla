--------------------------- MODULE CircuitBreaker ---------------------------
(***************************************************************************)
(* The circuit breaker of the control plane (cluster_circuit_breaker.py):  *)
(* its evaluation loop, the operator's reset, and a listener told by the   *)
(* on_trip and on_reset callbacks.                                         *)
(*                                                                         *)
(* The loop reads the registry once and then takes the lock once per node, *)
(* so that it acts on metrics older than the state it finds.  It calls the *)
(* listener inside the lock; reset() does so after it has let go of it.    *)
(***************************************************************************)
EXTENDS Naturals, FiniteSets

CONSTANTS
  Node,
  Faulty,   \* the nodes that forward an error_rate
  Moving,   \* the nodes that leave and join
  Loop      \* threads attach() may start

VARIABLES
  known,      \* nodes of the registry
  rate,       \* error_rate in a node's metrics, against trip_threshold
  state,      \* BreakerState.state; a node without a record counts as closed
  expired,    \* open for reset_timeout_sec
  running,    \* _running
  loop,       \* the threads: off, asleep, or inside _evaluate
  sample,     \* what a thread's _evaluate has read and not yet looked at
  resetting,  \* nodes for which reset() has still to call on_reset
  heard       \* the last the listener was told of a node

registry == <<known, rate>>
threads == <<running, loop, sample>>
vars == <<known, rate, state, expired, running, loop, sample, resetting, heard>>

Nothing == [todo |-> {}, rate |-> [n \in Node |-> "none"], due |-> {}]

Init ==
  /\ known = Node /\ rate = [n \in Node |-> "none"]
  /\ state = [n \in Node |-> "closed"] /\ expired = [n \in Node |-> FALSE]
  /\ running = FALSE
  /\ loop = [l \in Loop |-> "off"] /\ sample = [l \in Loop |-> Nothing]
  /\ resetting = {} /\ heard = [n \in Node |-> "nothing"]

-----------------------------------------------------------------------------
(* The registry: heartbeats bring metrics, a new record has none.           *)

Heartbeat(n) ==
  /\ n \in known \cap Faulty
  /\ \E r \in {"none", "good", "bad"} : rate' = [rate EXCEPT ![n] = r]
  /\ UNCHANGED <<known, state, expired, threads, resetting, heard>>

Membership(n) ==
  /\ n \in Moving
  /\ known' = IF n \in known THEN known \ {n} ELSE known \cup {n}
  /\ rate' = [rate EXCEPT ![n] = "none"]
  /\ UNCHANGED <<state, expired, threads, resetting, heard>>

(* reset_timeout_sec passes for a breaker that is open. *)
Expire(n) ==
  /\ state[n] = "open" /\ ~expired[n]
  /\ expired' = [expired EXCEPT ![n] = TRUE]
  /\ UNCHANGED <<registry, state, threads, resetting, heard>>

-----------------------------------------------------------------------------
(* attach() starts a thread without looking for one that is still asleep;   *)
(* stop() only lowers the flag.  MasterNode calls them in turns.            *)

Attach(l) ==
  /\ ~running /\ loop[l] = "off"
  /\ running' = TRUE
  /\ loop' = [loop EXCEPT ![l] = "asleep"]
  /\ UNCHANGED <<registry, state, expired, sample, resetting, heard>>

Stop ==
  /\ running
  /\ running' = FALSE
  /\ UNCHANGED <<registry, state, expired, loop, sample, resetting, heard>>

(* The sleep ends: the thread ends too, or reads the registry and the time. *)
Wake(l) ==
  /\ loop[l] = "asleep"
  /\ IF running
       THEN /\ loop' = [loop EXCEPT ![l] = "evaluating"]
            /\ sample' = [sample EXCEPT ![l] =
                 [todo |-> known, rate |-> [n \in Node |->
                    IF n \in known THEN rate[n] ELSE "none"],
                  due |-> {n \in Node : expired[n]}]]
       ELSE loop' = [loop EXCEPT ![l] = "off"] /\ UNCHANGED sample
  /\ UNCHANGED <<registry, state, expired, running, resetting, heard>>

(* The time-out transition that precedes the look at the error rate. *)
TimedOut(l, n) ==
  IF state[n] = "open" /\ n \in sample[l].due THEN "half_open" ELSE state[n]

Trips(l, n) == sample[l].rate[n] = "bad" /\ TimedOut(l, n) = "closed"

Recovers_OpenOnly(l, n) == sample[l].rate[n] = "good" /\ state[n] = "open"
Recovers(l, n) ==
  sample[l].rate[n] = "good" /\ TimedOut(l, n) \in {"open", "half_open"}

(* One node of the loop in _evaluate: one critical section, callbacks inside. *)
Evaluate(l, n) ==
  LET new == CASE Trips(l, n) -> "open"
               [] Recovers(l, n) -> "closed"
               [] OTHER -> TimedOut(l, n)
  IN
  /\ loop[l] = "evaluating" /\ n \in sample[l].todo
  /\ state' = [state EXCEPT ![n] = new]
  /\ expired' = [expired EXCEPT ![n] = @ /\ new = "open"]
  /\ heard' = CASE Trips(l, n) -> [heard EXCEPT ![n] = "tripped"]
                [] Recovers(l, n) -> [heard EXCEPT ![n] = "reset"]
                [] OTHER -> heard
  /\ sample' = [sample EXCEPT ![l].todo = @ \ {n}, ![l].rate[n] = "none",
                              ![l].due = @ \ {n}]
  /\ UNCHANGED <<registry, running, loop, resetting>>

Evaluated(l) ==
  /\ loop[l] = "evaluating" /\ sample[l].todo = {}
  /\ loop' = [loop EXCEPT ![l] = IF running THEN "asleep" ELSE "off"]
  /\ sample' = [sample EXCEPT ![l] = Nothing]
  /\ UNCHANGED <<registry, state, expired, running, resetting, heard>>

-----------------------------------------------------------------------------
(* reset(): the state under the lock, the callback after it.  One operator  *)
(* at a time resets a node.                                                 *)

Reset_Silent(n) ==
  /\ n \notin resetting
  /\ state[n] # "closed"
  /\ state' = [state EXCEPT ![n] = "closed"]
  /\ expired' = [expired EXCEPT ![n] = FALSE]
  /\ UNCHANGED <<registry, threads, resetting, heard>>

Reset(n) ==
  /\ n \notin resetting
  /\ state[n] # "closed"
  /\ state' = [state EXCEPT ![n] = "closed"]
  /\ expired' = [expired EXCEPT ![n] = FALSE]
  /\ resetting' = resetting \cup {n}
  /\ UNCHANGED <<registry, threads, heard>>

ResetTold(n) ==
  /\ n \in resetting
  /\ resetting' = resetting \ {n}
  /\ heard' = [heard EXCEPT ![n] = "reset"]
  /\ UNCHANGED <<registry, state, expired, threads>>

(* is_open: half-open counts as open, so that no pick probes the node. *)
IsOpen(n) == state[n] \in {"open", "half_open"}

LoopStep(l) == Wake(l) \/ Evaluated(l) \/ \E n \in Node : Evaluate(l, n)

Next ==
  \/ \E n \in Node : Heartbeat(n) \/ Membership(n) \/ Expire(n)
                     \/ Reset(n) \/ ResetTold(n)
  \/ Stop
  \/ \E l \in Loop : Attach(l) \/ LoopStep(l)

Spec == Init /\ [][Next]_vars

(* A thread's sleep ends and its work gets done; a callback returns. *)
Fairness ==
  /\ \A l \in Loop : WF_vars(LoopStep(l))
  /\ \A n \in Node : WF_vars(ResetTold(n))

FairSpec == Spec /\ Fairness

-----------------------------------------------------------------------------
TypeOK ==
  /\ known \subseteq Node /\ rate \in [Node -> {"none", "good", "bad"}]
  /\ state \in [Node -> {"closed", "open", "half_open"}]
  /\ expired \in [Node -> BOOLEAN] /\ running \in BOOLEAN
  /\ loop \in [Loop -> {"off", "asleep", "evaluating"}]
  /\ sample \in [Loop -> [todo : SUBSET Node, due : SUBSET Node,
                          rate : [Node -> {"none", "good", "bad"}]]]
  /\ resetting \subseteq Node
  /\ heard \in [Node -> {"nothing", "tripped", "reset"}]

(* A listener that was last told of a trip is not left behind when the node  *)
(* may be picked again: unless a reset() has still to call on_reset, a node  *)
(* whose breaker is closed was not last reported as tripped.  The reverse    *)
(* does not hold: the call of a reset() can come after that of a later trip. *)
NoFalseAlarm ==
  \A n \in Node : ~IsOpen(n) /\ n \notin resetting => heard[n] # "tripped"

(* A node whose heartbeats report a good error rate from some time on is     *)
(* returned to the scheduler for good, from open and from half-open, while   *)
(* the loop runs.                                                            *)
BreakerCloses ==
  \A n \in Node :
    <>[](running /\ n \in known /\ rate[n] = "good") => <>[](~IsOpen(n))
=============================================================================
