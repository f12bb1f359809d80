------------------------------ MODULE Feedback ------------------------------
(***************************************************************************)
(* What HuddleCluster (huddle_cluster.py) learns about one server from     *)
(* requests that fail, from probes of resting servers and from the health  *)
(* checker: its error_rate and is_healthy.                                 *)
(*                                                                         *)
(* error_rate moves a tenth of the way to 1 with every failure and nothing *)
(* moves it back.  It is counted here in failures, Limit of which bring it *)
(* above 0.5.  Requests change it, and is_healthy, without a lock.         *)
(*                                                                         *)
(* The latencies that record_latency() takes in between end in the         *)
(* temperature, which is HuddleRings' to change.                           *)
(***************************************************************************)
EXTENDS Naturals

CONSTANTS
  Caller,    \* threads with requests
  Checker,   \* health checkers start() may make
  Limit,     \* 7: 1 - 0.9^7 > 0.5
  Failures   \* _health_check_failures

VARIABLES
  well,      \* the server answers requests, probes and pings
  resting,   \* it is in the outer ring
  rate,      \* error_rate
  healthy,   \* is_healthy
  fails,     \* its entry in _health_fail_counts
  call,      \* the requests: idle, under way, or penalising with a rate read
  probe,     \* the prober: idle, or with the answer of a probe
  check,     \* the checkers: off, asleep, about to ping, or with the answer
  running    \* _running

vars == <<well, resting, rate, healthy, fails, call, probe, check, running>>

Idle == [at |-> "idle", rate |-> 0]

Init ==
  /\ well = TRUE /\ resting = FALSE /\ rate = 0 /\ healthy = TRUE /\ fails = 0
  /\ call = [c \in Caller |-> Idle]
  /\ probe = "idle" /\ check = [k \in Checker |-> "off"] /\ running = FALSE

Worse(r) == IF r < Limit THEN r + 1 ELSE r

ServerChanges ==
  /\ well' = ~well
  /\ UNCHANGED <<resting, rate, healthy, fails, call, probe, check, running>>

Rotates ==
  /\ resting' = ~resting
  /\ UNCHANGED <<well, rate, healthy, fails, call, probe, check, running>>

(* start() makes a checker.  stop() has waited 5 s for the last one, longer    *)
(* than a slice of its sleep, but not than a round with servers that hang.    *)
Start(k) ==
  /\ ~running /\ check[k] = "off" /\ \A j \in Checker : check[j] # "asleep"
  /\ running' = TRUE
  /\ check' = [check EXCEPT ![k] = "asleep"]
  /\ UNCHANGED <<well, resting, rate, healthy, fails, call, probe>>

Stop ==
  /\ running
  /\ running' = FALSE
  /\ UNCHANGED <<well, resting, rate, healthy, fails, call, probe, check>>

-----------------------------------------------------------------------------
(* get_server_context, request_with_retry: an unhealthy server may be served  *)
(* until it is evicted, and as the last one.                                  *)
Send(c) ==
  /\ call[c].at = "idle"
  /\ call' = [call EXCEPT ![c].at = "sent"]
  /\ UNCHANGED <<well, resting, rate, healthy, fails, probe, check, running>>

Ends(c) == call' = [call EXCEPT ![c] = Idle]

Succeed(c) ==
  /\ call[c].at = "sent" /\ well
  /\ Ends(c)
  /\ UNCHANGED <<well, resting, rate, healthy, fails, probe, check, running>>

Fail(c) ==
  /\ call[c].at = "sent" /\ ~well
  /\ call' = [call EXCEPT ![c] = [at |-> "penalise", rate |-> Worse(rate)]]
  /\ UNCHANGED <<well, resting, rate, healthy, fails, probe, check, running>>

Penalise(c) ==
  /\ call[c].at = "penalise"
  /\ rate' = call[c].rate
  /\ call' = [call EXCEPT ![c].at = "judge"]
  /\ UNCHANGED <<well, resting, healthy, fails, probe, check, running>>

(* error_rate is read again, and the server marked.                           *)
Judge(c) ==
  /\ call[c].at = "judge"
  /\ healthy' = (healthy /\ rate < Limit)
  /\ Ends(c)
  /\ UNCHANGED <<well, resting, rate, fails, probe, check, running>>

-----------------------------------------------------------------------------
(* _run_canary_probes and canary_probe_now, which nobody stops.               *)
Probe ==
  /\ probe = "idle" /\ resting
  /\ probe' = IF well THEN "idle" ELSE "failed"
  /\ UNCHANGED <<well, resting, rate, healthy, fails, call, check, running>>

Probed ==
  /\ probe = "failed"
  /\ rate' = Worse(rate)
  /\ probe' = "idle"
  /\ UNCHANGED <<well, resting, healthy, fails, call, check, running>>

(* _health_check_loop, and of a round of _run_health_checks the ping of this   *)
(* server and later its consequence.                                          *)
Wake(k) ==
  /\ check[k] = "asleep"
  /\ check' = [check EXCEPT ![k] = IF running THEN "round" ELSE "off"]
  /\ UNCHANGED <<well, resting, rate, healthy, fails, call, probe, running>>

Ping(k) ==
  /\ check[k] = "round"
  /\ check' = [check EXCEPT ![k] = IF well THEN "answered" ELSE "failed"]
  /\ UNCHANGED <<well, resting, rate, healthy, fails, call, probe, running>>

Rests(k) == check' = [check EXCEPT ![k] = IF running THEN "asleep" ELSE "off"]

Checked_Sticky(k) ==
  /\ check[k] \in {"answered", "failed"} /\ Rests(k)
  /\ IF check[k] = "answered" THEN fails' = 0 /\ UNCHANGED healthy
     ELSE /\ fails' = IF fails < Failures THEN fails + 1 ELSE fails
          /\ healthy' = (healthy /\ fails' < Failures)
  /\ UNCHANGED <<well, resting, rate, call, probe, running>>

Checked(k) ==
  /\ check[k] \in {"answered", "failed"} /\ Rests(k)
  /\ IF check[k] = "answered" THEN fails' = 0 /\ healthy' = TRUE
     ELSE /\ fails' = IF fails < Failures THEN fails + 1 ELSE fails
          /\ healthy' = (healthy /\ fails' < Failures)
  /\ UNCHANGED <<well, resting, rate, call, probe, running>>

Check(k) == Wake(k) \/ Ping(k) \/ Checked(k)

Request(c) == Succeed(c) \/ Fail(c) \/ Penalise(c) \/ Judge(c)

Next ==
  \/ ServerChanges \/ Rotates \/ Stop \/ Probe \/ Probed
  \/ \E k \in Checker : Start(k) \/ Check(k)
  \/ \E c \in Caller : Send(c) \/ Request(c)

Spec == Init /\ [][Next]_vars

(* Requests end, and the checkers wake.                                       *)
Fairness ==
  /\ \A c \in Caller : WF_vars(Request(c))
  /\ \A k \in Checker : WF_vars(Check(k))

FairSpec == Spec /\ Fairness

-----------------------------------------------------------------------------
(* A server that has failed and is well again is healthy in the end and stays *)
(* so, although late penalties and the answers of old pings meet; one that is *)
(* not is unhealthy in the end.                                               *)
HealthFollows ==
  /\ <>[](running /\ well) => <>[]healthy
  /\ <>[](running /\ ~well) => <>[](~healthy)
=============================================================================
