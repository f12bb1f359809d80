------------------------------ MODULE Hedging ------------------------------
(***************************************************************************)
(* hedged_request of HuddleCluster (huddle_cluster.py), also as called by   *)
(* hedged_llm_request: a primary request and, when it is slow or fails, a   *)
(* speculative second one, if the budget allows it.                         *)
(*                                                                         *)
(* The request is counted, the budget is looked at and a backup is counted  *)
(* in three critical sections, with the primary request in between.         *)
(* Servers matter only in that there may be no second one.                  *)
(***************************************************************************)
EXTENDS Integers, FiniteSets

CONSTANTS
  Caller,
  Num, Den,   \* hedging_budget_ratio
  Free,       \* so many requests come before the ratio counts: 10
  MaxTotal    \* bound: requests

BudgetAssumption ==
  /\ Num \in Nat /\ Den \in Nat \ {0} /\ Free \in Nat \ {0}
  /\ IsFiniteSet(Caller)

VARIABLES
  total,      \* _hedging_total_requests
  hedged,     \* _hedging_hedged_requests
  throttled,  \* _hedging_throttled
  wins,       \* _hedging_wins
  at,         \* what a caller does next
  ok,         \* its budget_ok
  first,      \* its futures: f1
  second      \* and f2

counters == <<total, hedged, throttled, wins>>
futures == <<first, second>>
vars == <<total, hedged, throttled, wins, at, ok, first, second>>

Future == {"none", "pending", "done", "failed"}
Step == {"idle", "route", "check", "wait", "backup", "launch", "race", "alone"}

Init ==
  /\ total = 0 /\ hedged = 0 /\ throttled = 0 /\ wins = 0
  /\ at = [c \in Caller |-> "idle"] /\ ok = [c \in Caller |-> FALSE]
  /\ first = [c \in Caller |-> "none"] /\ second = [c \in Caller |-> "none"]

Goes(c, a) == at' = [at EXCEPT ![c] = a]

(* A call returns or raises; futures it has left behind run on unobserved.   *)
Ends(c) ==
  /\ Goes(c, "idle")
  /\ ok' = [ok EXCEPT ![c] = FALSE]
  /\ first' = [first EXCEPT ![c] = "none"] /\ second' = [second EXCEPT ![c] = "none"]

Count(c) ==
  /\ at[c] = "idle" /\ total < MaxTotal
  /\ total' = total + 1 /\ Goes(c, "route")
  /\ UNCHANGED <<hedged, throttled, wins, ok, futures>>

(* get_server: nobody to ask, or hedging is not wanted: a plain request.     *)
Route(c) ==
  /\ at[c] = "route"
  /\ \/ Goes(c, "check") /\ UNCHANGED <<ok, futures>>
     \/ Ends(c)
  /\ UNCHANGED counters

WithinBudget == total < Free \/ hedged * Den < Num * total

(* The budget, under the lock; then f1 is submitted.                         *)
Check(c) ==
  /\ at[c] = "check"
  /\ ok' = [ok EXCEPT ![c] = WithinBudget]
  /\ throttled' = IF WithinBudget THEN throttled ELSE throttled + 1
  /\ first' = [first EXCEPT ![c] = "pending"]
  /\ Goes(c, "wait")
  /\ UNCHANGED <<total, hedged, wins, second>>

(* A future ends, at any time. *)
Finish(c) ==
  /\ \/ /\ first[c] = "pending"
        /\ \E r \in {"done", "failed"} : first' = [first EXCEPT ![c] = r]
        /\ UNCHANGED second
     \/ /\ second[c] = "pending"
        /\ \E r \in {"done", "failed"} : second' = [second EXCEPT ![c] = r]
        /\ UNCHANGED first
  /\ UNCHANGED <<counters, at, ok>>

(* f1.result(timeout=delay): a result is returned, an error is raised unless *)
(* a backup may be launched, and the delay may end first.                    *)
Wait(c) ==
  /\ at[c] = "wait"
  /\ \/ first[c] = "done" /\ Ends(c)
     \/ first[c] = "failed" /\ ~ok[c] /\ Ends(c)
     \/ /\ first[c] = "pending" \/ (first[c] = "failed" /\ ok[c])
        /\ Goes(c, "backup") /\ UNCHANGED <<ok, futures>>
  /\ UNCHANGED counters

(* The coolest other server, if there is one.                                *)
Backup_Free(c) ==
  /\ at[c] = "backup"
  /\ Goes(c, "launch") \/ Goes(c, "alone")
  /\ UNCHANGED <<counters, ok, futures>>

Backup(c) ==
  /\ at[c] = "backup"
  /\ \/ ok[c] /\ Goes(c, "launch")
     \/ Goes(c, "alone")
  /\ UNCHANGED <<counters, ok, futures>>

(* f1.result again, with what remains of the time-out.                       *)
Alone(c) ==
  /\ at[c] = "alone"
  /\ Ends(c)
  /\ UNCHANGED counters

Launch(c) ==
  /\ at[c] = "launch"
  /\ hedged' = hedged + 1
  /\ second' = [second EXCEPT ![c] = "pending"]
  /\ Goes(c, "race")
  /\ UNCHANGED <<total, throttled, wins, ok, first>>

(* Whichever is done first; if both are, either is taken, and its error is   *)
(* raised.  The error of the first is not: the call waits for the other.     *)
Race(c) ==
  /\ at[c] = "race"
  /\ \/ UNCHANGED wins   \* a time-out, the primary's result, or an error
     \/ second[c] = "done" /\ wins' = wins + 1
  /\ Ends(c)
  /\ UNCHANGED <<total, hedged, throttled>>

Request(c) ==
  \/ Count(c) \/ Route(c) \/ Check(c) \/ Finish(c) \/ Wait(c)
  \/ Backup(c) \/ Alone(c) \/ Launch(c) \/ Race(c)

Next == \E c \in Caller : Request(c)

Spec == Init /\ [][Next]_vars

-----------------------------------------------------------------------------
TypeOK ==
  /\ {total, hedged, throttled, wins} \subseteq Nat
  /\ at \in [Caller -> Step] /\ ok \in [Caller -> BOOLEAN]
  /\ first \in [Caller -> Future] /\ second \in [Caller -> Future]

(* Backups allowed but not yet counted. *)
Allowed == {c \in Caller : ok[c] /\ at[c] \in {"wait", "backup", "launch"}}

(* The share of backups is within the budget but for the free requests and   *)
(* one backup per caller: those that looked at the same count.               *)
HedgeBudget ==
  LET most == hedged + Cardinality(Allowed) IN
  most < Free \/ (most - Cardinality(Caller)) * Den < Num * total
=============================================================================
