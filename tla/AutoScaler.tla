----------------------------- MODULE AutoScaler -----------------------------
(***************************************************************************)
(* The auto-scaler (cluster_autoscaler.py) and the fleet it advises on.    *)
(*                                                                         *)
(* The loop counts the nodes that are alive, without the registry's lock,  *)
(* and asks the scheduler for the average heat.  What is being provisioned *)
(* or is quarantined does not count: only the cooldowns keep the advice    *)
(* from being repeated before it has had an effect, and they are read      *)
(* without a lock.  stop() waits 5 s for a thread that sleeps 30 s, so     *)
(* that start() may find the last one still there.                         *)
(***************************************************************************)
EXTENDS Integers, FiniteSets

CONSTANTS
  Loop,                \* threads start() may make
  MinNodes, MaxNodes,
  Sickly,              \* how many nodes may be quarantined and recover
  Losses               \* bound on the nodes that die for good

VARIABLES
  alive,        \* nodes with status "alive"
  sick,         \* quarantined ones, which may recover
  booting,      \* asked for by on_scale_up, not yet alive
  retiring,     \* asked for by on_scale_down, still alive
  losses,
  cooling,      \* directions whose cooldown runs
  running,      \* _running
  loop          \* the threads: off, asleep, or in evaluate, and what they read

fleet == <<alive, sick, booting, retiring, losses>>
vars == <<alive, sick, booting, retiring, losses, cooling, running, loop>>

Direction == {"up", "down"}
Heat == {"unknown", "cold", "warm", "hot"}
At(at) == [at |-> at, seen |-> 0, advice |-> "none"]

Init ==
  /\ alive = MinNodes /\ sick = 0 /\ booting = 0 /\ retiring = 0 /\ losses = 0
  /\ cooling = {} /\ running = FALSE
  /\ loop = [l \in Loop |-> At("off")]

-----------------------------------------------------------------------------
(* The fleet: the user's callbacks start and stop nodes, nodes fail.         *)

Boots ==
  /\ booting > 0
  /\ booting' = booting - 1 /\ alive' = alive + 1
  /\ UNCHANGED <<sick, retiring, losses, cooling, running, loop>>

Retires ==
  /\ retiring > 0
  /\ retiring' = retiring - 1
  /\ alive' = IF alive > 0 THEN alive - 1 ELSE 0
  /\ UNCHANGED <<sick, booting, losses, cooling, running, loop>>

Dies ==
  /\ alive > 0 /\ losses < Losses
  /\ alive' = alive - 1 /\ losses' = losses + 1
  /\ UNCHANGED <<sick, booting, retiring, cooling, running, loop>>

FallsSick ==
  /\ alive > 0 /\ sick < Sickly /\ losses < Losses
  /\ alive' = alive - 1 /\ sick' = sick + 1 /\ losses' = losses + 1
  /\ UNCHANGED <<booting, retiring, cooling, running, loop>>

Recovers ==
  /\ sick > 0
  /\ sick' = sick - 1 /\ alive' = alive + 1
  /\ UNCHANGED <<booting, retiring, losses, cooling, running, loop>>

(* The cooldowns, minutes, are long enough for the advice to be carried out   *)
(* and for an evaluation to end.                                             *)
CooldownOver(d) ==
  /\ d \in cooling /\ \A l \in Loop : loop[l].at \in {"off", "asleep"}
  /\ (IF d = "up" THEN booting ELSE retiring) = 0
  /\ cooling' = cooling \ {d}
  /\ UNCHANGED <<fleet, running, loop>>

-----------------------------------------------------------------------------
(* start() and stop().  A thread that sleeps through stop() and start() stays. *)

Start(l) ==
  /\ ~running /\ loop[l].at = "off"
  /\ running' = TRUE
  /\ loop' = [loop EXCEPT ![l] = At("asleep")]
  /\ UNCHANGED <<fleet, cooling>>

Stop ==
  /\ running
  /\ running' = FALSE
  /\ UNCHANGED <<fleet, cooling, loop>>

Exit(l) ==
  /\ loop[l].at = "asleep" /\ ~running
  /\ loop' = [loop EXCEPT ![l] = At("off")]
  /\ UNCHANGED <<fleet, cooling, running>>

(* The conditions of evaluate(), in its order. *)
Wanted_NoMin(n, heat) ==
  CASE heat = "hot" /\ n < MaxNodes -> "up"
    [] n > MaxNodes -> "down"
    [] heat = "cold" /\ n > MinNodes -> "down"
    [] OTHER -> "none"

Wanted(n, heat) ==
  CASE n < MinNodes -> "up"
    [] n >= MinNodes /\ heat = "hot" /\ n < MaxNodes -> "up"
    [] n > MaxNodes -> "down"
    [] n <= MaxNodes /\ heat = "cold" /\ n > MinNodes -> "down"
    [] OTHER -> "none"

(* _tick: the count is what the registry holds now.                          *)
Tick(l) ==
  /\ loop[l].at = "asleep" /\ running
  /\ loop' = [loop EXCEPT ![l] = [At("tick") EXCEPT !.seen = alive]]
  /\ UNCHANGED <<fleet, cooling, running>>

(* evaluate() up to the cooldown guard.  The average heat is over every node   *)
(* the scheduler has ever placed on, and absent before the first.  What the    *)
(* guard suppresses is forgotten until the next tick.                          *)
Evaluate(l) ==
  /\ loop[l].at = "tick"
  /\ \E h \in Heat :
       LET d == Wanted(loop[l].seen, h) IN
       loop' = [loop EXCEPT ![l] =
         IF d \in cooling \cup {"none"} THEN At("asleep")
         ELSE [At("firing") EXCEPT !.advice = d]]
  /\ UNCHANGED <<fleet, cooling, running>>

(* _record starts the cooldown; the callback asks for one node more or less.  *)
Fire_Free(l) ==
  LET d == loop[l].advice IN
  /\ loop[l].at = "firing"
  /\ booting' = IF d = "up" THEN booting + 1 ELSE booting
  /\ retiring' = IF d = "down" THEN retiring + 1 ELSE retiring
  /\ loop' = [loop EXCEPT ![l] = At("asleep")]
  /\ UNCHANGED <<alive, sick, losses, cooling, running>>

Fire(l) ==
  LET d == loop[l].advice IN
  /\ loop[l].at = "firing"
  /\ cooling' = cooling \cup {d}
  /\ booting' = IF d = "up" THEN booting + 1 ELSE booting
  /\ retiring' = IF d = "down" THEN retiring + 1 ELSE retiring
  /\ loop' = [loop EXCEPT ![l] = At("asleep")]
  /\ UNCHANGED <<alive, sick, losses, running>>

LoopStep(l) == Tick(l) \/ Evaluate(l) \/ Exit(l) \/ Fire(l)

Next ==
  \/ Boots \/ Retires \/ Dies \/ FallsSick \/ Recovers
  \/ \E d \in Direction : CooldownOver(d)
  \/ Stop
  \/ \E l \in Loop : Start(l) \/ LoopStep(l)

Spec == Init /\ [][Next]_vars

(* Threads run, advice is carried out, the sick recover.  Cooldowns pass       *)
(* whatever the loop does: its evaluations only interrupt them here.         *)
Fairness ==
  /\ \A l \in Loop : WF_vars(LoopStep(l))
  /\ WF_vars(Boots) /\ WF_vars(Retires) /\ WF_vars(Recovers)
  /\ \A d \in Direction : SF_vars(CooldownOver(d))

FairSpec == Spec /\ Fairness

-----------------------------------------------------------------------------
TypeOK ==
  /\ {alive, sick, booting, retiring, losses} \subseteq Nat
  /\ cooling \subseteq Direction /\ running \in BOOLEAN
  /\ loop \in [Loop -> [at : {"off", "asleep", "tick", "firing"},
                        seen : Nat, advice : Direction \cup {"none"}]]

Awake == {l \in Loop : loop[l].at # "off"}

(* Until advice is carried out, no thread repeats it: what is asked for and    *)
(* not there yet is one node at most for each thread that has passed the       *)
(* cooldown guard together with the others.                                   *)
AdviceBounded == booting <= Cardinality(Loop) /\ retiring <= Cardinality(Loop)

(* A single loop whose advice is followed before the cooldown ends settles    *)
(* the fleet between its limits once nodes stop failing, whatever the heat.   *)
FleetSettles ==
  <>[](running /\ Cardinality(Awake) = 1) => <>[](alive \in MinNodes .. MaxNodes)
=============================================================================
