----------------------------- MODULE Thresholds -----------------------------
(***************************************************************************)
(* AdaptiveThresholdController (huddle_cluster.py) and its use by rotate():*)
(* the heat and the cool threshold follow the ratio of recent to earlier   *)
(* latencies, between limits.  Temperatures and thresholds are multiples of *)
(* some unit, weights hundredths.                                          *)
(*                                                                         *)
(* maybe_adapt returns the pair after it has let go of its lock, and        *)
(* rotate() stores it before it takes the cluster's: threads that rotate   *)
(* may leave one threshold of an older pair beside one of a newer.  The     *)
(* interval between adaptations does not prevent it, as a thread may be    *)
(* slow, and is left out.                                                  *)
(***************************************************************************)
EXTENDS Integers

CONSTANTS
  Rotator,            \* threads that call rotate
  Heat, Cool,         \* heat_threshold and cool_threshold as configured
  Half,               \* half of max_delta
  HeatLow, HeatHigh,  \* limits of an adapted heat threshold,
  CoolLow,            \* of an adapted cool threshold,
  Gap,                \* and what it keeps below the heat threshold
  Full,               \* temperature 1.0
  Weight              \* weights of servers

VARIABLES
  heat, cool,         \* heat_threshold and cool_threshold of the cluster
  current,            \* _current_heat and _current_cool
  at,                 \* what a rotating thread does next
  pair                \* the pair it has from maybe_adapt

vars == <<heat, cool, current, at, pair>>

Larger(a, b) == IF a > b THEN a ELSE b
Smaller(a, b) == IF a < b THEN a ELSE b

LowestHeat == Smaller(Heat, Larger(HeatLow, Smaller(HeatHigh, Heat - 2 * Half)))
HighestCool == Larger(Cool, Larger(CoolLow, Cool + Half))

(* effective_heat_threshold of a server, times 100.                          *)
EffectiveHeat(h, w) == Smaller(Full * 100, h * w)

(* The lowest threshold at which a server is hot is above the highest at which *)
(* it is cool.  It is with the defaults and weights above 0.78.               *)
LimitsAssumption ==
  /\ {Heat, Cool, Half, HeatLow, HeatHigh, CoolLow, Gap, Full} \subseteq Nat
  /\ Weight \subseteq Nat
  /\ \A w \in Weight : HighestCool * 100 < EffectiveHeat(LowestHeat, w)

Base == [heat |-> Heat, cool |-> Cool]

Init ==
  /\ heat = Heat /\ cool = Cool /\ current = Base
  /\ at = [r \in Rotator |-> "idle"] /\ pair = [r \in Rotator |-> Base]

(* The thresholds for an adjustment of 2k: the base, not the current values, *)
(* is adjusted.                                                              *)
AdaptedHeat_Drifts(k) == Larger(HeatLow, Smaller(HeatHigh, current.heat + 2 * k))
AdaptedHeat(k) == Larger(HeatLow, Smaller(HeatHigh, Heat + 2 * k))
AdaptedCool(k) == Larger(CoolLow, Smaller(AdaptedHeat(k) - Gap, Cool + k))

(* maybe_adapt: too early or with too few samples, it returns what it has    *)
(* under the lock; otherwise it reads it again without.                      *)
MaybeAdapt(r) ==
  /\ at[r] = "idle"
  /\ \/ /\ pair' = [pair EXCEPT ![r] = current]
        /\ at' = [at EXCEPT ![r] = "heat"]
        /\ UNCHANGED current
     \/ /\ \E k \in -Half .. Half :
             current' = [heat |-> AdaptedHeat(k), cool |-> AdaptedCool(k)]
        /\ at' = [at EXCEPT ![r] = "read heat"]
        /\ UNCHANGED pair
  /\ UNCHANGED <<heat, cool>>

Return(r) ==
  /\ \/ /\ at[r] = "read heat" /\ at' = [at EXCEPT ![r] = "read cool"]
        /\ pair' = [pair EXCEPT ![r].heat = current.heat]
     \/ /\ at[r] = "read cool" /\ at' = [at EXCEPT ![r] = "heat"]
        /\ pair' = [pair EXCEPT ![r].cool = current.cool]
  /\ UNCHANGED <<heat, cool, current>>

(* rotate() stores the pair, one after the other; what it no longer needs is *)
(* reset.                                                                    *)
Store(r) ==
  /\ \/ /\ at[r] = "heat" /\ at' = [at EXCEPT ![r] = "cool"]
        /\ heat' = pair[r].heat /\ UNCHANGED cool
        /\ pair' = [pair EXCEPT ![r].heat = Heat]
     \/ /\ at[r] = "cool" /\ at' = [at EXCEPT ![r] = "idle"]
        /\ cool' = pair[r].cool /\ UNCHANGED heat
        /\ pair' = [pair EXCEPT ![r].cool = Cool]
  /\ UNCHANGED current

Next == \E r \in Rotator : MaybeAdapt(r) \/ Return(r) \/ Store(r)

Spec == Init /\ [][Next]_vars

-----------------------------------------------------------------------------
Pair == [heat : Nat, cool : Nat]

TypeOK ==
  /\ heat \in Nat /\ cool \in Nat /\ current \in Pair
  /\ at \in [Rotator -> {"idle", "read heat", "read cool", "heat", "cool"}]
  /\ pair \in [Rotator -> Pair]

IsOverheated(t, w) == t * 100 >= EffectiveHeat(heat, w)
IsCooled(t) == t <= cool

(* A server that has cooled, and is let back in for that, is not overheated  *)
(* at the same temperature, whichever of the pairs the two thresholds come    *)
(* from (is_overheated, is_cooled).                                           *)
NoFlap == \A w \in Weight, t \in 0 .. Full : ~(IsOverheated(t, w) /\ IsCooled(t))
=============================================================================
