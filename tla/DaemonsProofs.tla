---------------------------- MODULE DaemonsProofs ----------------------------
(***************************************************************************)
(* Daemons, for all values of their constants: circuit breakers, adaptive    *)
(* thresholds, the auto-scaler, Kubernetes pods, webhooks and the export.    *)
(***************************************************************************)
EXTENDS Daemons, Integers, FiniteSetTheorems, SequenceTheorems, TLAPS

-----------------------------------------------------------------------------
(* Thresholds.                                                             *)

(* Every threshold that is kept anywhere lies within the limits.             *)
Kept(p) == p.heat >= T!LowestHeat /\ p.cool <= T!HighestCool

Within ==
  /\ t_heat >= T!LowestHeat /\ t_cool <= T!HighestCool
  /\ Kept(t_current)
  /\ \A r \in Thread : Kept(t_pair[r])

ThresholdInv == T!TypeOK /\ Within

USE DEF T!Larger, T!Smaller

LEMMA LimitsTyped ==
  /\ t_Heat \in Nat /\ t_Cool \in Nat /\ t_Half \in Nat /\ t_HeatLow \in Nat
  /\ t_HeatHigh \in Nat /\ t_CoolLow \in Nat /\ t_Gap \in Nat /\ t_Full \in Nat
  /\ t_Weight \subseteq Nat
  /\ T!LowestHeat \in Int /\ T!HighestCool \in Nat
  BY LimitsAssumption DEF T!LimitsAssumption, T!LowestHeat, T!HighestCool

(* What an adaptation makes of the base thresholds.                          *)
LEMMA AdaptedWithin ==
  ASSUME NEW k \in -t_Half .. t_Half
  PROVE  /\ T!AdaptedHeat(k) \in Nat /\ T!AdaptedCool(k) \in Nat
         /\ T!AdaptedHeat(k) >= T!LowestHeat /\ T!AdaptedCool(k) <= T!HighestCool
<1>1. k \in Int /\ k >= -t_Half /\ k <= t_Half
  BY LimitsTyped
<1>2. T!AdaptedHeat(k) \in Nat /\ T!AdaptedHeat(k) >= T!LowestHeat
  BY <1>1, LimitsTyped DEF T!AdaptedHeat, T!LowestHeat
<1>3. T!AdaptedCool(k) \in Nat /\ T!AdaptedCool(k) <= T!HighestCool
  BY <1>1, <1>2, LimitsTyped DEF T!AdaptedCool, T!HighestCool
<1> QED  BY <1>2, <1>3

LEMMA StartsWithin ==
  ASSUME T!Init
  PROVE  ThresholdInv
<1>1. T!Base \in T!Pair /\ Kept(T!Base)
  BY LimitsTyped DEF T!Base, T!Pair, Kept, T!LowestHeat, T!HighestCool
<1> QED  BY <1>1, LimitsTyped DEF T!Init, T!Base, ThresholdInv, T!TypeOK, Within, Kept

LEMMA OnePairChanges ==
  ASSUME ThresholdInv, NEW r \in Thread, NEW p \in T!Pair, Kept(p),
         t_pair' = [t_pair EXCEPT ![r] = p]
  PROVE  t_pair' \in [Thread -> T!Pair] /\ \A q \in Thread : Kept(t_pair'[q])
<1>1. t_pair \in [Thread -> T!Pair] /\ \A q \in Thread : Kept(t_pair[q])
  BY DEF ThresholdInv, T!TypeOK, Within
<1>2. t_pair' \in [Thread -> T!Pair]
  BY <1>1
<1>3. ASSUME NEW q \in Thread  PROVE Kept(t_pair'[q])
  <2>1. t_pair'[q] = IF q = r THEN p ELSE t_pair[q]
    BY <1>1
  <2> QED  BY <1>1, <2>1
<1> QED  BY <1>2, <1>3

LEMMA StepsWithin ==
  ASSUME ThresholdInv, [T!Next]_tvars
  PROVE  ThresholdInv'
<1>1. ASSUME NEW r \in Thread, T!MaybeAdapt(r)
      PROVE  ThresholdInv'
  <2>1. t_current' \in T!Pair /\ Kept(t_current')
    <3>1. CASE UNCHANGED t_current  BY <3>1 DEF ThresholdInv, T!TypeOK, Within
    <3>2. ASSUME NEW k \in -t_Half .. t_Half,
                 t_current' = [heat |-> T!AdaptedHeat(k), cool |-> T!AdaptedCool(k)]
          PROVE  t_current' \in T!Pair /\ Kept(t_current')
      BY <3>2, AdaptedWithin DEF T!Pair, Kept
    <3> QED  BY <1>1, <3>1, <3>2 DEF T!MaybeAdapt
  <2>2. t_pair' \in [Thread -> T!Pair] /\ \A q \in Thread : Kept(t_pair'[q])
    BY <1>1 DEF T!MaybeAdapt, ThresholdInv, T!TypeOK, Within
  <2> QED  BY <1>1, <2>1, <2>2 DEF T!MaybeAdapt, ThresholdInv, T!TypeOK, Within, Kept
<1>2. ASSUME NEW r \in Thread, T!Return(r)
      PROVE  ThresholdInv'
  <2>1. t_pair' \in [Thread -> T!Pair] /\ \A q \in Thread : Kept(t_pair'[q])
    <3> DEFINE warm == [t_pair[r] EXCEPT !.heat = t_current.heat]
               cold == [t_pair[r] EXCEPT !.cool = t_current.cool]
    <3>1. t_pair[r] \in T!Pair /\ Kept(t_pair[r]) /\ t_current \in T!Pair /\ Kept(t_current)
      BY DEF ThresholdInv, T!TypeOK, Within
    <3>2. warm \in T!Pair /\ Kept(warm) /\ cold \in T!Pair /\ Kept(cold)
      BY <3>1 DEF T!Pair, Kept
    <3>3. t_pair' = [t_pair EXCEPT ![r] = warm] \/ t_pair' = [t_pair EXCEPT ![r] = cold]
      BY <1>2 DEF T!Return
    <3> QED  BY <3>2, <3>3, OnePairChanges
  <2>2. t_at' \in [Thread -> {"idle", "read heat", "read cool", "heat", "cool"}]
    BY <1>2 DEF T!Return, ThresholdInv, T!TypeOK
  <2> QED  BY <1>2, <2>1, <2>2 DEF T!Return, ThresholdInv, T!TypeOK, Within, Kept
<1>3. ASSUME NEW r \in Thread, T!Store(r)
      PROVE  ThresholdInv'
  <2>1. t_pair' \in [Thread -> T!Pair] /\ \A q \in Thread : Kept(t_pair'[q])
    <3> DEFINE warm == [t_pair[r] EXCEPT !.heat = t_Heat]
               cold == [t_pair[r] EXCEPT !.cool = t_Cool]
    <3>1. t_pair[r] \in T!Pair /\ Kept(t_pair[r])
      BY DEF ThresholdInv, T!TypeOK, Within
    <3>2. t_Heat >= T!LowestHeat /\ t_Cool <= T!HighestCool
      BY LimitsTyped DEF T!LowestHeat, T!HighestCool
    <3>3. warm \in T!Pair /\ Kept(warm) /\ cold \in T!Pair /\ Kept(cold)
      BY <3>1, <3>2, LimitsTyped DEF T!Pair, Kept
    <3>4. t_pair' = [t_pair EXCEPT ![r] = warm] \/ t_pair' = [t_pair EXCEPT ![r] = cold]
      BY <1>3 DEF T!Store
    <3> QED  BY <3>3, <3>4, OnePairChanges
  <2>2. t_heat' \in Nat /\ t_cool' \in Nat /\ t_heat' >= T!LowestHeat /\ t_cool' <= T!HighestCool
    <3>1. t_heat \in Nat /\ t_cool \in Nat /\ t_heat >= T!LowestHeat /\ t_cool <= T!HighestCool
      BY DEF ThresholdInv, T!TypeOK, Within
    <3>2. /\ t_pair[r].heat \in Nat /\ t_pair[r].cool \in Nat
          /\ t_pair[r].heat >= T!LowestHeat /\ t_pair[r].cool <= T!HighestCool
      BY DEF ThresholdInv, T!TypeOK, Within, Kept, T!Pair
    <3> QED  BY <1>3, <3>1, <3>2 DEF T!Store
  <2>3. t_at' \in [Thread -> {"idle", "read heat", "read cool", "heat", "cool"}]
    BY <1>3 DEF T!Store, ThresholdInv, T!TypeOK
  <2> QED  BY <1>3, <2>1, <2>2, <2>3 DEF T!Store, ThresholdInv, T!TypeOK, Within, Kept
<1>4. CASE UNCHANGED tvars
  BY <1>4 DEF tvars, ThresholdInv, T!TypeOK, Within, Kept
<1> QED  BY <1>1, <1>2, <1>3, <1>4 DEF T!Next

(* The limits keep the gap between leaving and coming back.                  *)
LEMMA GapKept ==
  ASSUME ThresholdInv
  PROVE  T!NoFlap
<1> SUFFICES ASSUME NEW w \in t_Weight, NEW t \in 0 .. t_Full,
                    T!IsOverheated(t, w), T!IsCooled(t)
             PROVE  FALSE
  BY DEF T!NoFlap
<1>1. w \in Nat /\ t \in Nat  BY LimitsTyped
<1>2. t_heat \in Nat /\ t_heat >= T!LowestHeat /\ t_cool \in Nat /\ t_cool <= T!HighestCool
  BY DEF ThresholdInv, T!TypeOK, Within
<1>3. t <= T!HighestCool
  <2>1. t <= t_cool  BY DEF T!IsCooled
  <2> QED  BY <2>1, <1>1, <1>2, LimitsTyped
<1>4. /\ t_heat * w \in Int /\ T!LowestHeat * w \in Int
      /\ t_heat * w >= T!LowestHeat * w
  <2>1. \A a, b \in Int, c \in Nat :
          a * c \in Int /\ b * c \in Int /\ (a >= b => a * c >= b * c)
    OBVIOUS
  <2>2. t_heat \in Int  BY <1>2
  <2> QED  BY <1>1, <1>2, <2>1, <2>2, LimitsTyped
<1>5. /\ T!EffectiveHeat(t_heat, w) \in Int /\ T!EffectiveHeat(T!LowestHeat, w) \in Int
      /\ T!EffectiveHeat(t_heat, w) >= T!EffectiveHeat(T!LowestHeat, w)
  <2>1. \A f, x, y \in Int : x >= y =>
          /\ T!Smaller(f, x) \in Int /\ T!Smaller(f, y) \in Int
          /\ T!Smaller(f, x) >= T!Smaller(f, y)
    OBVIOUS
  <2>2. t_Full * 100 \in Int  BY LimitsTyped
  <2> HIDE DEF T!Smaller
  <2> QED  BY <1>4, <2>1, <2>2 DEF T!EffectiveHeat
<1>6. T!HighestCool * 100 < T!EffectiveHeat(T!LowestHeat, w)
  BY LimitsAssumption DEF T!LimitsAssumption
<1>7. t * 100 >= T!EffectiveHeat(t_heat, w)
  BY DEF T!IsOverheated
<1> QED  BY <1>1, <1>3, <1>5, <1>6, <1>7, LimitsTyped

-----------------------------------------------------------------------------
(* Circuit breakers.                                                       *)

BreakerTypes ==
  /\ b_state \in [b_Node -> {"closed", "open", "half_open"}]
  /\ b_heard \in [b_Node -> {"nothing", "tripped", "reset"}]

BreakerInv == BreakerTypes /\ B!NoFalseAlarm

LEMMA BreakerStart == B!Init => BreakerInv
BY DEF B!Init, BreakerInv, BreakerTypes, B!NoFalseAlarm

(* _evaluate trips or opens what was closed, resets what it closes, and      *)
(* leaves closed only what was, telling nothing.                             *)
LEMMA EvaluationTells ==
  ASSUME BreakerInv, NEW l \in Thread, NEW n \in b_Node, B!Evaluate(l, n)
  PROVE  /\ BreakerTypes' /\ b_resetting' = b_resetting
         /\ \A m \in b_Node \ {n} : b_state'[m] = b_state[m] /\ b_heard'[m] = b_heard[m]
         /\ b_state'[n] = "closed" =>
              \/ b_heard'[n] = "reset"
              \/ b_state[n] = "closed" /\ b_heard'[n] = b_heard[n]
<1> USE DEF BreakerInv, BreakerTypes, B!Evaluate
<1>1. CASE B!Trips(l, n)
  BY <1>1
<1>2. CASE ~B!Trips(l, n) /\ B!Recovers(l, n)
  BY <1>2
<1>3. CASE ~B!Trips(l, n) /\ ~B!Recovers(l, n)
  BY <1>3 DEF B!TimedOut
<1> QED  BY <1>1, <1>2, <1>3

LEMMA BreakerInductive ==
  ASSUME BreakerInv, [B!Next]_bvars
  PROVE  BreakerInv'
<1> USE DEF BreakerInv, BreakerTypes, B!NoFalseAlarm, B!IsOpen
<1>1. CASE UNCHANGED <<b_state, b_resetting, b_heard>>
  BY <1>1
<1>2. ASSUME NEW n \in b_Node, B!Reset(n)  PROVE BreakerInv'
  BY <1>2 DEF B!Reset
<1>3. ASSUME NEW n \in b_Node, B!ResetTold(n)  PROVE BreakerInv'
  BY <1>3 DEF B!ResetTold
<1>4. ASSUME NEW l \in Thread, NEW n \in b_Node, B!Evaluate(l, n)  PROVE BreakerInv'
  BY <1>4, EvaluationTells
<1>5. ASSUME NEW n \in b_Node, B!Heartbeat(n) \/ B!Membership(n) \/ B!Expire(n)
      PROVE  UNCHANGED <<b_state, b_resetting, b_heard>>
  BY <1>5 DEF B!Heartbeat, B!Membership, B!Expire
<1>6. ASSUME NEW l \in Thread, B!Attach(l) \/ B!Wake(l) \/ B!Evaluated(l)
      PROVE  UNCHANGED <<b_state, b_resetting, b_heard>>
  BY <1>6 DEF B!Attach, B!Wake, B!Evaluated
<1>7. CASE B!Stop \/ UNCHANGED bvars
  BY <1>1, <1>7 DEF B!Stop, bvars
<1> QED
  BY <1>1, <1>2, <1>3, <1>4, <1>5, <1>6, <1>7 DEF B!Next, B!LoopStep

-----------------------------------------------------------------------------
(* The auto-scaler's advice.                                               *)

Asked(d) == IF d = "up" THEN s_booting ELSE s_retiring

Firing(d) == {l \in Thread : s_loop[l].at = "firing" /\ s_loop[l].advice = d}

(* What is asked for and not there yet keeps its cooldown running, and with  *)
(* those that have passed the guard it is no more than there are threads.     *)
Advised(d) ==
  /\ Asked(d) > 0 => d \in s_cooling
  /\ Asked(d) + Cardinality(Firing(d)) <= Cardinality(Thread)

Chosen == \A l \in Thread : s_loop[l].at = "firing" => s_loop[l].advice \in S!Direction

AdviceInv == S!TypeOK /\ Chosen /\ \A d \in S!Direction : Advised(d)

LEMMA FiringCounted ==
  ASSUME NEW d
  PROVE  /\ IsFiniteSet(Firing(d)) /\ Cardinality(Firing(d)) \in Nat
         /\ Cardinality(Firing(d)) <= Cardinality(Thread) /\ Cardinality(Thread) \in Nat
<1>1. Firing(d) \subseteq Thread  BY DEF Firing
<1> QED  BY <1>1, ThreadsAssumption, FS_Subset, FS_CardinalityType

LEMMA AdviceStart == S!Init => AdviceInv
<1> SUFFICES ASSUME S!Init  PROVE AdviceInv  OBVIOUS
<1>1. S!TypeOK
  <2>1. s_alive \in Nat /\ s_sick = 0 /\ s_booting = 0 /\ s_retiring = 0 /\ s_losses = 0
        /\ s_cooling = {} /\ s_running = FALSE
    BY SizesAssumption DEF S!Init
  <2>2. s_loop = [l \in Thread |-> [at |-> "off", seen |-> 0, advice |-> "none"]]
    BY DEF S!Init, S!At
  <2>3. s_loop \in [Thread -> [at : {"off", "asleep", "tick", "firing"}, seen : Nat,
                               advice : S!Direction \cup {"none"}]]
    BY <2>2
  <2>4. {s_alive, s_sick, s_booting, s_retiring, s_losses} \subseteq Nat
    BY <2>1
  <2> QED  BY <2>1, <2>3, <2>4 DEF S!TypeOK
<1>2. Chosen
  BY DEF S!Init, S!At, Chosen
<1>3. ASSUME NEW d \in S!Direction  PROVE Advised(d)
  <2>1. Firing(d) = {} /\ Asked(d) = 0  BY DEF S!Init, S!At, Firing, Asked
  <2> QED  BY <2>1, FiringCounted, FS_EmptySet DEF Advised
<1> QED  BY <1>1, <1>2, <1>3 DEF AdviceInv

(* Whatever leaves the threads where they are, and asks for nothing.         *)
LEMMA AdviceStands ==
  ASSUME AdviceInv, S!TypeOK', UNCHANGED <<s_loop, s_cooling>>,
         s_booting' <= s_booting, s_retiring' <= s_retiring
  PROVE  AdviceInv'
<1>1. Chosen'  BY DEF AdviceInv, Chosen
<1>2. ASSUME NEW d \in S!Direction  PROVE Advised(d)'
  <2>1. Firing(d)' = Firing(d)  BY DEF Firing
  <2>2. Asked(d) \in Nat /\ Asked(d)' \in Nat /\ Asked(d)' <= Asked(d)
    BY DEF AdviceInv, S!TypeOK, Asked
  <2>3. Advised(d)  BY <1>2 DEF AdviceInv
  <2> QED  BY <2>1, <2>2, <2>3, FiringCounted DEF Advised
<1> QED  BY <1>1, <1>2 DEF AdviceInv

(* A thread moves that neither is about to give advice nor will be then.     *)
LEMMA ThreadMoves ==
  ASSUME AdviceInv, NEW l \in Thread, NEW new,
         S!TypeOK', s_loop' = [s_loop EXCEPT ![l] = new], new.at # "firing",
         s_loop[l].at # "firing", UNCHANGED <<s_booting, s_retiring, s_cooling>>
  PROVE  AdviceInv'
<1>1. s_loop'[l] = new /\ \A k \in Thread \ {l} : s_loop'[k] = s_loop[k]
  BY DEF AdviceInv, S!TypeOK
<1>2. Chosen'  BY <1>1 DEF AdviceInv, Chosen
<1>3. ASSUME NEW d \in S!Direction  PROVE Advised(d)'
  <2>1. Firing(d)' = Firing(d)  BY <1>1 DEF Firing
  <2>2. Advised(d)  BY <1>3 DEF AdviceInv
  <2> QED  BY <2>1, <2>2 DEF Advised, Asked
<1> QED  BY <1>2, <1>3 DEF AdviceInv

(* A thread passes the cooldown guard: nothing is asked for in its direction. *)
LEMMA GuardPassed ==
  ASSUME AdviceInv, NEW l \in Thread, NEW e \in S!Direction, e \notin s_cooling, S!TypeOK',
         s_loop[l].at # "firing",
         s_loop' = [s_loop EXCEPT ![l] = [at |-> "firing", seen |-> 0, advice |-> e]],
         UNCHANGED <<s_booting, s_retiring, s_cooling>>
  PROVE  AdviceInv'
<1>1. /\ s_loop'[l] = [at |-> "firing", seen |-> 0, advice |-> e]
      /\ \A k \in Thread \ {l} : s_loop'[k] = s_loop[k]
  BY DEF AdviceInv, S!TypeOK
<1>2. Chosen'  BY <1>1 DEF AdviceInv, Chosen
<1>3. ASSUME NEW d \in S!Direction  PROVE Advised(d)'
  <2>1. Advised(d) /\ Asked(d)' = Asked(d) /\ Asked(d) \in Nat
    BY <1>3 DEF AdviceInv, Asked, S!TypeOK
  <2>2. CASE d = e
    <3>1. Asked(d) = 0  BY <2>1, <2>2 DEF Advised
    <3>2. Cardinality(Firing(d))' \in Nat /\ Cardinality(Firing(d))' <= Cardinality(Thread)
      <4>1. Firing(d)' \subseteq Thread  BY DEF Firing
      <4> QED  BY <4>1, ThreadsAssumption, FS_Subset, FS_CardinalityType
    <3> QED  BY <2>1, <3>1, <3>2, FiringCounted DEF Advised
  <2>3. CASE d # e
    <3>1. Firing(d)' = Firing(d)  BY <1>1, <2>3 DEF Firing
    <3> QED  BY <2>1, <3>1 DEF Advised
  <2> QED  BY <2>2, <2>3
<1> QED  BY <1>2, <1>3 DEF AdviceInv

(* It gives its advice, and is no longer about to.                           *)
LEMMA AdviceGiven ==
  ASSUME AdviceInv, NEW l \in Thread, S!Fire(l), S!TypeOK'
  PROVE  AdviceInv'
<1> DEFINE e == s_loop[l].advice
<1>1. /\ s_loop'[l] = S!At("asleep")
      /\ \A k \in Thread \ {l} : s_loop'[k] = s_loop[k]
      /\ e \in S!Direction /\ l \in Firing(e) /\ s_cooling' = s_cooling \cup {e}
  BY DEF AdviceInv, S!TypeOK, S!Fire, Firing, Chosen
<1>2. Chosen'  BY <1>1 DEF AdviceInv, Chosen, S!At
<1>3. ASSUME NEW d \in S!Direction  PROVE Advised(d)'
  <2>1. Advised(d) /\ Asked(d) \in Nat /\ Asked(d)' \in Nat
    BY <1>3 DEF AdviceInv, Asked, S!TypeOK
  <2>2. CASE d = e
    <3>1. Firing(d)' = Firing(d) \ {l}  BY <1>1, <2>2 DEF Firing, S!At
    <3>2. Cardinality(Firing(d))' = Cardinality(Firing(d)) - 1
      BY <1>1, <2>2, <3>1, FiringCounted, FS_RemoveElement
    <3>3. Asked(d)' = Asked(d) + 1
      BY <2>2, <1>1 DEF Asked, S!Fire, S!Direction
    <3> HIDE DEF e
    <3> QED  BY <1>1, <2>1, <2>2, <3>2, <3>3, FiringCounted DEF Advised
  <2>3. CASE d # e
    <3>1. Firing(d)' = Firing(d)  BY <1>1, <2>3 DEF Firing, S!At
    <3>2. Asked(d)' = Asked(d)  BY <1>1, <2>3 DEF Asked, S!Fire, S!Direction
    <3> HIDE DEF e
    <3> QED  BY <1>1, <2>1, <3>1, <3>2 DEF Advised
  <2> QED  BY <2>2, <2>3
<1> QED  BY <1>2, <1>3 DEF AdviceInv

LEMMA ScalerThreadTyped ==
  ASSUME S!TypeOK, Chosen, NEW l \in Thread, S!Start(l) \/ S!LoopStep(l)
  PROVE  S!TypeOK'
<1> USE DEF S!TypeOK
<1>1. CASE S!Start(l)  BY <1>1 DEF S!Start, S!At, S!fleet
<1>2. CASE S!Tick(l)
  <2>1. s_loop' = [s_loop EXCEPT ![l] = [at |-> "tick", seen |-> s_alive, advice |-> "none"]]
    <3>1. [S!At("tick") EXCEPT !.seen = s_alive] =
            [at |-> "tick", seen |-> s_alive, advice |-> "none"]
      BY DEF S!At
    <3> QED  BY <1>2, <3>1 DEF S!Tick
  <2>2. s_alive \in Nat  OBVIOUS
  <2>3. s_loop' \in [Thread -> [at : {"off", "asleep", "tick", "firing"}, seen : Nat,
                                advice : S!Direction \cup {"none"}]]
    BY <2>1, <2>2
  <2> QED  BY <1>2, <2>3 DEF S!Tick, S!fleet
<1>3. CASE S!Exit(l)  BY <1>3 DEF S!Exit, S!At, S!fleet
<1>4. CASE S!Evaluate(l)
  <2>1. PICK h \in S!Heat : s_loop' = [s_loop EXCEPT ![l] =
          IF S!Wanted(s_loop[l].seen, h) \in s_cooling \cup {"none"} THEN S!At("asleep")
          ELSE [S!At("firing") EXCEPT !.advice = S!Wanted(s_loop[l].seen, h)]]
    BY <1>4 DEF S!Evaluate
  <2>2. S!Wanted(s_loop[l].seen, h) \in S!Direction \cup {"none"}
    BY DEF S!Wanted, S!Direction
  <2>3. [S!At("firing") EXCEPT !.advice = S!Wanted(s_loop[l].seen, h)] =
          [at |-> "firing", seen |-> 0, advice |-> S!Wanted(s_loop[l].seen, h)]
    BY DEF S!At
  <2> QED  BY <1>4, <2>1, <2>2, <2>3 DEF S!Evaluate, S!At, S!fleet
<1>5. CASE S!Fire(l)
  <2>1. s_loop[l].advice \in S!Direction  BY <1>5 DEF Chosen, S!Fire
  <2>2. s_booting' \in Nat /\ s_retiring' \in Nat /\ s_cooling' \subseteq S!Direction
    BY <1>5, <2>1 DEF S!Fire
  <2>3. s_loop' \in [Thread -> [at : {"off", "asleep", "tick", "firing"}, seen : Nat,
                                advice : S!Direction \cup {"none"}]]
    BY <1>5 DEF S!Fire, S!At
  <2> QED  BY <1>5, <2>2, <2>3 DEF S!Fire
<1> QED  BY <1>1, <1>2, <1>3, <1>4, <1>5 DEF S!LoopStep

LEMMA FleetTyped ==
  ASSUME S!TypeOK, S!Boots \/ S!Retires \/ S!Dies \/ S!FallsSick \/ S!Recovers
  PROVE  /\ S!TypeOK' /\ UNCHANGED <<s_loop, s_cooling>>
         /\ s_booting' <= s_booting /\ s_retiring' <= s_retiring
<1>1. /\ s_alive' \in Nat /\ s_sick' \in Nat /\ s_losses' \in Nat
      /\ s_booting' \in Nat /\ s_retiring' \in Nat
      /\ UNCHANGED <<s_loop, s_cooling, s_running>>
      /\ s_booting' <= s_booting /\ s_retiring' <= s_retiring
  <2>1. /\ s_alive \in Nat /\ s_sick \in Nat /\ s_losses \in Nat
        /\ s_booting \in Nat /\ s_retiring \in Nat
    BY DEF S!TypeOK
  <2> QED  BY <2>1 DEF S!Boots, S!Retires, S!Dies, S!FallsSick, S!Recovers
<1> QED  BY <1>1 DEF S!TypeOK

LEMMA AdviceInductive ==
  ASSUME AdviceInv, [S!Next]_svars
  PROVE  AdviceInv'
<1> USE DEF AdviceInv
<1>1. CASE S!Boots \/ S!Retires \/ S!Dies \/ S!FallsSick \/ S!Recovers
  BY <1>1, FleetTyped, AdviceStands
<1>2. ASSUME NEW d \in S!Direction, S!CooldownOver(d)  PROVE AdviceInv'
  <2>1. Firing(d) = {} /\ Asked(d) = 0
    BY <1>2 DEF S!CooldownOver, Firing, Asked, S!Direction
  <2>2. S!TypeOK' /\ Chosen'
    BY <1>2 DEF S!CooldownOver, S!TypeOK, Chosen, S!fleet
  <2>3. ASSUME NEW e \in S!Direction  PROVE Advised(e)'
    <3>1. Asked(e)' = Asked(e) /\ Firing(e)' = Firing(e) /\ s_cooling' = s_cooling \ {d}
      BY <1>2 DEF S!CooldownOver, Asked, Firing, S!fleet
    <3>2. Asked(d) > 0 <=> FALSE  BY <2>1
    <3> QED  BY <2>3, <3>1, <3>2 DEF Advised
  <2> QED  BY <2>2, <2>3
<1>3. ASSUME NEW l \in Thread, S!Start(l) \/ S!LoopStep(l)  PROVE AdviceInv'
  <2>1. S!TypeOK'  BY <1>3, ScalerThreadTyped
  <2>2. CASE S!Start(l) \/ S!Tick(l) \/ S!Exit(l)
    <3>1. \E new : s_loop' = [s_loop EXCEPT ![l] = new] /\ new.at # "firing"
      <4>1. S!At("asleep").at # "firing" /\ S!At("off").at # "firing"
            /\ [S!At("tick") EXCEPT !.seen = s_alive].at # "firing"
        BY DEF S!At
      <4>2. \/ s_loop' = [s_loop EXCEPT ![l] = S!At("asleep")]
            \/ s_loop' = [s_loop EXCEPT ![l] = S!At("off")]
            \/ s_loop' = [s_loop EXCEPT ![l] = [S!At("tick") EXCEPT !.seen = s_alive]]
        BY <2>2 DEF S!Start, S!Tick, S!Exit
      <4> HIDE DEF AdviceInv
      <4> QED  BY <4>1, <4>2, Zenon
    <3>2. s_loop[l].at # "firing" /\ UNCHANGED <<s_booting, s_retiring, s_cooling>>
      BY <2>2 DEF S!Start, S!Tick, S!Exit, S!fleet
    <3>3. PICK new : s_loop' = [s_loop EXCEPT ![l] = new] /\ new.at # "firing"
      BY <3>1
    <3> QED  BY <2>1, <3>2, <3>3, ThreadMoves
  <2>3. CASE S!Evaluate(l)
    <3>1. s_loop[l].at # "firing" /\ UNCHANGED <<s_booting, s_retiring, s_cooling>>
      BY <2>3 DEF S!Evaluate, S!fleet
    <3>2. CASE s_loop' = [s_loop EXCEPT ![l] = S!At("asleep")]
      <4>1. S!At("asleep").at # "firing"  BY DEF S!At
      <4> QED  BY <2>1, <3>1, <3>2, <4>1, ThreadMoves
    <3>3. ASSUME NEW e \in S!Direction, e \notin s_cooling,
                 s_loop' = [s_loop EXCEPT ![l] =
                              [at |-> "firing", seen |-> 0, advice |-> e]]
          PROVE  AdviceInv'
      BY <2>1, <3>1, <3>3, GuardPassed
    <3>4. PICK d \in S!Direction \cup {"none"} : s_loop' = [s_loop EXCEPT ![l] =
            IF d \in s_cooling \cup {"none"} THEN S!At("asleep")
            ELSE [S!At("firing") EXCEPT !.advice = d]]
      BY <2>3 DEF S!Evaluate, S!Wanted, S!Direction
    <3>5. [S!At("firing") EXCEPT !.advice = d] = [at |-> "firing", seen |-> 0, advice |-> d]
      BY DEF S!At
    <3> QED  BY <3>2, <3>3, <3>4, <3>5
  <2>4. CASE S!Fire(l)
    BY <2>1, <2>4, AdviceGiven
  <2> QED  BY <1>3, <2>2, <2>3, <2>4 DEF S!LoopStep
<1>4. CASE S!Stop \/ UNCHANGED svars
  <2>1. UNCHANGED <<s_alive, s_sick, s_booting, s_retiring, s_losses, s_cooling, s_loop>>
        /\ s_running' \in BOOLEAN
    BY <1>4 DEF S!Stop, S!fleet, svars, S!TypeOK
  <2>2. S!TypeOK'  BY <2>1 DEF S!TypeOK
  <2>3. s_booting' <= s_booting /\ s_retiring' <= s_retiring
    BY <2>1 DEF S!TypeOK
  <2> QED  BY <2>1, <2>2, <2>3, AdviceStands
<1> QED  BY <1>1, <1>2, <1>3, <1>4 DEF S!Next

LEMMA AdviceIsBounded == ASSUME AdviceInv  PROVE S!AdviceBounded
<1>1. ASSUME NEW d \in S!Direction
      PROVE  Asked(d) \in Nat /\ Asked(d) <= Cardinality(Thread)
  <2>1. Asked(d) \in Nat /\ Advised(d)  BY DEF AdviceInv, Asked, S!TypeOK
  <2> QED  BY <2>1, FiringCounted DEF Advised
<1>2. S!Cardinality(Thread) = Cardinality(Thread)
  BY DEF S!Cardinality, Cardinality, S!IsFiniteSet, IsFiniteSet
<1> QED  BY <1>1, <1>2 DEF S!AdviceBounded, Asked, S!Direction

-----------------------------------------------------------------------------
(* The pods and the servers made of them.                                    *)

PodTypes ==
  /\ d_ready \subseteq d_Pod /\ d_known \subseteq d_Pod
  /\ d_copies \in [d_Pod -> Nat] /\ d_draining \in [d_Pod -> Nat]
  /\ d_watch \in [Thread -> [at : {"off", "asleep", "compare", "apply", "remove"},
                              current : SUBSET d_Pod, add : SUBSET d_Pod,
                              remove : SUBSET d_Pod]]

Owed(p) == Cardinality(D!Removing(p)) + (IF p \in d_known THEN 1 ELSE 0)

Accounted(p) == d_copies[p] >= Owed(p) /\ (d_copies[p] > Owed(p) => p \in d_lost)

PodInv == PodTypes /\ \A p \in d_Pod : Accounted(p)

LEMMA AccountedIs == D!PodsAccounted <=> \A p \in d_Pod : Accounted(p)
<1>1. \A set : D!Cardinality(set) = Cardinality(set)
  BY DEF D!Cardinality, Cardinality, D!IsFiniteSet, IsFiniteSet
<1> QED  BY <1>1 DEF D!PodsAccounted, Accounted, Owed

LEMMA RemovingCounted ==
  ASSUME NEW p
  PROVE  IsFiniteSet(D!Removing(p)) /\ Cardinality(D!Removing(p)) \in Nat
<1>1. D!Removing(p) \subseteq Thread  BY DEF D!Removing
<1> QED  BY <1>1, ThreadsAssumption, FS_Subset, FS_CardinalityType

LEMMA PodStart == D!Init => PodInv
<1> SUFFICES ASSUME D!Init  PROVE PodInv  OBVIOUS
<1>1. PodTypes  BY DEF D!Init, D!At, PodTypes
<1>2. ASSUME NEW p \in d_Pod  PROVE Accounted(p)
  <2>1. D!Removing(p) = {} /\ d_copies[p] = 0 /\ p \notin d_known
    BY DEF D!Init, D!At, D!Removing
  <2> QED  BY <2>1, FS_EmptySet DEF Accounted, Owed
<1> QED  BY <1>1, <1>2 DEF PodInv

(* Whatever removes nothing, and adds nothing that is not accounted for.     *)
LEMMA NobodyRemoves ==
  ASSUME PodInv, NEW w \in Thread,
         \A v \in Thread \ {w} : d_watch'[v] = d_watch[v],
         d_watch[w].at # "remove", d_watch'[w].at # "remove", NEW p
  PROVE  D!Removing(p)' = D!Removing(p)
BY DEF D!Removing

LEMMA PodsStand ==
  ASSUME PodInv, PodTypes', UNCHANGED <<d_known, d_copies, d_lost>>,
         \A p \in d_Pod : D!Removing(p)' = D!Removing(p)
  PROVE  PodInv'
BY DEF PodInv, Accounted, Owed

LEMMA WatchRecords ==
  ASSUME NEW c, NEW a, NEW r
  PROVE  /\ [D!At("compare") EXCEPT !.current = c] =
              [at |-> "compare", current |-> c, add |-> {}, remove |-> {}]
         /\ [D!At("apply") EXCEPT !.add = a, !.remove = r] =
              [at |-> "apply", current |-> {}, add |-> a, remove |-> r]
<1> DEFINE old(at) == [at |-> at, current |-> {}, add |-> {}, remove |-> {}]
<1>1. [old("compare") EXCEPT !.current = c] =
        [at |-> "compare", current |-> c, add |-> {}, remove |-> {}]
  OBVIOUS
<1>2. [old("apply") EXCEPT !.add = a] =
        [at |-> "apply", current |-> {}, add |-> a, remove |-> {}]
  OBVIOUS
<1>3. [[at |-> "apply", current |-> {}, add |-> a, remove |-> {}] EXCEPT !.remove = r] =
        [at |-> "apply", current |-> {}, add |-> a, remove |-> r]
  OBVIOUS
<1>4. D!At("compare") = old("compare") /\ D!At("apply") = old("apply")
  BY DEF D!At
<1>5. [old("apply") EXCEPT !.add = a, !.remove = r] =
        [[old("apply") EXCEPT !.add = a] EXCEPT !.remove = r]
  OBVIOUS
<1> HIDE DEF old
<1> QED  BY <1>1, <1>2, <1>3, <1>4, <1>5

(* A thread sleeps on, fetches, compares or is done.                         *)
LEMMA WatcherMoves ==
  ASSUME PodInv, NEW w \in Thread,
         D!Start(w) \/ D!Fetch(w) \/ D!Compare(w) \/ D!Applied(w)
  PROVE  PodInv'
<1>1. /\ d_watch' \in [Thread -> [at : {"off", "asleep", "compare", "apply", "remove"},
                              current : SUBSET d_Pod, add : SUBSET d_Pod,
                              remove : SUBSET d_Pod]]
      /\ \A v \in Thread \ {w} : d_watch'[v] = d_watch[v]
      /\ d_watch[w].at # "remove" /\ d_watch'[w].at # "remove"
  <2> USE DEF PodInv, PodTypes
  <2>1. CASE D!Start(w)  BY <2>1 DEF D!Start, D!At
  <2>2. CASE D!Fetch(w)
    <3>1. [D!At("compare") EXCEPT !.current = d_ready] =
            [at |-> "compare", current |-> d_ready, add |-> {}, remove |-> {}]
      BY WatchRecords
    <3>2. \/ d_watch' = [d_watch EXCEPT ![w] = [at |-> "compare", current |-> d_ready,
                                               add |-> {}, remove |-> {}]]
          \/ d_watch' = [d_watch EXCEPT ![w] = D!At(IF d_running THEN "asleep" ELSE "off")]
      BY <2>2, <3>1 DEF D!Fetch, D!Sleeps
    <3> QED  BY <2>2, <3>2 DEF D!Fetch, D!At
  <2>3. CASE D!Compare(w)
    <3> DEFINE current == d_watch[w].current
               new == [at |-> "apply", current |-> {}, add |-> current \ d_known,
                       remove |-> d_known \ current]
    <3>1. [D!At("apply") EXCEPT !.add = current \ d_known,
                                !.remove = d_known \ current] = new
      BY WatchRecords
    <3>2. d_watch' = [d_watch EXCEPT ![w] = new]
      BY <2>3, <3>1 DEF D!Compare
    <3>3. current \ d_known \in SUBSET d_Pod /\ d_known \ current \in SUBSET d_Pod
      OBVIOUS
    <3>4. d_watch[w].at # "remove"  BY <2>3 DEF D!Compare
    <3> HIDE DEF current
    <3> QED  BY <3>2, <3>3, <3>4
  <2>4. CASE D!Applied(w)  BY <2>4 DEF D!Applied, D!Sleeps, D!At
  <2> QED  BY <2>1, <2>2, <2>3, <2>4
<1>2. UNCHANGED <<d_ready, d_known, d_copies, d_draining, d_lost>>
  BY DEF D!Start, D!Fetch, D!Compare, D!Applied
<1>3. PodTypes'  BY <1>1, <1>2 DEF PodInv, PodTypes
<1> QED  BY <1>1, <1>2, <1>3, NobodyRemoves, PodsStand

Watch == [at : {"off", "asleep", "compare", "apply", "remove"},
          current : SUBSET d_Pod, add : SUBSET d_Pod, remove : SUBSET d_Pod]

(* add_server with the first server of a pod, or beside another.             *)
LEMMA PodAdded ==
  ASSUME PodInv, NEW w \in Thread, NEW p \in d_Pod, D!Add(w, p)
  PROVE  PodInv'
<1>1. /\ d_watch' \in [Thread -> Watch]
      /\ \A v \in Thread \ {w} : d_watch'[v] = d_watch[v]
      /\ d_watch[w].at # "remove" /\ d_watch'[w].at # "remove"
  <2> DEFINE left == d_watch[w].add \ {p}
  <2>1. d_watch \in [Thread -> Watch] /\ left \in SUBSET d_Pod /\ d_watch[w].at = "apply"
    BY DEF D!Add, PodInv, PodTypes, Watch
  <2>2. d_watch' = [d_watch EXCEPT ![w] = [d_watch[w] EXCEPT !.add = left]]
    BY <2>1 DEF D!Add, Watch
  <2> HIDE DEF left
  <2>3. [d_watch[w] EXCEPT !.add = left] \in Watch
        /\ [d_watch[w] EXCEPT !.add = left].at = "apply"
    BY <2>1 DEF Watch
  <2> QED  BY <2>1, <2>2, <2>3
<1>2. ASSUME NEW q \in d_Pod  PROVE D!Removing(q)' = D!Removing(q)
  BY <1>1, NobodyRemoves
<1>3. CASE UNCHANGED <<d_copies, d_known, d_lost>>
  <2>1. PodTypes'  BY <1>1, <1>3 DEF D!Add, PodInv, PodTypes, Watch
  <2> QED  BY <1>2, <1>3, <2>1, PodsStand
<1>4. CASE /\ d_copies' = [d_copies EXCEPT ![p] = @ + 1] /\ d_known' = d_known \cup {p}
           /\ d_lost' = IF d_copies[p] > 0 THEN d_lost \cup {p} ELSE d_lost
  <2>1. PodTypes'  BY <1>1, <1>4 DEF D!Add, PodInv, PodTypes, Watch
  <2>2. ASSUME NEW q \in d_Pod  PROVE Accounted(q)'
    <3>1. Accounted(q) /\ d_copies[q] \in Nat /\ Cardinality(D!Removing(q)) \in Nat
      BY RemovingCounted DEF PodInv, PodTypes
    <3>2. d_copies'[q] = IF q = p THEN d_copies[q] + 1 ELSE d_copies[q]
      BY <1>4 DEF PodInv, PodTypes
    <3>3. Owed(q)' = Cardinality(D!Removing(q)) + (IF q \in d_known' THEN 1 ELSE 0)
      BY <1>2 DEF Owed
    <3> QED  BY <1>4, <3>1, <3>2, <3>3 DEF Accounted, Owed
  <2> QED  BY <2>1, <2>2 DEF PodInv
<1> QED  BY <1>3, <1>4 DEF D!Add

(* An address is forgotten, and the server of it about to be removed.        *)
LEMMA PodForgotten ==
  ASSUME PodInv, NEW w \in Thread, NEW p \in d_Pod, D!Forget(w, p)
  PROVE  PodInv'
<1> DEFINE left == d_watch[w].remove \ {p}
           new == [d_watch[w] EXCEPT !.remove = left,
                     !.at = IF p \in d_known THEN "remove" ELSE "apply",
                     !.current = IF p \in d_known THEN {p} ELSE {}]
<1>1. d_watch \in [Thread -> Watch] /\ left \in SUBSET d_Pod /\ d_watch[w].at = "apply"
  BY DEF D!Forget, PodInv, PodTypes, Watch
<1>2. d_watch' = [d_watch EXCEPT ![w] = new]
  BY <1>1 DEF D!Forget, Watch
<1>3. new \in Watch /\ new.at = (IF p \in d_known THEN "remove" ELSE "apply")
      /\ new.current = (IF p \in d_known THEN {p} ELSE {})
  BY <1>1 DEF Watch
<1> HIDE DEF new, left
<1>4. /\ d_watch' \in [Thread -> Watch] /\ d_watch'[w] = new
      /\ \A v \in Thread \ {w} : d_watch'[v] = d_watch[v]
  BY <1>1, <1>2, <1>3
<1>5. PodTypes'  BY <1>4 DEF D!Forget, PodInv, PodTypes, Watch
<1>6. CASE p \notin d_known
  <2>1. UNCHANGED <<d_known, d_copies, d_lost>>  BY <1>6 DEF D!Forget
  <2>2. d_watch[w].at # "remove" /\ d_watch'[w].at # "remove"
    BY <1>1, <1>3, <1>4, <1>6
  <2> QED  BY <1>4, <1>5, <2>1, <2>2, NobodyRemoves, PodsStand
<1>7. CASE p \in d_known
  <2>1. ASSUME NEW q \in d_Pod  PROVE Accounted(q)'
    <3>1. Accounted(q) /\ Cardinality(D!Removing(q)) \in Nat /\ d_copies[q] \in Nat
      BY RemovingCounted DEF PodInv, PodTypes
    <3>2. CASE q = p
      <4>1. D!Removing(q)' = D!Removing(q) \cup {w} /\ w \notin D!Removing(q)
        BY <1>1, <1>3, <1>4, <1>7, <3>2 DEF D!Removing
      <4>2. Cardinality(D!Removing(q))' = Cardinality(D!Removing(q)) + 1
        BY <4>1, RemovingCounted, FS_AddElement
      <4> QED  BY <1>7, <3>1, <3>2, <4>2 DEF Accounted, Owed, D!Forget
    <3>3. CASE q # p
      <4>1. D!Removing(q)' = D!Removing(q)
        BY <1>1, <1>3, <1>4, <1>7, <3>3 DEF D!Removing
      <4> QED  BY <3>1, <3>3, <4>1 DEF Accounted, Owed, D!Forget
    <3> QED  BY <3>2, <3>3
  <2> QED  BY <1>5, <2>1 DEF PodInv
<1> QED  BY <1>6, <1>7

(* remove_server removes one, or refuses and the server is lost.             *)
LEMMA PodRemoved ==
  ASSUME PodInv, NEW w \in Thread, NEW p \in d_Pod, D!Remove(w, p)
  PROVE  PodInv'
<1> DEFINE new == [d_watch[w] EXCEPT !.at = "apply", !.current = {}]
<1>1. d_watch \in [Thread -> Watch] /\ w \in D!Removing(p)
  BY DEF D!Remove, D!Removing, PodInv, PodTypes, Watch
<1>2. d_watch' = [d_watch EXCEPT ![w] = new]
  BY <1>1 DEF D!Remove, Watch
<1>3. new \in Watch /\ new.at = "apply"
  BY <1>1 DEF Watch
<1> HIDE DEF new
<1>4. /\ d_watch' \in [Thread -> Watch] /\ d_watch'[w] = new
      /\ \A v \in Thread \ {w} : d_watch'[v] = d_watch[v]
  BY <1>1, <1>2, <1>3
<1>5. PodTypes'
  <2>1. d_copies' \in [d_Pod -> Nat]
    <3>1. d_draining[p] \in Nat /\ d_copies[p] \in Nat /\ d_copies \in [d_Pod -> Nat]
      BY DEF PodInv, PodTypes
    <3> QED  BY <3>1 DEF D!Remove
  <2> QED  BY <1>4, <2>1 DEF D!Remove, PodInv, PodTypes, Watch
<1>6. ASSUME NEW q \in d_Pod  PROVE Accounted(q)'
  <2>1. Accounted(q) /\ Cardinality(D!Removing(q)) \in Nat /\ d_copies[q] \in Nat
        /\ d_copies \in [d_Pod -> Nat]
    BY RemovingCounted DEF PodInv, PodTypes
  <2>2. CASE q = p
    <3>1. D!Removing(q)' = D!Removing(q) \ {w}
      BY <1>3, <1>4, <2>2 DEF D!Removing
    <3>2. Cardinality(D!Removing(q))' = Cardinality(D!Removing(q)) - 1
      BY <1>1, <2>2, <3>1, RemovingCounted, FS_RemoveElement
    <3>3. Owed(q)' = Owed(q) - 1 /\ Owed(q) \in Nat
      BY <2>1, <3>2 DEF Owed, D!Remove
    <3>4. \/ d_copies'[q] = d_copies[q] - 1 /\ d_lost' = d_lost
          \/ d_copies'[q] = d_copies[q] /\ q \in d_lost'
      BY <2>1, <2>2 DEF D!Remove
    <3> QED  BY <2>1, <3>3, <3>4 DEF Accounted
  <2>3. CASE q # p
    <3>1. D!Removing(q)' = D!Removing(q)
      <4>1. w \notin D!Removing(q)
        BY <1>1, <2>3 DEF D!Removing
      <4> QED  BY <1>3, <1>4, <4>1 DEF D!Removing
    <3>2. d_copies'[q] = d_copies[q] /\ (q \in d_lost => q \in d_lost')
      BY <2>1, <2>3 DEF D!Remove
    <3>3. Owed(q)' = Owed(q)  BY <3>1 DEF Owed, D!Remove
    <3> QED  BY <2>1, <3>2, <3>3 DEF Accounted
  <2> QED  BY <2>2, <2>3
<1> QED  BY <1>5, <1>6 DEF PodInv

LEMMA PodInductive ==
  ASSUME PodInv, [D!Next]_dvars
  PROVE  PodInv'
<1>1. ASSUME NEW p \in d_Pod, D!PodChanges(p) \/ D!Drains(p)  PROVE PodInv'
  <2>1. UNCHANGED <<d_known, d_copies, d_watch, d_lost>>
    BY <1>1 DEF D!PodChanges, D!Drains
  <2>2. PodTypes'
    <3>1. d_ready' \subseteq d_Pod
      BY <1>1 DEF D!PodChanges, D!Drains, PodInv, PodTypes
    <3>2. d_draining' \in [d_Pod -> Nat]
      <4>1. d_draining \in [d_Pod -> Nat]  BY DEF PodInv, PodTypes
      <4> QED  BY <1>1, <4>1 DEF D!PodChanges, D!Drains
    <3> QED  BY <2>1, <3>1, <3>2 DEF PodInv, PodTypes
  <2> QED  BY <2>1, <2>2, PodsStand DEF D!Removing
<1>2. ASSUME NEW w \in Thread, D!Start(w) \/ D!Work(w)  PROVE PodInv'
  BY <1>2, WatcherMoves, PodAdded, PodForgotten, PodRemoved DEF D!Work
<1>3. CASE D!Stop \/ UNCHANGED dvars
  <2>1. UNCHANGED <<d_ready, d_known, d_copies, d_draining, d_watch, d_lost>>
    BY <1>3 DEF D!Stop, dvars
  <2>2. PodTypes'  BY <2>1 DEF PodInv, PodTypes
  <2> QED  BY <2>1, <2>2, PodsStand DEF D!Removing
<1> QED  BY <1>1, <1>2, <1>3 DEF D!Next

-----------------------------------------------------------------------------
(* Observability.  The buffer is no longer than what has been recorded, the   *)
(* positions lie in it, and what a post will move the position over is sent   *)
(* or among what it posts, until the buffer overflows.                       *)
Exporter == [at : {"off", "head", "read", "wait", "post"}, final : BOOLEAN,
             pending : Seq(Nat), upTo : Nat]

ExportTypes ==
  /\ o_events \in Seq(Nat) /\ o_exported \in Nat /\ o_recorded \in Nat
  /\ o_stopped \in BOOLEAN /\ o_thread \in [Thread -> Exporter]

Posting(t, e) == \E j \in DOMAIN o_thread[t].pending : o_thread[t].pending[j] = e

Claims(t) ==
  o_thread[t].at = "post" =>
    /\ o_thread[t].upTo <= Len(o_events)
    /\ o_recorded <= o_BufferSize =>
         \A k \in 1 .. o_thread[t].upTo :
           o_events[k] \in o_sent \/ Posting(t, o_events[k])

ExportInv ==
  /\ ExportTypes
  /\ Len(o_events) <= o_recorded
  /\ O!SentUpTo
  /\ \A t \in Thread : Claims(t)

LEMMA ExportStart == O!Init => ExportInv
<1> SUFFICES ASSUME O!Init  PROVE ExportInv  OBVIOUS
<1>1. O!At("off", FALSE) \in Exporter  BY DEF O!At, Exporter
<1>2. ExportTypes
  <2>1. o_events = <<>> /\ o_exported = 0 /\ o_recorded = 0 /\ o_stopped = FALSE
        /\ o_thread = [t \in Thread |-> O!At("off", FALSE)]
    BY DEF O!Init
  <2>2. o_thread \in [Thread -> Exporter]  BY <1>1, <2>1
  <2>3. <<>> \in Seq(Nat)  BY EmptySeq
  <2> QED  BY <2>1, <2>2, <2>3 DEF ExportTypes
<1>3. Len(o_events) = 0 /\ o_recorded = 0 /\ o_exported = 0  BY DEF O!Init
<1>4. O!SentUpTo  BY <1>3 DEF O!SentUpTo
<1>5. ASSUME NEW t \in Thread  PROVE Claims(t)  BY DEF O!Init, O!At, Claims
<1> QED  BY <1>2, <1>3, <1>4, <1>5 DEF ExportInv

(* A request is recorded.  The buffer overflows only once more have been      *)
(* recorded than it holds; until then it only grows at its end.               *)
LEMMA EventRecorded ==
  ASSUME ExportInv, O!RecordEvent
  PROVE  ExportInv'
<1> DEFINE longer == Append(o_events, o_recorded + 1)
<1>1. /\ o_events \in Seq(Nat) /\ o_exported \in Nat /\ o_recorded \in Nat
      /\ o_BufferSize \in Nat /\ Len(o_events) \in Nat
      /\ Len(o_events) <= o_recorded /\ o_exported <= Len(o_events)
  BY SizesAssumption DEF ExportInv, ExportTypes, O!SentUpTo
<1>2. o_recorded' = o_recorded + 1 /\ UNCHANGED <<o_stopped, o_thread, o_sent>>
  BY DEF O!RecordEvent
<1>3. /\ longer \in Seq(Nat) /\ longer # <<>> /\ Len(longer) = Len(o_events) + 1
      /\ \A k \in 1 .. Len(o_events) : longer[k] = o_events[k]
  <2>1. o_recorded + 1 \in Nat  BY <1>1
  <2>2. longer \in Seq(Nat) /\ Len(longer) = Len(o_events) + 1
    BY <1>1, <2>1, AppendProperties
  <2>3. \A k \in 1 .. Len(o_events) : longer[k] = o_events[k]
    BY <1>1, <2>1, AppendProperties
  <2>4. longer # <<>>  BY <1>1, <2>1, AppendProperties
  <2> QED  BY <2>2, <2>3, <2>4
<1>4. Tail(longer) \in Seq(Nat) /\ Len(Tail(longer)) = Len(o_events)
  <2> HIDE DEF longer
  <2> QED  BY <1>1, <1>3
<1>5. CASE Len(longer) > o_BufferSize
  <2>1. o_events' = Tail(longer)
        /\ o_exported' = (IF o_exported > 0 THEN o_exported - 1 ELSE 0)
    BY <1>5 DEF O!RecordEvent
  <2>2. o_recorded' > o_BufferSize  BY <1>1, <1>2, <1>3, <1>5
  <2>3. /\ o_events' \in Seq(Nat) /\ Len(o_events') = Len(o_events)
        /\ o_exported' \in Nat /\ o_exported' <= o_exported
    BY <1>1, <1>4, <2>1
  <2>4. ExportTypes'  BY <1>1, <1>2, <2>3 DEF ExportInv, ExportTypes
  <2>5. O!SentUpTo'  BY <1>1, <2>2, <2>3, <1>2 DEF O!SentUpTo
  <2>6. ASSUME NEW t \in Thread  PROVE Claims(t)'
    <3>1. Claims(t)  BY DEF ExportInv
    <3> QED  BY <1>1, <1>2, <2>2, <2>3, <3>1 DEF Claims
  <2> QED  BY <1>1, <1>2, <2>3, <2>4, <2>5, <2>6 DEF ExportInv
<1>6. CASE ~ Len(longer) > o_BufferSize
  <2>1. o_events' = longer /\ o_exported' = o_exported
    BY <1>6 DEF O!RecordEvent
  <2> HIDE DEF longer
  <2>2. ExportTypes'  BY <1>1, <1>2, <1>3, <2>1 DEF ExportInv, ExportTypes
  <2>3. O!SentUpTo'
    <3>1. o_exported' <= Len(o_events')  BY <1>1, <1>3, <2>1
    <3>2. ASSUME o_recorded' <= o_BufferSize, NEW k \in 1 .. o_exported
          PROVE  o_events'[k] \in o_sent'
      <4>1. k \in 1 .. Len(o_events) /\ o_recorded <= o_BufferSize
        BY <1>1, <1>2, <3>2
      <4>2. o_events[k] \in o_sent  BY <4>1 DEF ExportInv, O!SentUpTo
      <4> QED  BY <1>2, <1>3, <2>1, <4>1, <4>2
    <3> QED  BY <2>1, <3>1, <3>2 DEF O!SentUpTo
  <2>4. ASSUME NEW t \in Thread  PROVE Claims(t)'
    <3>1. Claims(t) /\ o_thread[t].upTo \in Nat  BY DEF ExportInv, ExportTypes, Exporter
    <3> SUFFICES ASSUME o_thread[t].at = "post"  PROVE Claims(t)'
      BY <1>2 DEF Claims
    <3>2. o_thread[t].upTo <= Len(o_events) /\ o_thread[t].upTo <= Len(o_events')
      BY <1>1, <1>3, <2>1, <3>1 DEF Claims
    <3>3. ASSUME o_recorded' <= o_BufferSize, NEW k \in 1 .. o_thread[t].upTo
          PROVE  (o_events[k] \in o_sent \/ Posting(t, o_events[k]))'
      <4>1. k \in 1 .. Len(o_events) /\ o_recorded <= o_BufferSize
        BY <1>1, <1>2, <3>1, <3>2, <3>3
      <4>2. o_events[k] \in o_sent \/ Posting(t, o_events[k])
        BY <3>1, <4>1 DEF Claims
      <4>3. o_events'[k] = o_events[k]  BY <1>3, <2>1, <4>1
      <4> QED  BY <1>2, <4>2, <4>3 DEF Posting
    <3> QED  BY <1>2, <3>2, <3>3 DEF Claims
  <2> QED  BY <1>1, <1>2, <1>3, <2>1, <2>2, <2>3, <2>4 DEF ExportInv
<1> QED  BY <1>5, <1>6

(* A thread that is not about to post claims nothing.                        *)
LEMMA ExporterMoves ==
  ASSUME ExportInv, NEW t \in Thread, NEW new \in Exporter, new.at # "post",
         o_thread' = [o_thread EXCEPT ![t] = new],
         UNCHANGED <<o_events, o_recorded>>, o_exported' \in Nat,
         o_stopped' \in BOOLEAN,
         O!SentUpTo', o_sent \subseteq o_sent'
  PROVE  ExportInv'
<1>1. o_thread \in [Thread -> Exporter]  BY DEF ExportInv, ExportTypes
<1>2. ExportTypes'  BY <1>1 DEF ExportInv, ExportTypes
<1>3. ASSUME NEW u \in Thread  PROVE Claims(u)'
  <2>1. CASE u = t  BY <1>1, <2>1 DEF Claims
  <2>2. CASE u # t
    <3>1. Claims(u) /\ o_thread'[u] = o_thread[u]  BY <1>1, <2>2 DEF ExportInv
    <3> QED  BY <3>1 DEF Claims, Posting
  <2> QED  BY <2>1, <2>2
<1> QED  BY <1>2, <1>3 DEF ExportInv

(* It reads all that lies behind the position, and posts it.                 *)
LEMMA EventsRead ==
  ASSUME ExportInv, NEW t \in Thread, O!Read(t)
  PROVE  ExportInv'
<1> DEFINE pending == SubSeq(o_events, o_exported + 1, Len(o_events))
           new == [o_thread[t] EXCEPT !.at = "post", !.pending = pending,
                     !.upTo = Len(o_events)]
<1>1. /\ o_thread \in [Thread -> Exporter] /\ o_events \in Seq(Nat)
      /\ o_exported \in Nat /\ Len(o_events) \in Nat /\ o_exported <= Len(o_events)
  BY DEF ExportInv, ExportTypes, O!SentUpTo
<1>2. UNCHANGED <<o_events, o_exported, o_recorded, o_stopped, o_sent>>  BY DEF O!Read
<1>3. O!SentUpTo' /\ o_stopped' \in BOOLEAN
  BY <1>2 DEF ExportInv, ExportTypes, O!SentUpTo
<1>4. CASE O!Goes(t)
  <2>1. O!At(IF o_thread[t].final THEN "off" ELSE "wait", FALSE) \in Exporter
        /\ O!At(IF o_thread[t].final THEN "off" ELSE "wait", FALSE).at # "post"
    BY DEF O!At, Exporter
  <2> QED  BY <1>1, <1>2, <1>3, <1>4, <2>1, ExporterMoves DEF O!Goes
<1>5. CASE ~ O!Goes(t)
  <2>1. /\ pending \in Seq(Nat) /\ Len(pending) = Len(o_events) - o_exported
        /\ \A j \in 1 .. Len(o_events) - o_exported :
             pending[j] = o_events[o_exported + j]
    BY <1>1
  <2>2. o_thread' = [o_thread EXCEPT ![t] = new]
    BY <1>1, <1>5 DEF O!Read, Exporter
  <2>3. new \in Exporter /\ new.at = "post" /\ new.pending = pending
        /\ new.upTo = Len(o_events)
    BY <1>1, <2>1 DEF Exporter
  <2> HIDE DEF new, pending
  <2>4. ExportTypes'  BY <1>1, <1>2, <2>2, <2>3 DEF ExportInv, ExportTypes
  <2>5. ASSUME NEW u \in Thread  PROVE Claims(u)'
    <3>1. CASE u = t
      <4>1. o_thread'[u] = new  BY <1>1, <2>2, <3>1
      <4>2. ASSUME o_recorded <= o_BufferSize, NEW k \in 1 .. Len(o_events)
            PROVE  o_events[k] \in o_sent \/ Posting(u, o_events[k])'
        <5>1. CASE k <= o_exported
          BY <1>1, <4>2, <5>1 DEF ExportInv, O!SentUpTo
        <5>2. CASE k > o_exported
          <6>1. k - o_exported \in 1 .. Len(pending) /\ pending[k - o_exported] = o_events[k]
            BY <1>1, <2>1, <5>2
          <6>2. DOMAIN pending = 1 .. Len(pending)  BY <2>1
          <6> QED  BY <1>2, <2>3, <4>1, <6>1, <6>2 DEF Posting
        <5> QED  BY <1>1, <5>1, <5>2
      <4> QED  BY <1>1, <1>2, <2>3, <4>1, <4>2 DEF Claims
    <3>2. CASE u # t
      <4>1. Claims(u) /\ o_thread'[u] = o_thread[u]  BY <1>1, <2>2, <3>2 DEF ExportInv
      <4> QED  BY <1>2, <4>1 DEF Claims, Posting
    <3> QED  BY <3>1, <3>2
  <2> QED  BY <1>2, <1>3, <2>4, <2>5 DEF ExportInv
<1> QED  BY <1>4, <1>5

LEMMA ExportInductive ==
  ASSUME ExportInv, [O!Next]_ovars
  PROVE  ExportInv'
<1> USE DEF ExportTypes
<1>1. CASE O!RecordEvent  BY <1>1, EventRecorded
<1>2. CASE O!Stop \/ O!StopJoined \/ UNCHANGED ovars
  <2>1. UNCHANGED <<o_events, o_exported, o_recorded, o_thread, o_sent>>
        /\ o_stopped' \in BOOLEAN
    BY <1>2 DEF O!Stop, O!StopJoined, ovars, ExportInv
  <2> QED  BY <2>1 DEF ExportInv, O!SentUpTo, Claims, Posting
<1>3. ASSUME NEW t \in Thread, O!Attach(t) \/ O!Export(t)  PROVE ExportInv'
  <2>1. o_thread[t] \in Exporter /\ o_stopped \in BOOLEAN  BY DEF ExportInv
  <2>9. o_stopped' \in BOOLEAN
    BY <1>3, <2>1 DEF O!Attach, O!Export, O!Loop, O!Wait, O!Read, O!Posted, O!Failed
  <2>2. \A at \in {"off", "head", "read", "wait"}, f \in BOOLEAN :
          O!At(at, f) \in Exporter /\ O!At(at, f).at # "post"
    BY DEF O!At, Exporter
  <2>3. CASE O!Attach(t)
    <3>1. UNCHANGED <<o_events, o_exported, o_recorded, o_sent>>  BY <2>3 DEF O!Attach
    <3>2. O!SentUpTo' /\ o_exported' \in Nat  BY <3>1 DEF ExportInv, O!SentUpTo
    <3> QED  BY <2>2, <2>3, <2>9, <3>1, <3>2, ExporterMoves DEF O!Attach
  <2>4. CASE O!Loop(t)
    <3>1. UNCHANGED <<o_events, o_exported, o_recorded, o_sent>>  BY <2>4 DEF O!Loop
    <3>2. O!SentUpTo' /\ o_exported' \in Nat  BY <3>1 DEF ExportInv, O!SentUpTo
    <3>3. O!At("read", o_stopped) \in Exporter /\ O!At("read", o_stopped).at # "post"
      BY <2>1, <2>2
    <3> QED  BY <2>4, <2>9, <3>1, <3>2, <3>3, ExporterMoves DEF O!Loop
  <2>5. CASE O!Wait(t)
    <3>1. UNCHANGED <<o_events, o_exported, o_recorded, o_sent>>  BY <2>5 DEF O!Wait
    <3>2. O!SentUpTo' /\ o_exported' \in Nat  BY <3>1 DEF ExportInv, O!SentUpTo
    <3>3. [o_thread[t] EXCEPT !.at = "head"] \in Exporter
          /\ [o_thread[t] EXCEPT !.at = "head"].at # "post"
      BY <2>1 DEF Exporter
    <3>4. o_thread' = [o_thread EXCEPT ![t] = [o_thread[t] EXCEPT !.at = "head"]]
      BY <2>5 DEF O!Wait
    <3> QED  BY <2>9, <3>1, <3>2, <3>3, <3>4, ExporterMoves
  <2>6. CASE O!Read(t)  BY <2>6, EventsRead
  <2>7. CASE O!Posted(t)
    <3>1. /\ UNCHANGED <<o_events, o_recorded>> /\ o_exported' = o_thread[t].upTo
          /\ o_sent' = O!Received(t) /\ o_thread[t].at = "post" /\ O!Goes(t)
      BY <2>7 DEF O!Posted
    <3>2. o_sent \subseteq o_sent' /\ \A e : Posting(t, e) => e \in o_sent'
      BY <3>1 DEF O!Received, Posting
    <3>3. o_exported' \in Nat  BY <2>1, <3>1 DEF Exporter
    <3>4. O!SentUpTo'
      BY <3>1, <3>2 DEF ExportInv, Claims, O!SentUpTo
    <3> QED  BY <2>2, <2>9, <3>1, <3>2, <3>3, <3>4, ExporterMoves DEF O!Goes
  <2>8. CASE O!Failed(t)
    <3>1. /\ UNCHANGED <<o_events, o_recorded, o_exported>>
          /\ o_sent' \in {o_sent, O!Received(t)} /\ O!Goes(t)
      BY <2>8 DEF O!Failed
    <3>2. o_sent \subseteq o_sent'  BY <3>1 DEF O!Received
    <3>3. O!SentUpTo' /\ o_exported' \in Nat
      BY <3>1, <3>2 DEF ExportInv, O!SentUpTo
    <3> QED  BY <2>2, <2>9, <3>1, <3>2, <3>3, ExporterMoves DEF O!Goes
  <2> QED  BY <1>3, <2>3, <2>4, <2>5, <2>6, <2>7, <2>8 DEF O!Export
<1> QED  BY <1>1, <1>2, <1>3 DEF O!Next

-----------------------------------------------------------------------------
(* Webhooks.  An item that a call still has to put is nowhere else, and one   *)
(* that is queued, posted or in the history is in one such place only.        *)
Calling == [event : Nat, left : SUBSET w_Hook, at : {"idle", "match", "put"}]
Sender == [at : {"off", "head", "get", "post"}, item : W!Item \cup {None},
           attempt : Nat]

DeliveryTypes ==
  /\ w_subs \subseteq w_Hook /\ w_events \in Nat /\ w_events <= w_MaxEvents
  /\ w_queue \in Seq(W!Item \cup {None}) /\ w_history \in Seq(W!Item)
  /\ w_call \in [w_Caller -> Calling] /\ w_worker \in [Thread -> Sender]
  /\ \A t \in Thread : w_worker[t].at = "post" => w_worker[t].item \in W!Item

CallsApart ==
  /\ \A c \in w_Caller : w_call[c].at # "idle" => w_call[c].event \in 1 .. w_events
  /\ \A c, d \in w_Caller :
       w_call[c].at # "idle" /\ w_call[d].at # "idle"
         /\ w_call[c].event = w_call[d].event => c = d

Waits(c, i) ==
  /\ w_call[c].event = i.event
  /\ \/ w_call[c].at = "match"
     \/ w_call[c].at = "put" /\ i.hook \in w_call[c].left

Queued(i) == \E k \in 1 .. Len(w_queue) : w_queue[k] = i
Posts(t, i) == w_worker[t].at = "post" /\ w_worker[t].item = i
Recorded(i) == \E k \in 1 .. Len(w_history) : w_history[k] = i
Out(i) == Queued(i) \/ Recorded(i) \/ \E t \in Thread : Posts(t, i)

Single(i) ==
  /\ Out(i) => i.event <= w_events /\ \A c \in w_Caller : ~Waits(c, i)
  /\ \A j, k \in 1 .. Len(w_queue) : w_queue[j] = i /\ w_queue[k] = i => j = k
  /\ \A j, k \in 1 .. Len(w_history) : w_history[j] = i /\ w_history[k] = i => j = k
  /\ \A t, u \in Thread : Posts(t, i) /\ Posts(u, i) => t = u
  /\ \A t \in Thread : Posts(t, i) => ~Queued(i) /\ ~Recorded(i)
  /\ Queued(i) => ~Recorded(i)

DeliveryInv ==
  /\ DeliveryTypes
  /\ CallsApart
  /\ \A i \in W!Item : Single(i)

LEMMA NoneIsNoItem == \A i \in W!Item : i # None
  BY AbsentAssumption

LEMMA ItemTyped == \A i \in W!Item : i.event \in Nat /\ i.hook \in w_Hook
  BY SizesAssumption DEF W!Item, W!Event

LEMMA DeliveryStart == W!Init => DeliveryInv
<1> SUFFICES ASSUME W!Init  PROVE DeliveryInv  OBVIOUS
<1>1. W!NoCall \in Calling /\ W!NoCall.at = "idle"  BY DEF W!NoCall, Calling
<1>2. W!At("off") \in Sender /\ W!At("off").at = "off"  BY DEF W!At, Sender
<1>3. /\ w_subs = {} /\ w_events = 0 /\ w_queue = <<>> /\ w_history = <<>>
      /\ w_call = [c \in w_Caller |-> W!NoCall]
      /\ w_worker = [t \in Thread |-> W!At("off")]
  BY DEF W!Init
<1>4. /\ \A c \in w_Caller : w_call[c] = W!NoCall
      /\ \A t \in Thread : w_worker[t] = W!At("off")
      /\ Len(w_queue) = 0 /\ Len(w_history) = 0
  BY <1>3
<1>5. DeliveryTypes
  <2>1. w_queue \in Seq(W!Item \cup {None}) /\ w_history \in Seq(W!Item)
    BY <1>3, EmptySeq
  <2>2. w_call \in [w_Caller -> Calling] /\ w_worker \in [Thread -> Sender]
    BY <1>1, <1>2, <1>3
  <2> QED  BY <1>2, <1>3, <1>4, <2>1, <2>2, SizesAssumption DEF DeliveryTypes
<1>6. CallsApart  BY <1>1, <1>4 DEF CallsApart
<1>7. ASSUME NEW i \in W!Item  PROVE Single(i)
  BY <1>2, <1>4 DEF Single, Out, Queued, Recorded, Posts
<1> QED  BY <1>5, <1>6, <1>7 DEF DeliveryInv

(* No item moves; a call that begins takes a number of its own.              *)
LEMMA ItemsStand ==
  ASSUME DeliveryInv, DeliveryTypes', CallsApart', w_events' >= w_events,
         UNCHANGED <<w_queue, w_history>>,
         \A t \in Thread, i \in W!Item : Posts(t, i)' <=> Posts(t, i),
         \A c \in w_Caller, i \in W!Item : Waits(c, i)' => Waits(c, i) \/ i.event > w_events
  PROVE  DeliveryInv'
<1>1. ASSUME NEW i \in W!Item  PROVE Single(i)'
  <2>1. /\ Single(i) /\ i.event \in Nat /\ w_events \in Nat /\ w_events' \in Nat
    BY ItemTyped DEF DeliveryInv, DeliveryTypes
  <2>2. /\ Queued(i)' <=> Queued(i)
        /\ Recorded(i)' <=> Recorded(i)
        /\ \A t \in Thread : Posts(t, i)' <=> Posts(t, i)
    BY DEF Queued, Recorded
  <2>3. Out(i)' <=> Out(i)  BY <2>2 DEF Out
  <2>4. Out(i)' => i.event <= w_events' /\ \A c \in w_Caller : ~Waits(c, i)'
    BY <2>1, <2>3 DEF Single
  <2> QED  BY <2>1, <2>2, <2>4 DEF Single
<1> QED  BY <1>1 DEF DeliveryInv

(* A thread that neither takes an item nor is done with one.                 *)
LEMMA SenderMoves ==
  ASSUME DeliveryInv, NEW t \in Thread, NEW new \in Sender,
         w_worker' = [w_worker EXCEPT ![t] = new],
         UNCHANGED <<w_subs, w_queue, w_call, w_history, w_events>>,
         \/ w_worker[t].at # "post" /\ new.at # "post"
         \/ w_worker[t].at = new.at /\ w_worker[t].item = new.item
  PROVE  DeliveryInv'
<1>1. w_worker \in [Thread -> Sender] /\ w_events \in Nat
  BY DEF DeliveryInv, DeliveryTypes
<1>2. w_worker' \in [Thread -> Sender] /\ w_worker'[t] = new
      /\ \A u \in Thread \ {t} : w_worker'[u] = w_worker[u]
  BY <1>1
<1>3. \A u \in Thread, i \in W!Item : Posts(u, i)' <=> Posts(u, i)
  BY <1>2 DEF Posts
<1>4. DeliveryTypes'  BY <1>2 DEF DeliveryInv, DeliveryTypes
<1>5. CallsApart'  BY DEF DeliveryInv, CallsApart
<1>6. \A c \in w_Caller, i \in W!Item : Waits(c, i)' => Waits(c, i)
  BY DEF Waits
<1>7. w_events' >= w_events  BY <1>1
<1> QED  BY <1>3, <1>4, <1>5, <1>6, <1>7, ItemsStand

(* A call begins with the next number.                                       *)
LEMMA CallBegins ==
  ASSUME DeliveryInv, NEW c \in w_Caller, NEW new \in Calling, w_call[c].at = "idle",
         w_events < w_MaxEvents, new.event = w_events + 1, w_events' = w_events + 1,
         w_call' = [w_call EXCEPT ![c] = new],
         UNCHANGED <<w_subs, w_queue, w_worker, w_history>>
  PROVE  DeliveryInv'
<1>1. w_call \in [w_Caller -> Calling] /\ w_events \in Nat
  BY DEF DeliveryInv, DeliveryTypes
<1>2. w_call' \in [w_Caller -> Calling] /\ w_call'[c] = new
      /\ \A d \in w_Caller \ {c} : w_call'[d] = w_call[d]
  BY <1>1
<1>3. DeliveryTypes'
  <2>1. w_events' \in Nat /\ w_events' <= w_MaxEvents  BY <1>1, SizesAssumption
  <2> QED  BY <1>2, <2>1 DEF DeliveryInv, DeliveryTypes
<1>4. CallsApart'
  BY <1>1, <1>2 DEF DeliveryInv, CallsApart
<1>5. \A d \in w_Caller, i \in W!Item : Waits(d, i)' => Waits(d, i) \/ i.event > w_events
  <2> SUFFICES ASSUME NEW d \in w_Caller, NEW i \in W!Item, Waits(d, i)'
               PROVE  Waits(d, i) \/ i.event > w_events
    OBVIOUS
  <2>1. CASE d = c  BY <1>1, <1>2, <2>1 DEF Waits
  <2>2. CASE d # c  BY <1>2, <2>2 DEF Waits
  <2> QED  BY <2>1, <2>2
<1>6. \A t \in Thread, i \in W!Item : Posts(t, i)' <=> Posts(t, i)  BY DEF Posts
<1>7. w_events' >= w_events  BY <1>1
<1> QED  BY <1>3, <1>4, <1>5, <1>6, <1>7, ItemsStand

(* A call keeps its number, and waits for less, or ends.                     *)
Narrows(c, new) ==
  \/ new.at = "idle"
  \/ /\ w_call[c].at # "idle" /\ new.event = w_call[c].event
     /\ \/ w_call[c].at = "match"
        \/ w_call[c].at = "put" /\ new.at = "put" /\ new.left \subseteq w_call[c].left

LEMMA CallGoesOn ==
  ASSUME DeliveryInv, NEW c \in w_Caller, NEW new \in Calling, Narrows(c, new),
         w_call' = [w_call EXCEPT ![c] = new], UNCHANGED w_events
  PROVE  /\ w_call' \in [w_Caller -> Calling]
         /\ CallsApart'
         /\ \A d \in w_Caller, i \in W!Item : Waits(d, i)' => Waits(d, i)
<1>1. w_call \in [w_Caller -> Calling]  BY DEF DeliveryInv, DeliveryTypes
<1>2. w_call' \in [w_Caller -> Calling] /\ w_call'[c] = new
      /\ \A d \in w_Caller \ {c} : w_call'[d] = w_call[d]
  BY <1>1
<1>3. CallsApart'
  BY <1>2 DEF DeliveryInv, CallsApart, Narrows
<1>4. ASSUME NEW d \in w_Caller, NEW i \in W!Item, Waits(d, i)'  PROVE Waits(d, i)
  <2>1. CASE d = c  BY <1>2, <1>4, <2>1 DEF Waits, Narrows
  <2>2. CASE d # c  BY <1>2, <1>4, <2>2 DEF Waits
  <2> QED  BY <2>1, <2>2
<1> QED  BY <1>2, <1>3, <1>4

(* Something joins the queue: the end mark, or an item that was nowhere.     *)
LEMMA QueueGrows ==
  ASSUME DeliveryInv, DeliveryTypes', CallsApart', NEW x \in W!Item \cup {None},
         w_queue' = Append(w_queue, x), UNCHANGED <<w_history, w_worker, w_events>>,
         x \in W!Item => ~Out(x) /\ x.event <= w_events
                           /\ \A c \in w_Caller : ~Waits(c, x)',
         \A c \in w_Caller, i \in W!Item : Waits(c, i)' => Waits(c, i)
  PROVE  DeliveryInv'
<1> DEFINE n == Len(w_queue) + 1
<1>1. /\ w_queue \in Seq(W!Item \cup {None}) /\ n \in Nat
      /\ Len(w_queue') = n /\ w_queue'[n] = x
      /\ \A k \in 1 .. n : k \in 1 .. Len(w_queue) \/ k = n
      /\ \A k \in 1 .. Len(w_queue) : k \in 1 .. n /\ k # n /\ w_queue'[k] = w_queue[k]
  BY AppendProperties DEF DeliveryInv, DeliveryTypes
<1> HIDE DEF n
<1>2. ASSUME NEW i \in W!Item  PROVE Single(i)'
  <2>1. Single(i)  BY DEF DeliveryInv
  <2>2. /\ Recorded(i)' <=> Recorded(i)
        /\ \A t \in Thread : Posts(t, i)' <=> Posts(t, i)
        /\ Queued(i)' <=> Queued(i) \/ i = x
    BY <1>1 DEF Queued, Recorded, Posts
  <2>3. \A j, k \in 1 .. n : w_queue'[j] = i /\ w_queue'[k] = i => j = k
    BY <1>1, <2>1 DEF Single, Out, Queued
  <2>4. \A j, k \in 1 .. Len(w_history') : w_history'[j] = i /\ w_history'[k] = i => j = k
    BY <2>1 DEF Single
  <2>5. Out(i)' => i.event <= w_events' /\ \A c \in w_Caller : ~Waits(c, i)'
    BY <2>1, <2>2 DEF Single, Out
  <2>6. CASE i = x
    <3>1. ~Recorded(i) /\ \A t \in Thread : ~Posts(t, i)  BY <2>6 DEF Out
    <3> QED  BY <1>1, <2>2, <2>3, <2>4, <2>5, <3>1 DEF Single
  <2>7. CASE i # x
    BY <1>1, <2>1, <2>2, <2>3, <2>4, <2>5, <2>7 DEF Single
  <2> QED  BY <2>6, <2>7
<1> QED  BY <1>2 DEF DeliveryInv

(* One item is put, or dropped because the queue is full.                    *)
LEMMA ItemPut ==
  ASSUME DeliveryInv, NEW c \in w_Caller, NEW h \in w_Hook, W!Put(c, h)
  PROVE  DeliveryInv'
<1> DEFINE left == w_call[c].left \ {h}
           new == IF w_call[c].left = {h} THEN W!NoCall
                  ELSE [w_call[c] EXCEPT !.left = left]
<1>1. /\ w_call[c] \in Calling /\ w_call[c].at = "put" /\ h \in w_call[c].left
      /\ w_call[c].event \in 1 .. w_events /\ w_events \in Nat
      /\ w_call \in [w_Caller -> Calling]
  BY DEF W!Put, DeliveryInv, DeliveryTypes, CallsApart
<1>2. /\ w_call' = [w_call EXCEPT ![c] = new]
      /\ UNCHANGED <<w_subs, w_worker, w_history, w_events>>
  BY DEF W!Put
<1>3. /\ new \in Calling
      /\ \/ new.at = "idle"
         \/ new.at = "put" /\ new.event = w_call[c].event /\ new.left = left
  BY <1>1 DEF Calling, W!NoCall
<1>4. /\ w_call' \in [w_Caller -> Calling]
      /\ CallsApart'
      /\ \A d \in w_Caller, i \in W!Item : Waits(d, i)' => Waits(d, i)
  <2> HIDE DEF new
  <2>1. Narrows(c, new)  BY <1>1, <1>3 DEF Narrows
  <2> QED  BY <1>2, <1>3, <2>1, CallGoesOn
<1>5. w_call'[c] = new  BY <1>1, <1>2
<1> HIDE DEF new
<1>6. \A t \in Thread, i \in W!Item : Posts(t, i)' <=> Posts(t, i)
  BY <1>2 DEF Posts
<1>7. CASE w_queue' = w_queue
  <2>1. DeliveryTypes'  BY <1>2, <1>4, <1>7 DEF DeliveryInv, DeliveryTypes
  <2> QED  BY <1>1, <1>2, <1>4, <1>6, <1>7, <2>1, ItemsStand
<1>8. CASE w_queue' # w_queue
  <2>1. [hook |-> h, event |-> w_call[c].event] \in W!Item
    <3>1. w_call[c].event \in 1 .. w_MaxEvents
      BY <1>1, SizesAssumption DEF DeliveryInv, DeliveryTypes
    <3> QED  BY <3>1 DEF W!Item, W!Event
  <2>2. w_queue' = Append(w_queue, [hook |-> h, event |-> w_call[c].event])
    BY <1>8 DEF W!Put
  <2>3. PICK item \in W!Item :
          /\ w_queue' = Append(w_queue, item)
          /\ item.hook = h /\ item.event = w_call[c].event
    BY <2>1, <2>2
  <2>4. DeliveryTypes'
    <3>1. w_queue' \in Seq(W!Item \cup {None})
      BY <2>3, AppendProperties DEF DeliveryInv, DeliveryTypes
    <3> QED  BY <1>2, <1>4, <3>1 DEF DeliveryInv, DeliveryTypes
  <2>5. Waits(c, item)  BY <1>1, <2>3 DEF Waits
  <2>6. ~Out(item)  BY <2>3, <2>5 DEF DeliveryInv, Single
  <2>7. ASSUME NEW d \in w_Caller  PROVE ~Waits(d, item)'
    <3>1. CASE d = c  BY <1>3, <1>5, <2>3, <3>1 DEF Waits
    <3>2. CASE d # c
      <4>1. ~Waits(d, item)
        BY <1>1, <2>3, <3>2 DEF DeliveryInv, CallsApart, Waits
      <4> QED  BY <1>4, <2>3, <4>1
    <3> QED  BY <3>1, <3>2
  <2>8. item.event <= w_events  BY <1>1, <2>3
  <2> QED  BY <1>2, <1>4, <2>3, <2>4, <2>6, <2>7, <2>8, QueueGrows
<1> QED  BY <1>7, <1>8

(* stop() puts the end mark.                                                 *)
LEMMA MarkPut ==
  ASSUME DeliveryInv, W!StopMarks
  PROVE  DeliveryInv'
<1>1. UNCHANGED <<w_subs, w_call, w_worker, w_history, w_events>>
  BY DEF W!StopMarks
<1>2. CallsApart' /\ w_events' >= w_events
  BY <1>1 DEF DeliveryInv, DeliveryTypes, CallsApart
<1>3. /\ \A c \in w_Caller, i \in W!Item : Waits(c, i)' => Waits(c, i)
      /\ \A t \in Thread, i \in W!Item : Posts(t, i)' <=> Posts(t, i)
  BY <1>1 DEF Waits, Posts
<1>4. CASE w_queue' = w_queue
  <2>1. DeliveryTypes'  BY <1>1, <1>4 DEF DeliveryInv, DeliveryTypes
  <2> QED  BY <1>1, <1>2, <1>3, <1>4, <2>1, ItemsStand
<1>5. CASE w_queue' # w_queue
  <2>1. w_queue' = Append(w_queue, None)  BY <1>5 DEF W!StopMarks
  <2>2. w_queue' \in Seq(W!Item \cup {None})
    BY <2>1, AppendProperties DEF DeliveryInv, DeliveryTypes
  <2>3. DeliveryTypes'  BY <1>1, <2>2 DEF DeliveryInv, DeliveryTypes
  <2> QED  BY <1>1, <1>2, <1>3, <2>1, <2>3, NoneIsNoItem, QueueGrows
<1> QED  BY <1>4, <1>5

(* A thread takes the first of the queue, and posts it.                      *)
LEMMA ItemTaken ==
  ASSUME DeliveryInv, NEW t \in Thread, W!Get(t)
  PROVE  DeliveryInv'
<1> DEFINE new == IF w_queue[1] = None THEN W!At("off")
                  ELSE [at |-> "post", item |-> w_queue[1], attempt |-> 1]
           rest == Len(w_queue) - 1
<1>1. /\ w_queue \in Seq(W!Item \cup {None}) /\ w_queue # <<>>
      /\ w_worker \in [Thread -> Sender] /\ w_worker[t].at = "get"
      /\ w_queue' = Tail(w_queue) /\ Head(w_queue) = w_queue[1]
      /\ UNCHANGED <<w_subs, w_call, w_history, w_events>>
  BY DEF W!Get, DeliveryInv, DeliveryTypes
<1>2. /\ Len(w_queue) \in Nat /\ Len(w_queue) >= 1 /\ rest \in Nat
      /\ w_queue[1] \in W!Item \cup {None}
      /\ w_queue' \in Seq(W!Item \cup {None}) /\ Len(w_queue') = rest
      /\ \A k \in 1 .. rest : k + 1 \in 2 .. Len(w_queue) /\ w_queue'[k] = w_queue[k + 1]
  BY <1>1, HeadTailProperties
<1>3. w_worker' = [w_worker EXCEPT ![t] = new]
  BY <1>1 DEF W!Get
<1>4. /\ new \in Sender
      /\ new.at = "post" => new.item = w_queue[1] /\ new.item \in W!Item
  BY <1>2 DEF Sender, W!At
<1> HIDE DEF new, rest
<1>5. w_worker' \in [Thread -> Sender] /\ w_worker'[t] = new
      /\ \A u \in Thread \ {t} : w_worker'[u] = w_worker[u]
  BY <1>1, <1>3, <1>4
<1>6. DeliveryTypes'
  BY <1>1, <1>2, <1>4, <1>5 DEF DeliveryInv, DeliveryTypes
<1>7. CallsApart'  BY <1>1 DEF DeliveryInv, CallsApart
<1>8. ASSUME NEW i \in W!Item  PROVE Single(i)'
  <2>1. Single(i)  BY DEF DeliveryInv
  <2>2. /\ Recorded(i)' <=> Recorded(i)
        /\ \A u \in Thread \ {t} : Posts(u, i)' <=> Posts(u, i)
        /\ ~Posts(t, i)
        /\ Posts(t, i)' => w_queue[1] = i
        /\ \A c \in w_Caller : Waits(c, i)' <=> Waits(c, i)
    BY <1>1, <1>4, <1>5 DEF Recorded, Posts, Waits
  <2>3. Queued(i)' => Queued(i) /\ w_queue[1] # i
    <3>1. ASSUME NEW k \in 1 .. rest, w_queue'[k] = i
          PROVE  Queued(i) /\ w_queue[1] # i
      <4>1. k + 1 \in 1 .. Len(w_queue) /\ 1 \in 1 .. Len(w_queue) /\ k + 1 # 1
            /\ w_queue[k + 1] = i
        BY <1>2, <3>1
      <4> QED  BY <2>1, <4>1 DEF Single, Queued
    <3> QED  BY <1>2, <3>1 DEF Queued
  <2>4. w_queue[1] = i => Queued(i)  BY <1>2 DEF Queued
  <2>5. \A j, k \in 1 .. rest : w_queue'[j] = i /\ w_queue'[k] = i => j = k
    <3> SUFFICES ASSUME NEW j \in 1 .. rest, NEW k \in 1 .. rest,
                        w_queue'[j] = i, w_queue'[k] = i
                 PROVE  j = k
      OBVIOUS
    <3>1. /\ j + 1 \in 1 .. Len(w_queue) /\ k + 1 \in 1 .. Len(w_queue)
          /\ w_queue[j + 1] = i /\ w_queue[k + 1] = i
      BY <1>2
    <3>2. j + 1 = k + 1  BY <2>1, <3>1 DEF Single
    <3> QED  BY <1>2, <3>2
  <2>6. \A j, k \in 1 .. Len(w_history') : w_history'[j] = i /\ w_history'[k] = i => j = k
    BY <1>1, <2>1 DEF Single
  <2>7. Out(i)' => Out(i)  BY <2>2, <2>3, <2>4 DEF Out
  <2>8. Out(i)' => i.event <= w_events' /\ \A c \in w_Caller : ~Waits(c, i)'
    BY <1>1, <2>1, <2>2, <2>7 DEF Single
  <2>9. \A u, v \in Thread : Posts(u, i)' /\ Posts(v, i)' => u = v
    BY <2>1, <2>2, <2>4 DEF Single
  <2>10. \A u \in Thread : Posts(u, i)' => ~Queued(i)' /\ ~Recorded(i)'
    BY <2>1, <2>2, <2>3, <2>4 DEF Single
  <2>11. Queued(i)' => ~Recorded(i)'  BY <2>1, <2>2, <2>3 DEF Single
  <2> QED  BY <1>2, <2>5, <2>6, <2>8, <2>9, <2>10, <2>11 DEF Single
<1> QED  BY <1>6, <1>7, <1>8 DEF DeliveryInv

(* A post has ended, and the history says so.                                *)
LEMMA ItemDelivered ==
  ASSUME DeliveryInv, NEW t \in Thread, W!Deliver(t)
  PROVE  DeliveryInv'
<1> DEFINE x == w_worker[t].item
           n == Len(w_history) + 1
           new == W!At("head")
<1>1. /\ w_worker[t].at = "post" /\ x \in W!Item /\ w_worker \in [Thread -> Sender]
      /\ w_history' = Append(w_history, x)
      /\ w_worker' = [w_worker EXCEPT ![t] = new]
      /\ UNCHANGED <<w_subs, w_queue, w_call, w_events>>
  BY DEF W!Deliver, DeliveryInv, DeliveryTypes
<1>2. new \in Sender /\ new.at # "post"  BY DEF Sender, W!At
<1>3. Posts(t, x)  BY <1>1 DEF Posts
<1> HIDE DEF x, new
<1>4. /\ w_history' \in Seq(W!Item) /\ n \in Nat
      /\ Len(w_history') = n /\ w_history'[n] = x
      /\ \A k \in 1 .. n : k \in 1 .. Len(w_history) \/ k = n
      /\ \A k \in 1 .. Len(w_history) : k \in 1 .. n /\ k # n /\ w_history'[k] = w_history[k]
  BY <1>1, AppendProperties DEF DeliveryInv, DeliveryTypes
<1> HIDE DEF n
<1>5. w_worker' \in [Thread -> Sender] /\ w_worker'[t] = new
      /\ \A u \in Thread \ {t} : w_worker'[u] = w_worker[u]
  BY <1>1, <1>2
<1>6. DeliveryTypes'
  BY <1>1, <1>2, <1>4, <1>5 DEF DeliveryInv, DeliveryTypes
<1>7. CallsApart'  BY <1>1 DEF DeliveryInv, CallsApart
<1>8. ASSUME NEW i \in W!Item  PROVE Single(i)'
  <2>1. Single(i)  BY DEF DeliveryInv
  <2>2. /\ Queued(i)' <=> Queued(i)
        /\ Recorded(i)' <=> Recorded(i) \/ i = x
        /\ \A u \in Thread : Posts(u, i)' => Posts(u, i) /\ u # t
        /\ \A c \in w_Caller : Waits(c, i)' <=> Waits(c, i)
    BY <1>1, <1>2, <1>4, <1>5 DEF Queued, Recorded, Posts, Waits
  <2>3. \A j, k \in 1 .. n : w_history'[j] = i /\ w_history'[k] = i => j = k
    BY <1>3, <1>4, <2>1 DEF Single, Recorded
  <2>4. i = x => Posts(t, i)  BY <1>3
  <2>5. Out(i)' => Out(i)  BY <2>2, <2>4 DEF Out
  <2>6. Out(i)' => i.event <= w_events' /\ \A c \in w_Caller : ~Waits(c, i)'
    BY <1>1, <2>1, <2>2, <2>5 DEF Single
  <2>7. \A u \in Thread : Posts(u, i)' => ~Queued(i)' /\ ~Recorded(i)'
    BY <2>1, <2>2, <2>4 DEF Single
  <2>8. Queued(i)' => ~Recorded(i)'  BY <2>1, <2>2, <2>4 DEF Single
  <2> QED  BY <1>1, <1>4, <2>1, <2>2, <2>3, <2>6, <2>7, <2>8 DEF Single
<1> QED  BY <1>6, <1>7, <1>8 DEF DeliveryInv

LEMMA DeliveryInductive ==
  ASSUME DeliveryInv, [W!Next]_wvars
  PROVE  DeliveryInv'
<1>1. ASSUME UNCHANGED <<w_queue, w_call, w_worker, w_history, w_events>>,
             w_subs' \subseteq w_Hook
      PROVE  DeliveryInv'
  <2>1. DeliveryTypes' /\ CallsApart' /\ w_events' >= w_events
    BY <1>1 DEF DeliveryInv, DeliveryTypes, CallsApart
  <2>2. /\ \A c \in w_Caller, i \in W!Item : Waits(c, i)' => Waits(c, i)
        /\ \A t \in Thread, i \in W!Item : Posts(t, i)' <=> Posts(t, i)
    BY <1>1 DEF Waits, Posts
  <2> QED  BY <1>1, <2>1, <2>2, ItemsStand
<1>2. w_subs \subseteq w_Hook  BY DEF DeliveryInv, DeliveryTypes
<1>3. CASE W!Stop \/ W!StopJoined \/ UNCHANGED wvars
  BY <1>1, <1>2, <1>3 DEF W!Stop, W!StopJoined, wvars
<1>4. ASSUME NEW h \in w_Hook, W!Register(h) \/ W!Unregister(h)  PROVE DeliveryInv'
  BY <1>1, <1>2, <1>4 DEF W!Register, W!Unregister
<1>5. ASSUME NEW c \in w_Caller, W!Dispatch(c) \/ W!Ping(c)  PROVE DeliveryInv'
  <2>1. PICK hooks \in SUBSET w_Hook, at \in {"match", "put"} :
          w_call' = [w_call EXCEPT ![c] = [event |-> w_events', left |-> hooks, at |-> at]]
    BY <1>2, <1>5 DEF W!Dispatch, W!Ping
  <2>2. /\ w_events' = w_events + 1 /\ w_call[c].at = "idle"
        /\ w_events \in Nat /\ w_events < w_MaxEvents
        /\ UNCHANGED <<w_subs, w_queue, w_worker, w_history>>
    BY <1>5 DEF W!Dispatch, W!Ping, DeliveryInv, DeliveryTypes
  <2>3. [event |-> w_events', left |-> hooks, at |-> at] \in Calling
    BY <2>2 DEF Calling
  <2> QED  BY <2>1, <2>2, <2>3, CallBegins
<1>6. ASSUME NEW c \in w_Caller, W!Match(c)  PROVE DeliveryInv'
  <2>1. PICK hooks \in SUBSET w_subs :
          w_call' = [w_call EXCEPT ![c] =
            IF hooks = {} THEN W!NoCall
            ELSE [w_call[c] EXCEPT !.left = hooks, !.at = "put"]]
    BY <1>6 DEF W!Match
  <2> DEFINE new == IF hooks = {} THEN W!NoCall
                    ELSE [w_call[c] EXCEPT !.left = hooks, !.at = "put"]
  <2>2. /\ w_call[c] \in Calling /\ w_call[c].at = "match"
        /\ UNCHANGED <<w_subs, w_queue, w_worker, w_history, w_events>>
    BY <1>6 DEF W!Match, DeliveryInv, DeliveryTypes
  <2>3. new \in Calling /\ Narrows(c, new)
    BY <1>2, <2>2 DEF Calling, W!NoCall, Narrows
  <2> HIDE DEF new
  <2>4. /\ w_call' \in [w_Caller -> Calling] /\ CallsApart'
        /\ \A d \in w_Caller, i \in W!Item : Waits(d, i)' => Waits(d, i)
    BY <2>1, <2>2, <2>3, CallGoesOn DEF new
  <2>5. DeliveryTypes' /\ w_events' >= w_events
    BY <2>2, <2>4 DEF DeliveryInv, DeliveryTypes
  <2>6. \A t \in Thread, i \in W!Item : Posts(t, i)' <=> Posts(t, i)
    BY <2>2 DEF Posts
  <2> QED  BY <2>2, <2>4, <2>5, <2>6, ItemsStand
<1>7. ASSUME NEW t \in Thread, W!Start(t) \/ W!Head_(t) \/ W!Empty(t)  PROVE DeliveryInv'
  <2>1. PICK at \in {"off", "head", "get"} :
          w_worker' = [w_worker EXCEPT ![t] = W!At(at)]
    BY <1>7 DEF W!Start, W!Head_, W!Empty
  <2>2. W!At(at) \in Sender /\ W!At(at).at # "post"  BY DEF W!At, Sender
  <2>3. /\ w_worker[t].at # "post"
        /\ UNCHANGED <<w_subs, w_queue, w_call, w_history, w_events>>
    BY <1>7 DEF W!Start, W!Head_, W!Empty
  <2> QED  BY <2>1, <2>2, <2>3, SenderMoves
<1>8. ASSUME NEW t \in Thread, W!Retry(t)  PROVE DeliveryInv'
  <2> DEFINE new == [w_worker[t] EXCEPT !.attempt = w_worker[t].attempt + 1]
  <2>1. /\ w_worker' = [w_worker EXCEPT ![t] = new]
        /\ UNCHANGED <<w_subs, w_queue, w_call, w_history, w_events>>
    BY <1>8 DEF W!Retry
  <2>2. w_worker[t] \in Sender  BY DEF DeliveryInv, DeliveryTypes
  <2>3. new \in Sender /\ new.at = w_worker[t].at /\ new.item = w_worker[t].item
    BY <2>2 DEF Sender
  <2> HIDE DEF new
  <2> QED  BY <2>1, <2>3, SenderMoves
<1>9. ASSUME NEW t \in Thread, W!Start(t) \/ W!Work(t)  PROVE DeliveryInv'
  BY <1>7, <1>8, <1>9, ItemTaken, ItemDelivered DEF W!Work
<1>10. ASSUME NEW c \in w_Caller, \E h \in w_Hook : W!Put(c, h)  PROVE DeliveryInv'
  BY <1>10, ItemPut
<1> QED  BY <1>3, <1>4, <1>5, <1>6, <1>9, <1>10, MarkPut DEF W!Next

LEMMA DeliveredOnceIs == DeliveryInv => W!DeliveredOnce
<1> SUFFICES ASSUME DeliveryInv, NEW j \in DOMAIN w_history, NEW k \in DOMAIN w_history,
                    w_history[j] = w_history[k]
             PROVE  j = k
  BY DEF W!DeliveredOnce
<1>1. /\ j \in 1 .. Len(w_history) /\ k \in 1 .. Len(w_history)
      /\ w_history[j] \in W!Item
  BY DEF DeliveryInv, DeliveryTypes
<1> QED  BY <1>1 DEF DeliveryInv, Single

-----------------------------------------------------------------------------
(* The daemons together: each moves as by itself, or stands still.           *)

LEMMA DaemonsApart ==
  ASSUME [SumNext]_all
  PROVE  /\ [B!Next]_bvars /\ [T!Next]_tvars /\ [S!Next]_svars
         /\ [D!Next]_dvars /\ [W!Next]_wvars /\ [O!Next]_ovars
         /\ UNCHANGED active
<1>1. CASE UNCHANGED all  BY <1>1 DEF all
<1>2. CASE BreakerStep  BY <1>2 DEF BreakerStep, Only
<1>3. CASE ThresholdStep  BY <1>3 DEF ThresholdStep, Only
<1>4. CASE ScalerStep  BY <1>4 DEF ScalerStep, Only
<1>5. CASE PodStep  BY <1>5 DEF PodStep, Only
<1>6. CASE WebhookStep  BY <1>6 DEF WebhookStep, Only
<1>7. CASE EventStep  BY <1>7 DEF EventStep, Only
<1>8. CASE FeedbackStep \/ AlertStep \/ GroupStep \/ GossipStep
  BY <1>8 DEF FeedbackStep, AlertStep, GroupStep, GossipStep, Only
<1> QED  BY <1>1, <1>2, <1>3, <1>4, <1>5, <1>6, <1>7, <1>8 DEF SumNext

BooksInv ==
  /\ BreakerInv /\ ThresholdInv /\ AdviceInv /\ PodInv /\ DeliveryInv /\ ExportInv

LEMMA BooksRightIs == BooksInv => BooksRight
<1> SUFFICES ASSUME BooksInv  PROVE BooksRight  OBVIOUS
<1>1. BreakerInv => B!NoFalseAlarm  BY DEF BreakerInv
<1>2. ExportInv => O!SentUpTo  BY DEF ExportInv
<1>3. PodInv => D!PodsAccounted  BY AccountedIs DEF PodInv
<1> QED  BY <1>1, <1>2, <1>3, GapKept, AdviceIsBounded, DeliveredOnceIs
         DEF BooksInv, BooksRight

(* The books of the six daemons are right at every moment, whatever their     *)
(* constants and however many threads of earlier lives still run: the lock    *)
(* that evaluation lets go of, the position an export sets late, the queue    *)
(* that two workers drain, the removal that is refused.                      *)
THEOREM BooksAreRight == SumSpec => []BooksRight
<1>1. SumInit => BooksInv
  BY BreakerStart, StartsWithin, AdviceStart, PodStart, DeliveryStart, ExportStart
     DEF SumInit, BooksInv
<1>2. BooksInv /\ [SumNext]_all => BooksInv'
  BY DaemonsApart, BreakerInductive, StepsWithin, AdviceInductive, PodInductive,
     DeliveryInductive, ExportInductive DEF BooksInv
<1> QED  BY <1>1, <1>2, BooksRightIs, PTL DEF SumSpec
=============================================================================
