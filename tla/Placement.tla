------------------------------ MODULE Placement ------------------------------
(***************************************************************************)
(* ClusterScheduler.pick (cluster_scheduler.py) with the rate limiter      *)
(* (cluster_rate_limiter.py) and the canary deployment                     *)
(* (cluster_canary_deployment.py) it consults.                             *)
(*                                                                         *)
(* A pick asks the registry, the breakers, the buckets and the deployment  *)
(* one after the other, each behind a lock of its own, and only then takes *)
(* the scheduler's lock.  Every question is a step here, and the statuses, *)
(* breakers (CircuitBreaker), buckets and deployment change in between.    *)
(*                                                                         *)
(* Fitness and heat only rank the nodes of a pool: any of them may win.    *)
(***************************************************************************)
EXTENDS Integers, FiniteSets

CONSTANTS
  Node, None,
  Client,       \* threads that call pick
  Key,          \* affinity keys
  Region,       \* the nodes of the region that a pick may prefer
  Capacity,     \* of a bucket, in picks
  Full,         \* the canary weight that means every pick
  Steps,        \* weight_steps
  Tagged,       \* nodes with the canary tag in their metadata
  Announced,    \* nodes that operators announce as canaries
  Moving,       \* nodes whose status changes
  Breaking,     \* nodes whose breaker opens and closes
  PreferAlive   \* prefer_alive

ASSUME ClientAssumption == IsFiniteSet(Client) /\ Client # {}
ASSUME CapacityAssumption == Capacity \in Nat \ {0}
ASSUME WeightAssumption ==
  Full \in Nat \ {0} /\ Steps \subseteq 0 .. Full /\ Steps # {}

VARIABLES
  status,     \* in the registry; "dead" for leaving and absent nodes as well
  open,       \* nodes whose breaker is open or half-open
  tokens,     \* whole tokens in the bucket of a node
  phase, weight, announced,   \* of the canary deployment
  bound,      \* _affinity_map
  pick,       \* the picks under way
  excess,     \* history: placements since the last refill without a token
  steady      \* history: nodes that have been eligible since a pick began

canary == <<phase, weight, announced>>
vars == <<status, open, tokens, phase, weight, announced, bound, pick, excess,
          steady>>

Idle == [at |-> "idle", pool |-> {}, alive |-> {}, narrow |-> FALSE]

Init ==
  /\ status = [n \in Node |-> "alive"] /\ open = {}
  /\ tokens = [n \in Node |-> Capacity]
  /\ phase = "idle" /\ weight = 0 /\ announced = {}
  /\ bound = [k \in Key |-> None]
  /\ pick = [c \in Client |-> Idle]
  /\ excess = [n \in Node |-> 0]
  /\ steady = [c \in Client |-> Node]

-----------------------------------------------------------------------------
(* What changes around a pick: the registry and the breakers.               *)

StatusChanges(n) ==
  /\ n \in Moving
  /\ \E s \in {"alive", "quarantined", "dead"} : status' = [status EXCEPT ![n] = s]
  /\ UNCHANGED <<open, tokens, canary, bound, pick, excess>>

BreakerChanges(n) ==
  /\ n \in Breaking
  /\ open' = IF n \in open THEN open \ {n} ELSE open \cup {n}
  /\ UNCHANGED <<status, tokens, canary, bound, pick, excess>>

(* The bucket: _refill adds what time has earned, fill() makes it full.      *)
Refill(n) ==
  /\ tokens[n] < Capacity
  /\ \E t \in {tokens[n] + 1, Capacity} : tokens' = [tokens EXCEPT ![n] = t]
  /\ excess' = [excess EXCEPT ![n] = 0]
  /\ UNCHANGED <<status, open, canary, bound, pick>>

IsRateLimited(n) == tokens[n] < 1

-----------------------------------------------------------------------------
(* The deployment, under its lock.                                           *)

StartCanary ==
  /\ phase # "active"
  /\ phase' = "active"
  /\ weight' \in 0 .. Full
  /\ UNCHANGED <<status, open, tokens, announced, bound, pick, excess>>

Advance ==
  /\ phase = "active"
  /\ \E s \in Steps :
       /\ s > weight /\ \A t \in Steps : t > weight => s <= t
       /\ weight' = s
  /\ UNCHANGED <<status, open, tokens, phase, announced, bound, pick, excess>>

SetWeight ==
  /\ phase = "active"
  /\ weight' \in 0 .. Full
  /\ UNCHANGED <<status, open, tokens, phase, announced, bound, pick, excess>>

Promote ==
  /\ phase = "active"
  /\ phase' = "promoted" /\ weight' = Full
  /\ UNCHANGED <<status, open, tokens, announced, bound, pick, excess>>

Abort ==
  /\ phase = "active"
  /\ phase' = "aborted" /\ weight' = 0
  /\ UNCHANGED <<status, open, tokens, announced, bound, pick, excess>>

Announce(n) ==
  /\ n \in Announced
  /\ announced' = IF n \in announced THEN announced \ {n} ELSE announced \cup {n}
  /\ UNCHANGED <<status, open, tokens, phase, weight, bound, pick, excess>>

IsCanary(n) == n \in Tagged \/ n \in announced

PickPools_NoFallback(pool) ==
  LET new == {n \in pool : IsCanary(n)}
      old == pool \ new
  IN IF phase \notin {"active", "promoted"}
       THEN {pool}
       ELSE {p \in {new, old} : (p = new => weight > 0) /\ (p = old => weight < Full)}

(* pick_pool: the coin is thrown only when both pools have a node.           *)
PickPools(pool) ==
  LET new == {n \in pool : IsCanary(n)}
      old == pool \ new
  IN IF phase \notin {"active", "promoted"} \/ new = {} \/ old = {}
       THEN {pool}
       ELSE {p \in {new, old} : (p = new => weight > 0) /\ (p = old => weight < Full)}

-----------------------------------------------------------------------------
(* pick: `at` names the next thing it looks at.  A pick whose pool is empty  *)
(* returns None.                                                             *)

Goes(c, at, pool, narrow) ==
  pick' = [pick EXCEPT ![c] =
            IF pool = {} THEN Idle
            ELSE [@ EXCEPT !.at = at, !.pool = pool, !.narrow = narrow]]

Environment == <<status, open, tokens, canary, bound, excess>>

Ask(c) ==
  LET eligible == {n \in Node : status[n] # "dead"} IN
  /\ pick[c].at = "idle" /\ eligible # {}
  /\ pick' = [pick EXCEPT ![c] =
       [at |-> "breaker", pool |-> eligible, narrow |-> FALSE,
        alive |-> {n \in eligible : status[n] = "alive"}]]
  /\ UNCHANGED Environment

AskBreakers(c) ==
  /\ pick[c].at = "breaker"
  /\ Goes(c, "limiter", pick[c].pool \ open, FALSE)
  /\ UNCHANGED Environment

AskLimiter_Skips(c) ==
  /\ pick[c].at = "limiter"
  /\ Goes(c, "canary", pick[c].pool, FALSE)
  /\ UNCHANGED Environment

AskLimiter(c) ==
  /\ pick[c].at = "limiter"
  /\ Goes(c, "canary", {n \in pick[c].pool : ~IsRateLimited(n)}, FALSE)
  /\ UNCHANGED Environment

(* The deployment, and the preferred region if somebody of it is left.       *)
AskCanary(c) ==
  /\ pick[c].at = "canary"
  /\ \E pool \in PickPools(pick[c].pool), near \in {Node, Region} :
       LET left == IF pool \cap near # {} THEN pool \cap near ELSE pool
       IN Goes(c, "choose", left, left # pick[c].pool)
  /\ UNCHANGED Environment

(* The rest is one critical section.  First the sticky binding: a hit takes  *)
(* no token.                                                                 *)
Hit_Alive(c, k) == k # None /\ bound[k] \in pick[c].pool \cap pick[c].alive

Hit(c, k) == k # None /\ bound[k] \in pick[c].pool

(* _select: quarantined nodes only when nobody alive is in the pool.         *)
Candidates(c) ==
  LET alive == pick[c].pool \cap pick[c].alive
  IN IF PreferAlive /\ alive # {} THEN alive ELSE pick[c].pool

(* The result of consume() is not looked at: a bucket that others have       *)
(* emptied since it was asked does not stop the placement.                   *)
Place(n, k) ==
  /\ tokens' = [tokens EXCEPT ![n] = IF @ >= 1 THEN @ - 1 ELSE @]
  /\ excess' = [excess EXCEPT ![n] = IF tokens[n] >= 1 THEN @ ELSE @ + 1]
  /\ bound' = IF k = None THEN bound ELSE [bound EXCEPT ![k] = n]

Choose(c) ==
  /\ pick[c].at = "choose"
  /\ \E k \in Key \cup {None} :
       \/ Hit(c, k) /\ UNCHANGED <<tokens, excess, bound>>
       \/ ~Hit(c, k) /\ \E n \in Candidates(c) : Place(n, k)
  /\ pick' = [pick EXCEPT ![c] = Idle]
  /\ UNCHANGED <<status, open, canary>>

Picks(c) ==
  Ask(c) \/ AskBreakers(c) \/ AskLimiter(c) \/ AskCanary(c) \/ Choose(c)

(* A node that every question of a pick would let pass, whenever asked.      *)
Eligible(n) == status[n] # "dead" /\ n \notin open /\ ~IsRateLimited(n)

Observe ==
  steady' = [c \in Client |->
    IF pick'[c].at = "idle" THEN Node
    ELSE steady[c] \cap {n \in Node : Eligible(n)} \cap {n \in Node : Eligible(n)'}]

Next ==
  /\ \/ \E n \in Node : StatusChanges(n) \/ BreakerChanges(n) \/ Refill(n) \/ Announce(n)
     \/ StartCanary \/ Advance \/ SetWeight \/ Promote \/ Abort
     \/ \E c \in Client : Picks(c)
  /\ Observe

Spec == Init /\ [][Next]_vars

-----------------------------------------------------------------------------
TypeOK ==
  /\ status \in [Node -> {"alive", "quarantined", "dead"}]
  /\ open \subseteq Node /\ tokens \in [Node -> 0 .. Capacity]
  /\ phase \in {"idle", "active", "promoted", "aborted"} /\ weight \in 0 .. Full
  /\ announced \subseteq Node
  /\ bound \in [Key -> Node \cup {None}]
  /\ pick \in [Client ->
       [at : {"idle", "breaker", "limiter", "canary", "choose"},
        pool : SUBSET Node, alive : SUBSET Node, narrow : BOOLEAN]]
  /\ excess \in [Node -> Nat] /\ steady \in [Client -> SUBSET Node]

(* A bucket is asked before it is drained, by threads that do not know of    *)
(* one another.  What they take too much stays below their number: once a    *)
(* bucket is empty, only picks that had already asked it are placed, and one *)
(* of them took the last token.                                              *)
OverdraftBounded == \A n \in Node : excess[n] < Cardinality(Client)

(* The filters run at different moments.  Still, if some node has been alive *)
(* or quarantined, closed and with a token during the whole pick, the pick   *)
(* finds a node.                                                             *)
PickFindsSteady ==
  [][\A c \in Client :
       pick[c].at # "idle" /\ pick'[c].at = "idle" /\ ~(pick[c].at = "choose")
         => steady[c] \cap {n \in Node : Eligible(n)} = {}]_vars

(* A session leaves its node only if the node was not eligible at some       *)
(* moment of the pick, or the deployment or the preferred region decided.    *)
SessionStays ==
  [][\A k \in Key :
       bound[k] # None /\ bound'[k] # bound[k] =>
         \E c \in Client :
           /\ pick[c].at = "choose" /\ pick'[c].at = "idle"
           /\ bound[k] \notin steady[c] \/ pick[c].narrow]_vars
=============================================================================
