--------------------------- MODULE PlacementProofs ---------------------------
(***************************************************************************)
(* Placement, for all nodes, finitely many picking threads, and buckets of *)
(* any capacity: how far a bucket can be overdrawn, that a pick finds a     *)
(* node that was eligible throughout, and what a session is moved for.     *)
(***************************************************************************)
EXTENDS Placement, FiniteSetTheorems, TLAPS

(* Picks that the limiter has let pass, and that may still choose n.         *)
Asked(n) == {c \in Client : pick[c].at \in {"canary", "choose"} /\ n \in pick[c].pool}

(* An empty bucket has been overdrawn by fewer than there are threads, even  *)
(* if all that have asked it are placed.                                     *)
Bounded(n) ==
  IF tokens[n] >= 1 THEN excess[n] = 0
  ELSE excess[n] + Cardinality(Asked(n)) < Cardinality(Client)

Budget == \A n \in Node : Bounded(n)

(* What a pick knows: the nodes that have been eligible since it began are   *)
(* still in its pool, but for the deployment and the preferred region.       *)
Informed(c) ==
  pick[c].at # "idle" =>
    /\ pick[c].pool # {}
    /\ steady[c] \subseteq {n \in Node : Eligible(n)}
    /\ ~pick[c].narrow => steady[c] \subseteq pick[c].pool
    /\ pick[c].at # "choose" => ~pick[c].narrow

Knowledge == \A c \in Client : Informed(c)

IInv == TypeOK /\ Budget /\ Knowledge

Pick == [at : {"idle", "breaker", "limiter", "canary", "choose"},
         pool : SUBSET Node, alive : SUBSET Node, narrow : BOOLEAN]

LEMMA ClientsCounted ==
  /\ Cardinality(Client) \in Nat /\ Cardinality(Client) > 0
  /\ \A n : Asked(n) \subseteq Client /\ Cardinality(Asked(n)) \in Nat
<1>1. Cardinality(Client) \in Nat /\ Cardinality(Client) > 0
  BY ClientAssumption, FS_CardinalityType, FS_EmptySet
<1>2. ASSUME NEW n  PROVE Asked(n) \subseteq Client /\ Cardinality(Asked(n)) \in Nat
  <2>1. Asked(n) \subseteq Client  BY DEF Asked
  <2>2. IsFiniteSet(Asked(n))  BY <2>1, ClientAssumption, FS_Subset
  <2> QED  BY <2>1, <2>2, FS_CardinalityType
<1> QED  BY <1>1, <1>2

-----------------------------------------------------------------------------
(* The pools of the deployment: parts of the pool, and never empty.          *)
LEMMA PoolsFound ==
  ASSUME NEW pool, pool # {}, WeightAssumption, weight \in 0 .. Full,
         NEW p \in PickPools(pool)
  PROVE  p \subseteq pool /\ p # {}
  BY DEF PickPools

(* One pick goes on, in a step that is one of its own.                       *)
LEMMA PickMoves ==
  ASSUME TypeOK, NEW c \in Client, NEW a \in {"breaker", "limiter", "canary", "choose"},
         NEW pool \in SUBSET Node, NEW narrow \in BOOLEAN, Goes(c, a, pool, narrow)
  PROVE  /\ pick' \in [Client -> Pick]
         /\ \A d \in Client : d # c => pick'[d] = pick[d]
         /\ pool = {} => pick'[c] = Idle
         /\ pool # {} => /\ pick'[c].at = a /\ pick'[c].pool = pool
                         /\ pick'[c].narrow = narrow
<1> DEFINE next == IF pool = {} THEN Idle
                   ELSE [pick[c] EXCEPT !.at = a, !.pool = pool, !.narrow = narrow]
<1>1. pick \in [Client -> Pick]  BY DEF TypeOK, Pick
<1>2. pick' = [pick EXCEPT ![c] = next]  BY DEF Goes
<1>3. pick[c] \in Pick  BY <1>1
<1>4. next \in Pick /\ (pool # {} => next.at = a /\ next.pool = pool /\ next.narrow = narrow)
  BY <1>3 DEF Pick, Idle
<1> HIDE DEF next
<1>5. pick' \in [Client -> Pick] /\ pick'[c] = next
  BY <1>1, <1>2, <1>4
<1>6. pool = {} => next = Idle  BY DEF next
<1> QED  BY <1>1, <1>2, <1>4, <1>5, <1>6

(* Where the steps of a pick lead: who has not asked the limiter before has  *)
(* not afterwards, and pools only shrink.                                    *)
LEMMA StepsOfPick ==
  ASSUME TypeOK, Knowledge, NEW c \in Client,
         Ask(c) \/ AskBreakers(c) \/ AskLimiter(c) \/ AskCanary(c)
  PROVE  /\ pick' \in [Client -> Pick]
         /\ \A d \in Client : d # c => pick'[d] = pick[d]
         /\ \A n \in Node : Asked(n)' \subseteq Asked(n) \/ tokens[n] >= 1
<1>1. pick \in [Client -> Pick]  BY DEF TypeOK, Pick
<1>2. CASE Ask(c)
  <2>1. /\ pick' \in [Client -> Pick] /\ pick'[c].at = "breaker"
        /\ \A d \in Client : d # c => pick'[d] = pick[d]
    BY <1>1, <1>2 DEF Ask, Pick
  <2> QED  BY <2>1 DEF Asked
<1>3. CASE AskBreakers(c)
  <2> DEFINE left == pick[c].pool \ open
  <2>1. left \in SUBSET Node /\ Goes(c, "limiter", left, FALSE)
    BY <1>1, <1>3 DEF Pick, AskBreakers
  <2> HIDE DEF left
  <2>2. /\ pick' \in [Client -> Pick]
        /\ \A d \in Client : d # c => pick'[d] = pick[d]
        /\ left = {} => pick'[c] = Idle
        /\ left # {} => pick'[c].at = "limiter"
    BY <2>1, PickMoves
  <2>3. Idle.at = "idle"  BY DEF Idle
  <2> QED  BY <2>2, <2>3 DEF Asked
<1>4. CASE AskLimiter(c)
  <2> DEFINE left == {n \in pick[c].pool : ~IsRateLimited(n)}
  <2>1. left \in SUBSET Node /\ Goes(c, "canary", left, FALSE)
    BY <1>1, <1>4 DEF Pick, AskLimiter
  <2>2. \A n \in Node : n \in left => tokens[n] >= 1
    BY DEF IsRateLimited, TypeOK
  <2> HIDE DEF left
  <2>3. /\ pick' \in [Client -> Pick]
        /\ \A d \in Client : d # c => pick'[d] = pick[d]
        /\ left = {} => pick'[c] = Idle
        /\ left # {} => pick'[c].pool = left
    BY <2>1, PickMoves
  <2>4. Idle.at = "idle"  BY DEF Idle
  <2> QED  BY <2>2, <2>3, <2>4 DEF Asked
<1>5. CASE AskCanary(c)
  <2>1. PICK pool \in PickPools(pick[c].pool), near \in {Node, Region} :
          LET left == IF pool \cap near # {} THEN pool \cap near ELSE pool
          IN Goes(c, "choose", left, left # pick[c].pool)
    BY <1>5 DEF AskCanary
  <2> DEFINE left == IF pool \cap near # {} THEN pool \cap near ELSE pool
  <2>2. Goes(c, "choose", left, left # pick[c].pool)
    BY <2>1
  <2>3. pool \subseteq pick[c].pool
    BY DEF PickPools
  <2>4. left \subseteq pick[c].pool /\ left \in SUBSET Node
    BY <1>1, <2>3 DEF Pick
  <2> HIDE DEF left
  <2>5. /\ pick' \in [Client -> Pick]
        /\ \A d \in Client : d # c => pick'[d] = pick[d]
        /\ left = {} => pick'[c] = Idle
        /\ left # {} => pick'[c].pool = left
    BY <2>2, <2>4, PickMoves
  <2>6. pick[c].at = "canary" /\ Idle.at = "idle"  BY <1>5 DEF AskCanary, Idle
  <2> QED  BY <2>4, <2>5, <2>6 DEF Asked
<1> QED  BY <1>2, <1>3, <1>4, <1>5

(* The last step: a hit changes nothing, a placement takes a node of the     *)
(* pool.                                                                     *)
LEMMA ChoiceMade ==
  ASSUME TypeOK, NEW c \in Client, Choose(c)
  PROVE  /\ pick[c].at = "choose" /\ pick'[c] = Idle /\ pick' \in [Client -> Pick]
         /\ \A d \in Client : d # c => pick'[d] = pick[d]
         /\ \A n \in Node : Asked(n)' = Asked(n) \ {c}
         /\ \/ UNCHANGED <<tokens, excess, bound>>
            \/ \E n \in pick[c].pool, k \in Key \cup {None} : ~Hit(c, k) /\ Place(n, k)
<1>1. pick \in [Client -> Pick]  BY DEF TypeOK, Pick
<1>2. Idle \in Pick /\ Idle.at = "idle"  BY DEF Idle, Pick
<1>3. /\ pick[c].at = "choose" /\ pick'[c] = Idle /\ pick' \in [Client -> Pick]
      /\ \A d \in Client : d # c => pick'[d] = pick[d]
  BY <1>1, <1>2 DEF Choose
<1>4. \A n \in Node : Asked(n)' = Asked(n) \ {c}
  BY <1>2, <1>3 DEF Asked
<1>5. Candidates(c) \subseteq pick[c].pool
  BY DEF Candidates
<1>6. \/ UNCHANGED <<tokens, excess, bound>>
      \/ \E n \in pick[c].pool, k \in Key \cup {None} : ~Hit(c, k) /\ Place(n, k)
  BY <1>5 DEF Choose
<1> QED  BY <1>3, <1>4, <1>6

-----------------------------------------------------------------------------
(* The buckets.                                                              *)

LEMMA BoundKept ==
  ASSUME TypeOK, NEW n \in Node, Bounded(n),
         tokens'[n] = tokens[n], excess'[n] = excess[n],
         Asked(n)' \subseteq Asked(n) \/ tokens[n] >= 1
  PROVE  Bounded(n)'
<1>1. CASE tokens[n] >= 1
  BY <1>1 DEF Bounded
<1>2. CASE ~(tokens[n] >= 1)
  <2>1. Asked(n)' \subseteq Asked(n) /\ IsFiniteSet(Asked(n))
    BY <1>2, ClientsCounted, ClientAssumption, FS_Subset
  <2>2. /\ Cardinality(Asked(n)') \in Nat /\ Cardinality(Asked(n)) \in Nat
        /\ Cardinality(Asked(n)') <= Cardinality(Asked(n))
    BY <2>1, FS_Subset, FS_CardinalityType
  <2>3. excess[n] \in Nat  BY DEF TypeOK
  <2> QED  BY <1>2, <2>2, <2>3, ClientsCounted DEF Bounded
<1> QED  BY <1>1, <1>2

LEMMA BudgetKept ==
  ASSUME TypeOK, Budget, Knowledge, [Next]_vars
  PROVE  Budget'
<1> SUFFICES ASSUME NEW n \in Node  PROVE Bounded(n)'
  BY DEF Budget
<1>1. Bounded(n)  BY DEF Budget
<1>2. ASSUME UNCHANGED <<tokens, excess, pick>>  PROVE Bounded(n)'
  <2>1. Asked(n)' = Asked(n)  BY <1>2 DEF Asked
  <2> QED  BY <1>1, <1>2, <2>1, BoundKept
<1>3. ASSUME NEW m \in Node, Refill(m)  PROVE Bounded(n)'
  <2>1. Asked(n)' = Asked(n)  BY <1>3 DEF Asked, Refill
  <2>2. CASE m # n
    <3>1. tokens'[n] = tokens[n] /\ excess'[n] = excess[n]
      BY <1>3, <2>2 DEF Refill, TypeOK
    <3> QED  BY <1>1, <2>1, <3>1, BoundKept
  <2>3. CASE m = n
    <3>1. tokens'[n] >= 1 /\ excess'[n] = 0
      BY <1>3, <2>3, CapacityAssumption DEF Refill, TypeOK
    <3> QED  BY <3>1 DEF Bounded
  <2> QED  BY <2>2, <2>3
<1>4. ASSUME NEW c \in Client, Ask(c) \/ AskBreakers(c) \/ AskLimiter(c) \/ AskCanary(c)
      PROVE  Bounded(n)'
  <2>1. UNCHANGED <<tokens, excess>>
    BY <1>4 DEF Ask, AskBreakers, AskLimiter, AskCanary, Environment
  <2> QED  BY <1>1, <1>4, <2>1, StepsOfPick, BoundKept
<1>5. ASSUME NEW c \in Client, Choose(c)  PROVE Bounded(n)'
  <2>1. pick[c].at = "choose" /\ Asked(n)' = Asked(n) \ {c}
    BY <1>5, ChoiceMade
  <2>2. CASE UNCHANGED <<tokens, excess, bound>>
    BY <1>1, <2>1, <2>2, BoundKept
  <2>3. ASSUME NEW m \in pick[c].pool, NEW k \in Key \cup {None}, Place(m, k)
        PROVE  Bounded(n)'
    <3>1. m \in Node /\ tokens \in [Node -> 0 .. Capacity] /\ excess \in [Node -> Nat]
      BY DEF TypeOK
    <3>2. CASE m # n
      <4>1. tokens'[n] = tokens[n] /\ excess'[n] = excess[n]
        BY <2>3, <3>1, <3>2 DEF Place
      <4> QED  BY <1>1, <2>1, <4>1, BoundKept
    <3>3. CASE m = n
      <4>1. c \in Asked(n)
        BY <2>1, <3>3 DEF Asked
      <4>2. IsFiniteSet(Asked(n)) /\ Asked(n) \subseteq Client
        BY ClientsCounted, ClientAssumption, FS_Subset
      <4>3. Cardinality(Asked(n)') = Cardinality(Asked(n)) - 1
        BY <2>1, <4>1, <4>2, FS_RemoveElement
      <4>4. Cardinality(Asked(n)) <= Cardinality(Client)
        BY <4>2, ClientAssumption, FS_Subset
      <4>5. /\ tokens'[n] = IF tokens[n] >= 1 THEN tokens[n] - 1 ELSE tokens[n]
            /\ excess'[n] = IF tokens[n] >= 1 THEN excess[n] ELSE excess[n] + 1
        BY <2>3, <3>1, <3>3 DEF Place
      <4>6. tokens[n] \in Int /\ excess[n] \in Nat /\ Cardinality(Asked(n)) \in Nat
        BY <3>1, CapacityAssumption, ClientsCounted
      <4> QED  BY <1>1, <4>3, <4>4, <4>5, <4>6, ClientsCounted DEF Bounded
    <3> QED  BY <3>2, <3>3
  <2> QED  BY <1>5, <2>2, <2>3, ChoiceMade
<1>6. CASE UNCHANGED vars  BY <1>2, <1>6 DEF vars
<1>7. ASSUME NEW m \in Node, StatusChanges(m) \/ BreakerChanges(m) \/ Announce(m)
      PROVE  Bounded(n)'
  BY <1>2, <1>7 DEF StatusChanges, BreakerChanges, Announce
<1>8. CASE StartCanary \/ Advance \/ SetWeight \/ Promote \/ Abort
  BY <1>2, <1>8 DEF StartCanary, Advance, SetWeight, Promote, Abort
<1> QED  BY <1>3, <1>4, <1>5, <1>6, <1>7, <1>8 DEF Next, Picks

-----------------------------------------------------------------------------
LEMMA TypeKept ==
  ASSUME TypeOK, Knowledge, [Next]_vars
  PROVE  TypeOK'
<1>1. CASE UNCHANGED vars  BY <1>1 DEF vars, TypeOK
<1>2. ASSUME Observe  PROVE steady' \in [Client -> SUBSET Node]
  BY <1>2 DEF Observe, TypeOK
<1>3. ASSUME Observe, NEW n \in Node,
             StatusChanges(n) \/ BreakerChanges(n) \/ Refill(n) \/ Announce(n)
      PROVE  TypeOK'
  <2>1. CASE StatusChanges(n)
    BY <1>2, <1>3, <2>1 DEF StatusChanges, TypeOK, canary
  <2>2. CASE BreakerChanges(n)
    BY <1>2, <1>3, <2>2 DEF BreakerChanges, TypeOK, canary
  <2>3. CASE Refill(n)
    <3>1. tokens' \in [Node -> 0 .. Capacity] /\ excess' \in [Node -> Nat]
      BY <2>3, CapacityAssumption DEF Refill, TypeOK
    <3> QED  BY <1>2, <1>3, <2>3, <3>1 DEF Refill, TypeOK, canary
  <2>4. CASE Announce(n)
    BY <1>2, <1>3, <2>4 DEF Announce, TypeOK
  <2> QED  BY <1>3, <2>1, <2>2, <2>3, <2>4
<1>4. ASSUME Observe, StartCanary \/ Advance \/ SetWeight \/ Promote \/ Abort
      PROVE  TypeOK'
  <2>1. phase' \in {"idle", "active", "promoted", "aborted"} /\ weight' \in 0 .. Full
    BY <1>4, WeightAssumption
       DEF StartCanary, Advance, SetWeight, Promote, Abort, TypeOK
  <2> QED  BY <1>2, <1>4, <2>1 DEF StartCanary, Advance, SetWeight, Promote, Abort, TypeOK
<1>5. ASSUME Observe, NEW c \in Client,
             Ask(c) \/ AskBreakers(c) \/ AskLimiter(c) \/ AskCanary(c)
      PROVE  TypeOK'
  <2>1. UNCHANGED Environment
    BY <1>5 DEF Ask, AskBreakers, AskLimiter, AskCanary
  <2>2. pick' \in [Client -> Pick]
    BY <1>5, StepsOfPick
  <2> QED  BY <1>2, <1>5, <2>1, <2>2 DEF Environment, canary, Pick, TypeOK
<1>6. ASSUME Observe, NEW c \in Client, Choose(c)  PROVE TypeOK'
  <2>1. pick' \in [Client -> Pick] /\ UNCHANGED <<status, open, canary>>
    BY <1>6, ChoiceMade DEF Choose
  <2>2. ASSUME NEW m \in pick[c].pool, NEW k \in Key \cup {None}, Place(m, k)
        PROVE  /\ tokens' \in [Node -> 0 .. Capacity] /\ excess' \in [Node -> Nat]
               /\ bound' \in [Key -> Node \cup {None}]
    <3>1. m \in Node  BY DEF TypeOK
    <3>2. tokens' \in [Node -> 0 .. Capacity] /\ excess' \in [Node -> Nat]
      BY <2>2, <3>1, CapacityAssumption DEF Place, TypeOK
    <3>3. bound' \in [Key -> Node \cup {None}]
      BY <2>2, <3>1 DEF Place, TypeOK
    <3> QED  BY <3>2, <3>3
  <2>3. /\ tokens' \in [Node -> 0 .. Capacity] /\ excess' \in [Node -> Nat]
        /\ bound' \in [Key -> Node \cup {None}]
    BY <1>6, <2>2, ChoiceMade DEF TypeOK
  <2> QED  BY <1>2, <1>6, <2>1, <2>3 DEF canary, Pick, TypeOK
<1> QED  BY <1>1, <1>3, <1>4, <1>5, <1>6 DEF Next, Picks

-----------------------------------------------------------------------------
(* What picks know.                                                          *)

(* A pick that does not move keeps what it knows.                            *)
LEMMA OthersInformed ==
  ASSUME TypeOK, NEW d \in Client, Informed(d), Observe, pick'[d] = pick[d]
  PROVE  Informed(d)'
<1>1. CASE pick[d].at = "idle"
  BY <1>1 DEF Informed
<1>2. CASE pick[d].at # "idle"
  <2>1. steady'[d] = steady[d] \cap {n \in Node : Eligible(n)} \cap {n \in Node : Eligible(n)'}
    BY <1>2 DEF Observe
  <2>2. steady'[d] \subseteq steady[d] /\ steady'[d] \subseteq {n \in Node : Eligible(n)'}
    BY <2>1
  <2> QED  BY <1>2, <2>2 DEF Informed
<1> QED  BY <1>1, <1>2

(* A pick that moves on with all of the eligible nodes it knew of.           *)
LEMMA MoverInformed ==
  ASSUME TypeOK, NEW c \in Client, Observe,
         NEW a \in {"breaker", "limiter", "canary", "choose"},
         NEW pool \in SUBSET Node, NEW narrow \in BOOLEAN,
         pool # {} => pick'[c].at = a /\ pick'[c].pool = pool /\ pick'[c].narrow = narrow,
         pool = {} => pick'[c] = Idle,
         a # "choose" => ~narrow,
         ~narrow => steady[c] \cap {n \in Node : Eligible(n)} \subseteq pool
  PROVE  Informed(c)'
<1>1. CASE pool = {}
  BY <1>1 DEF Informed, Idle
<1>2. CASE pool # {}
  <2>1. steady'[c] = steady[c] \cap {n \in Node : Eligible(n)} \cap {n \in Node : Eligible(n)'}
    BY <1>2 DEF Observe
  <2>2. /\ steady'[c] \subseteq {n \in Node : Eligible(n)'}
        /\ ~narrow => steady'[c] \subseteq pool
    BY <2>1
  <2> QED  BY <1>2, <2>2 DEF Informed
<1> QED  BY <1>1, <1>2

LEMMA KnowledgeKept ==
  ASSUME TypeOK, Knowledge, [Next]_vars
  PROVE  Knowledge'
<1>1. CASE UNCHANGED vars
  BY <1>1 DEF vars, Knowledge, Informed, Eligible, IsRateLimited
<1>2. ASSUME Observe, UNCHANGED pick  PROVE Knowledge'
  BY <1>2, OthersInformed DEF Knowledge
<1>3. ASSUME Observe, NEW c \in Client, \A d \in Client : d # c => pick'[d] = pick[d],
             Informed(c)'
      PROVE  Knowledge'
  BY <1>3, OthersInformed DEF Knowledge
<1>4. ASSUME NEW n \in Node,
             StatusChanges(n) \/ BreakerChanges(n) \/ Refill(n) \/ Announce(n)
      PROVE  UNCHANGED pick
  BY <1>4 DEF StatusChanges, BreakerChanges, Refill, Announce
<1>5. ASSUME StartCanary \/ Advance \/ SetWeight \/ Promote \/ Abort
      PROVE  UNCHANGED pick
  BY <1>5 DEF StartCanary, Advance, SetWeight, Promote, Abort
<1>6. ASSUME Observe, NEW c \in Client,
             Ask(c) \/ AskBreakers(c) \/ AskLimiter(c) \/ AskCanary(c)
      PROVE  Informed(c)'
  <2> DEFINE E == {n \in Node : Eligible(n)}
  <2>1. pick \in [Client -> Pick] /\ steady[c] \subseteq Node  BY DEF TypeOK, Pick
  <2>2. Informed(c)  BY DEF Knowledge
  <2>3. CASE Ask(c)
    <3> DEFINE pool == {n \in Node : status[n] # "dead"}
    <3>1. /\ pool # {} /\ pick'[c].at = "breaker" /\ pick'[c].pool = pool
          /\ pick'[c].narrow = FALSE
      BY <2>1, <2>3 DEF Ask
    <3>2. steady[c] \cap E \subseteq pool /\ pool \in SUBSET Node  BY DEF Eligible
    <3> HIDE DEF pool
    <3> QED  BY <1>6, <3>1, <3>2, MoverInformed
  <2>4. CASE AskBreakers(c)
    <3> DEFINE pool == pick[c].pool \ open
    <3>1. pool \in SUBSET Node /\ Goes(c, "limiter", pool, FALSE)
      BY <2>1, <2>4 DEF Pick, AskBreakers
    <3>2. steady[c] \cap E \subseteq pool
      BY <2>2, <2>4 DEF Informed, Eligible, AskBreakers
    <3> HIDE DEF pool
    <3>3. /\ pool = {} => pick'[c] = Idle
          /\ pool # {} => /\ pick'[c].at = "limiter" /\ pick'[c].pool = pool
                          /\ pick'[c].narrow = FALSE
      BY <3>1, PickMoves
    <3> QED  BY <1>6, <3>1, <3>2, <3>3, MoverInformed
  <2>5. CASE AskLimiter(c)
    <3> DEFINE pool == {n \in pick[c].pool : ~IsRateLimited(n)}
    <3>1. pool \in SUBSET Node /\ Goes(c, "canary", pool, FALSE)
      BY <2>1, <2>5 DEF Pick, AskLimiter
    <3>2. steady[c] \cap E \subseteq pool
      BY <2>2, <2>5 DEF Informed, Eligible, AskLimiter
    <3> HIDE DEF pool
    <3>3. /\ pool = {} => pick'[c] = Idle
          /\ pool # {} => /\ pick'[c].at = "canary" /\ pick'[c].pool = pool
                          /\ pick'[c].narrow = FALSE
      BY <3>1, PickMoves
    <3> QED  BY <1>6, <3>1, <3>2, <3>3, MoverInformed
  <2>6. CASE AskCanary(c)
    <3>1. PICK p \in PickPools(pick[c].pool), near \in {Node, Region} :
            LET left == IF p \cap near # {} THEN p \cap near ELSE p
            IN Goes(c, "choose", left, left # pick[c].pool)
      BY <2>6 DEF AskCanary
    <3> DEFINE pool == IF p \cap near # {} THEN p \cap near ELSE p
               narrow == pool # pick[c].pool
    <3>2. Goes(c, "choose", pool, narrow) /\ narrow \in BOOLEAN
      BY <3>1
    <3>3. pool \in SUBSET Node
      BY <2>1 DEF PickPools, Pick
    <3>4. ~narrow => steady[c] \cap E \subseteq pool
      BY <2>2, <2>6 DEF Informed, AskCanary
    <3> HIDE DEF pool, narrow
    <3>5. /\ pool = {} => pick'[c] = Idle
          /\ pool # {} => /\ pick'[c].at = "choose" /\ pick'[c].pool = pool
                          /\ pick'[c].narrow = narrow
      BY <3>2, <3>3, PickMoves
    <3> QED  BY <1>6, <3>2, <3>3, <3>4, <3>5, MoverInformed
  <2> QED  BY <1>6, <2>3, <2>4, <2>5, <2>6
<1>7. ASSUME NEW c \in Client, Choose(c)  PROVE Informed(c)'
  BY <1>7, ChoiceMade DEF Informed, Idle
<1>8. ASSUME NEW c \in Client, Picks(c)
      PROVE  \A d \in Client : d # c => pick'[d] = pick[d]
  BY <1>8, StepsOfPick, ChoiceMade DEF Picks
<1> QED  BY <1>1, <1>2, <1>3, <1>4, <1>5, <1>6, <1>7, <1>8 DEF Next, Picks

-----------------------------------------------------------------------------
LEMMA StartInvariant ==
  ASSUME Init
  PROVE  IInv
<1>1. TypeOK
  BY CapacityAssumption, WeightAssumption DEF Init, TypeOK, Idle
<1>2. Budget
  BY CapacityAssumption DEF Init, Budget, Bounded
<1>3. Knowledge
  BY DEF Init, Knowledge, Informed, Idle
<1> QED  BY <1>1, <1>2, <1>3 DEF IInv

LEMMA Inductive ==
  ASSUME IInv, [Next]_vars
  PROVE  IInv'
BY TypeKept, BudgetKept, KnowledgeKept DEF IInv

LEMMA Invariance == Spec => []IInv
<1>1. Init => IInv  BY StartInvariant
<1>2. IInv /\ [Next]_vars => IInv'  BY Inductive
<1> QED  BY <1>1, <1>2, PTL DEF Spec

(* Tokens stay within the capacity, picks within the nodes, bindings within   *)
(* keys and nodes, for all instances.                                        *)
THEOREM TypeCorrect == Spec => []TypeOK
<1>1. IInv => TypeOK  BY DEF IInv
<1> QED  BY <1>1, Invariance, PTL

(* A bucket that is asked by one lock and drained behind another is overdrawn *)
(* by fewer placements than there are threads, before time refills it.       *)
THEOREM OverdraftIsBounded == Spec => []OverdraftBounded
<1>1. ASSUME IInv  PROVE OverdraftBounded
  <2> SUFFICES ASSUME NEW n \in Node  PROVE excess[n] < Cardinality(Client)
    BY DEF OverdraftBounded
  <2>1. Bounded(n) /\ excess[n] \in Nat
    BY <1>1 DEF IInv, Budget, TypeOK
  <2> QED  BY <2>1, ClientsCounted DEF Bounded
<1> QED  BY <1>1, Invariance, PTL

(* A pick does not end empty while a node is eligible from its first question *)
(* to its last: none of the filters of pick loses such a node.               *)
THEOREM PicksFindSteady == Spec => PickFindsSteady
<1> DEFINE Found == \A c \in Client :
       pick[c].at # "idle" /\ pick'[c].at = "idle" /\ ~(pick[c].at = "choose")
         => steady[c] \cap {n \in Node : Eligible(n)} = {}
<1>1. ASSUME IInv, Next  PROVE Found
  <2> SUFFICES ASSUME NEW c \in Client, pick[c].at # "idle", pick'[c].at = "idle",
                      pick[c].at # "choose"
               PROVE  steady[c] \cap {n \in Node : Eligible(n)} = {}
    OBVIOUS
  <2>1. TypeOK /\ Knowledge /\ Informed(c) /\ pick \in [Client -> Pick]
    BY <1>1 DEF IInv, Knowledge, TypeOK, Pick
  <2>2. AskBreakers(c) \/ AskLimiter(c) \/ AskCanary(c)
    <3>1. ASSUME NEW d \in Client, Picks(d), d # c  PROVE FALSE
      <4>1. pick'[c] = pick[c]
        BY <2>1, <3>1, StepsOfPick, ChoiceMade DEF Picks
      <4> QED  BY <4>1
    <3>2. ~Ask(c) /\ ~Choose(c)
      BY DEF Ask, Choose
    <3>3. pick' # pick
      OBVIOUS
    <3> QED  BY <1>1, <3>1, <3>2, <3>3
             DEF Next, Picks, StatusChanges, BreakerChanges, Refill, Announce,
                 StartCanary, Advance, SetWeight, Promote, Abort
  <2>3. CASE AskBreakers(c)
    <3> DEFINE pool == pick[c].pool \ open
    <3>1. pool \in SUBSET Node /\ Goes(c, "limiter", pool, FALSE)
      BY <2>1, <2>3 DEF Pick, AskBreakers
    <3>2. pool = {} => steady[c] \cap {n \in Node : Eligible(n)} = {}
      BY <2>1, <2>3 DEF Informed, Eligible, AskBreakers
    <3> HIDE DEF pool
    <3>3. pool = {}
      BY <2>1, <3>1, PickMoves
    <3> QED  BY <3>2, <3>3
  <2>4. CASE AskLimiter(c)
    <3> DEFINE pool == {n \in pick[c].pool : ~IsRateLimited(n)}
    <3>1. pool \in SUBSET Node /\ Goes(c, "canary", pool, FALSE)
      BY <2>1, <2>4 DEF Pick, AskLimiter
    <3>2. pool = {} => steady[c] \cap {n \in Node : Eligible(n)} = {}
      BY <2>1, <2>4 DEF Informed, Eligible, AskLimiter
    <3> HIDE DEF pool
    <3>3. pool = {}
      BY <2>1, <3>1, PickMoves
    <3> QED  BY <3>2, <3>3
  <2>5. CASE AskCanary(c)
    <3>1. PICK p \in PickPools(pick[c].pool), near \in {Node, Region} :
            LET left == IF p \cap near # {} THEN p \cap near ELSE p
            IN Goes(c, "choose", left, left # pick[c].pool)
      BY <2>5 DEF AskCanary
    <3> DEFINE pool == IF p \cap near # {} THEN p \cap near ELSE p
               narrow == pool # pick[c].pool
    <3>2. Goes(c, "choose", pool, narrow) /\ narrow \in BOOLEAN
      BY <3>1
    <3>3. p \subseteq pick[c].pool /\ p # {}
      BY <2>1, PoolsFound, WeightAssumption DEF Informed, TypeOK
    <3>4. pool \in SUBSET Node /\ pool # {}
      BY <2>1, <3>3 DEF Pick
    <3> HIDE DEF pool, narrow
    <3>5. pick'[c].at = "choose"
      BY <2>1, <3>2, <3>4, PickMoves
    <3> QED  BY <3>5
  <2> QED  BY <2>2, <2>3, <2>4, <2>5
<1>2. ASSUME IInv, [Next]_vars  PROVE [Found]_vars
  BY <1>1, <1>2
<1> QED  BY <1>2, Invariance, PTL DEF Spec, PickFindsSteady

(* A sticky session moves only when its node was not eligible at some moment  *)
(* of the pick, or the deployment or the region narrowed the pool.           *)
THEOREM SessionsStay == Spec => SessionStays
<1> DEFINE Stays == \A k \in Key :
       bound[k] # None /\ bound'[k] # bound[k] =>
         \E c \in Client :
           /\ pick[c].at = "choose" /\ pick'[c].at = "idle"
           /\ bound[k] \notin steady[c] \/ pick[c].narrow
<1>1. ASSUME IInv, Next  PROVE Stays
  <2> SUFFICES ASSUME NEW k \in Key, bound[k] # None, bound'[k] # bound[k]
               PROVE  \E c \in Client :
                        /\ pick[c].at = "choose" /\ pick'[c].at = "idle"
                        /\ bound[k] \notin steady[c] \/ pick[c].narrow
    OBVIOUS
  <2>1. TypeOK /\ Knowledge  BY <1>1 DEF IInv
  <2>2. bound' # bound  OBVIOUS
  <2>3. PICK c \in Client : Choose(c)
    BY <1>1, <2>2
       DEF Next, Picks, StatusChanges, BreakerChanges, Refill, Announce,
           StartCanary, Advance, SetWeight, Promote, Abort, Ask, AskBreakers,
           AskLimiter, AskCanary, Environment
  <2>4. PICK n \in pick[c].pool, j \in Key \cup {None} : ~Hit(c, j) /\ Place(n, j)
    BY <2>1, <2>2, <2>3, ChoiceMade
  <2>5. j = k
    BY <2>1, <2>4 DEF Place, TypeOK
  <2>6. j # None
    BY <2>2, <2>4 DEF Place
  <2>7. bound[k] \notin pick[c].pool
    BY <2>4, <2>5, <2>6 DEF Hit
  <2>8. pick[c].at = "choose" /\ pick'[c].at = "idle"
    BY <2>1, <2>3, ChoiceMade DEF Idle
  <2>9. bound[k] \notin steady[c] \/ pick[c].narrow
    BY <2>1, <2>7, <2>8 DEF Knowledge, Informed
  <2> QED  BY <2>8, <2>9
<1>2. ASSUME IInv, [Next]_vars  PROVE [Stays]_vars
  BY <1>1, <1>2
<1> QED  BY <1>2, Invariance, PTL DEF Spec, SessionStays
=============================================================================
