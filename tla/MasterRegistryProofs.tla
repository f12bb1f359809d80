-------------------------- MODULE MasterRegistryProofs --------------------------
(***************************************************************************)
(* MasterRegistry, for any set of nodes, any time-outs, windows and         *)
(* thresholds, any loss and delay of requests: its type, and that a node    *)
(* that keeps dying is not trusted again before it has earned it, provided  *)
(* that nodes never leave or that the registry is not kept on disk.        *)
(***************************************************************************)
EXTENDS MasterRegistry, FiniteSetTheorems, TLAPS

(* A record whose quarantine is still to be served: the counter of           *)
(* heartbeats has room for one more.                                         *)
Sound == {r \in Record : r.status = "quarantined" => r.consec <= Recovery}

(* A record that does not claim more trust than its deaths permit.           *)
Clean == {r \in Sound : /\ r.status # "leaving"
                        /\ r.status = "alive" => Cardinality(r.deaths) < FlapThreshold}

Registries(S) == [Node -> S \cup {None}]

(* Every registry there is, in memory, on disk or about to be written, is    *)
(* one of S.                                                                 *)
KeptIn(S) ==
  /\ nodes \in Registries(S) /\ disk \in Registries(S)
  /\ saving \in [Saver -> SUBSET Registries(S)]

(* The type of everything else.                                              *)
RestOK ==
  /\ leaving \in [Node -> 0 .. MaxLeaves]
  /\ unhealthy \in BOOLEAN
  /\ mode \in {"up", "stopping", "down"}
  /\ at \in [Node -> {"off", "join", "sleep", "beat", "rejoin", "refresh"}]
  /\ running \in [Node -> BOOLEAN] /\ joined \in [Node -> BOOLEAN]
  /\ fails \in [Node -> 0 .. 3]
  /\ lossy \in BOOLEAN /\ late \subseteq {"join", "beat", "leave"} \X Node

TypeInv == KeptIn(Sound) /\ RestOK

(* Only the nodes in Leaves are ever inside a leave, or about to be.         *)
LeaversOnly ==
  /\ \A n \in Node : leaving[n] > 0 => n \in Leaves
  /\ \A m \in late : m[1] = "leave" => m[2] \in Leaves

(* Outside a leave every record is clean, wherever it is kept.               *)
Trust ==
  /\ \A n \in Node : leaving[n] = 0 => nodes[n] \in Clean \cup {None}
  /\ disk \in Registries(Clean)
  /\ saving \in [Saver -> SUBSET Registries(Clean)]
  /\ ~Persist => \A w \in Saver : saving[w] = {}

(* The case in which a snapshot cannot catch a node inside a leave.          *)
NoLeaveOnDisk == Leaves = {} \/ ~Persist

-----------------------------------------------------------------------------
(* Records.                                                                *)

LEMMA Ages == SeenCap \in Nat /\ Timeout \in Nat /\ FlapWindow \in Nat
  BY TimeAssumption DEF SeenCap

LEMMA NoDeaths == Cardinality({}) = 0
  BY FS_EmptySet

LEMMA DeathsFinite ==
  ASSUME NEW d \in SUBSET (0 .. FlapWindow)
  PROVE  IsFiniteSet(d) /\ Cardinality(d) \in Nat
<1>1. IsFiniteSet(0 .. FlapWindow)  BY FS_Interval, Ages
<1>2. IsFiniteSet(d)  BY <1>1, FS_Subset
<1> QED  BY <1>2, FS_CardinalityType

LEMMA Fields ==
  ASSUME NEW r \in Record
  PROVE  /\ r.status \in {"alive", "dead", "quarantined", "leaving"}
         /\ r.seen \in 0 .. SeenCap
         /\ r.deaths \in SUBSET (0 .. FlapWindow)
         /\ r.consec \in 0 .. Recovery + 1
  BY DEF Record

(* What it means to set a field.                                            *)
LEMMA SetStatus ==
  ASSUME NEW r \in Record, NEW x \in {"alive", "dead", "quarantined", "leaving"}
  PROVE  LET s == [r EXCEPT !.status = x] IN
         /\ s \in Record /\ s.status = x
         /\ s.seen = r.seen /\ s.deaths = r.deaths /\ s.consec = r.consec
  BY DEF Record

LEMMA SetSeen ==
  ASSUME NEW r \in Record, NEW x \in 0 .. SeenCap
  PROVE  LET s == [r EXCEPT !.seen = x] IN
         /\ s \in Record /\ s.seen = x
         /\ s.status = r.status /\ s.deaths = r.deaths /\ s.consec = r.consec
  BY DEF Record

LEMMA SetDeaths ==
  ASSUME NEW r \in Record, NEW x \in SUBSET (0 .. FlapWindow)
  PROVE  LET s == [r EXCEPT !.deaths = x] IN
         /\ s \in Record /\ s.deaths = x
         /\ s.status = r.status /\ s.seen = r.seen /\ s.consec = r.consec
  BY DEF Record

LEMMA SetConsec ==
  ASSUME NEW r \in Record, NEW x \in 0 .. Recovery + 1
  PROVE  LET s == [r EXCEPT !.consec = x] IN
         /\ s \in Record /\ s.consec = x
         /\ s.status = r.status /\ s.seen = r.seen /\ s.deaths = r.deaths
  BY DEF Record

(* Time makes deaths older and forgets the oldest; it never adds any.        *)
LEMMA FewerDeaths ==
  ASSUME NEW d \in SUBSET (0 .. FlapWindow)
  PROVE  LET older == {a + 1 : a \in d} \cap (0 .. FlapWindow)
         IN  older \in SUBSET (0 .. FlapWindow) /\ Cardinality(older) <= Cardinality(d)
<1> DEFINE older == {a + 1 : a \in d} \cap (0 .. FlapWindow)
           young == {a \in d : a + 1 \in 0 .. FlapWindow}
           f == [a \in young |-> a + 1]
<1>1. IsFiniteSet(young) /\ Cardinality(young) <= Cardinality(d)
  BY DeathsFinite, FS_Subset
<1>2. f \in Surjection(young, older)
  <2>1. f \in [young -> older]  OBVIOUS
  <2>2. \A b \in older : \E a \in young : f[a] = b  OBVIOUS
  <2> QED  BY <2>1, <2>2 DEF Surjection
<1>3. Cardinality(older) <= Cardinality(young)  BY <1>1, <1>2, FS_Surjection
<1>4. older \in SUBSET (0 .. FlapWindow) /\ young \in SUBSET (0 .. FlapWindow)  OBVIOUS
<1>5. Cardinality(older) \in Nat /\ Cardinality(young) \in Nat /\ Cardinality(d) \in Nat
  BY <1>4, DeathsFinite
<1> QED  BY <1>1, <1>3, <1>4, <1>5

LEMMA FreshRecord == Fresh \in Clean
  BY NoDeaths, TrustAssumption, Ages DEF Fresh, Clean, Sound, Record

(* A join or a heartbeat keeps a record sound, and clean if it was.          *)
LEMMA RevivedRecord ==
  ASSUME NEW r \in Record
  PROVE  Revived(r) \in Clean
<1>1. Cardinality(r.deaths) \in Nat  BY Fields, DeathsFinite
<1>2. Cardinality(r.deaths) < FlapThreshold \/ Cardinality(r.deaths) >= FlapThreshold
  BY <1>1, TrustAssumption
<1>3. CASE Cardinality(r.deaths) >= FlapThreshold
  <2> DEFINE t == [r EXCEPT !.status = "quarantined"]
             s == [t EXCEPT !.consec = 1]
  <2>1. Revived(r) = s  BY <1>3 DEF Revived
  <2>2. t \in Record /\ t.status = "quarantined"  BY SetStatus
  <2> HIDE DEF t
  <2>3. s \in Record /\ s.status = "quarantined" /\ s.consec = 1
    BY <2>2, SetConsec, TrustAssumption
  <2> HIDE DEF s
  <2> QED  BY <2>1, <2>3, TrustAssumption DEF Clean, Sound
<1>4. CASE Cardinality(r.deaths) < FlapThreshold
  <2>1. Revived(r) = [r EXCEPT !.status = "alive"]
    BY <1>4, <1>1, TrustAssumption DEF Revived
  <2> QED  BY <1>4, <2>1, Fields DEF Clean, Sound, Record
<1> QED  BY <1>2, <1>3, <1>4

LEMMA Touched ==
  ASSUME NEW S \in {Sound, Clean}, NEW r \in S
  PROVE  [r EXCEPT !.seen = 0] \in S
<1>1. r \in Record  BY DEF Sound, Clean
<1> QED  BY <1>1, Ages, Fields DEF Sound, Clean, Record

LEMMA JoinedRecord ==
  ASSUME NEW S \in {Sound, Clean}, NEW r \in S \cup {None}
  PROVE  AfterJoin(r) \in S
<1>1. CASE r = None  BY <1>1, FreshRecord DEF AfterJoin, Clean
<1>2. CASE r # None
  <2>1. r \in S /\ r \in Record /\ [r EXCEPT !.seen = 0] \in S
    BY <1>2, Touched DEF Sound, Clean
  <2>2. [r EXCEPT !.seen = 0] \in Record  BY <2>1 DEF Sound, Clean
  <2>3. CASE r.status = "dead"
    <3>1. AfterJoin(r) = Revived([r EXCEPT !.seen = 0])  BY <1>2, <2>3 DEF AfterJoin
    <3> QED  BY <3>1, <2>2, RevivedRecord DEF Clean
  <2>4. CASE r.status = "leaving"
    <3>1. AfterJoin(r) = [r EXCEPT !.seen = 0, !.status = "alive"]
      BY <1>2, <2>4 DEF AfterJoin
    <3>2. S = Sound  BY <2>1, <2>4 DEF Clean
    <3> QED  BY <3>1, <3>2, <2>1, Ages, Fields DEF Sound, Record
  <2>5. CASE r.status \notin {"dead", "leaving"}
    BY <1>2, <2>1, <2>5 DEF AfterJoin
  <2> QED  BY <2>3, <2>4, <2>5
<1> QED  BY <1>1, <1>2

LEMMA BeatenRecord ==
  ASSUME NEW S \in {Sound, Clean}, NEW r \in S
  PROVE  AfterBeat(r) \in S
<1>1. r \in Record /\ [r EXCEPT !.seen = 0] \in S /\ [r EXCEPT !.seen = 0] \in Record
  BY Touched DEF Sound, Clean
<1>2. CASE r.status = "dead"
  <2>1. AfterBeat(r) = Revived([r EXCEPT !.seen = 0])  BY <1>2 DEF AfterBeat
  <2> QED  BY <2>1, <1>1, RevivedRecord DEF Clean
<1>3. CASE r.status = "quarantined"
  <2>1. r.consec \in Nat /\ r.consec <= Recovery
    BY <1>1, <1>3, Fields DEF Sound, Clean
  <2> DEFINE t == [r EXCEPT !.seen = 0]
             u == [t EXCEPT !.consec = t.consec + 1]
             v == [u EXCEPT !.status = "alive"]
             w == [v EXCEPT !.deaths = {}]
  <2>2. t \in Record /\ t.status = "quarantined" /\ t.consec = r.consec
    BY <1>1, <1>3, SetSeen, Ages
  <2>3. r.consec + 1 >= Recovery => AfterBeat(r) = w  BY <1>3 DEF AfterBeat
  <2>4. ~(r.consec + 1 >= Recovery) => AfterBeat(r) = u  BY <1>3 DEF AfterBeat
  <2> HIDE DEF t
  <2>5. u \in Record /\ u.status = "quarantined" /\ u.consec = r.consec + 1
    BY <2>1, <2>2, SetConsec, TrustAssumption
  <2> HIDE DEF u
  <2>6. v \in Record /\ v.status = "alive"  BY <2>5, SetStatus
  <2> HIDE DEF v
  <2>7. w \in Record /\ w.status = "alive" /\ w.deaths = {}  BY <2>6, SetDeaths
  <2> HIDE DEF w
  <2>8. CASE r.consec + 1 >= Recovery
    BY <2>3, <2>7, <2>8, NoDeaths, TrustAssumption DEF Sound, Clean
  <2>9. CASE ~(r.consec + 1 >= Recovery)
    <3>1. u.consec <= Recovery  BY <2>1, <2>5, <2>9, TrustAssumption
    <3> QED  BY <2>4, <2>5, <2>9, <3>1 DEF Sound, Clean
  <2> QED  BY <2>8, <2>9
<1>4. CASE r.status \notin {"dead", "quarantined"}
  BY <1>1, <1>4 DEF AfterBeat
<1> QED  BY <1>2, <1>3, <1>4

-----------------------------------------------------------------------------
(* Registries.                                                             *)

LEMMA SoundIsTyped ==
  /\ Registries(Sound) \subseteq Registry
  /\ Registries(Clean) \subseteq Registries(Sound)
  /\ Empty \in Registries(Clean)
  BY DEF Registries, Registry, Sound, Clean, Empty

LEMMA TypeInvTypes == TypeInv => TypeOK
  BY SoundIsTyped DEF TypeInv, KeptIn, RestOK, TypeOK

(* A join or a heartbeat, on time or late.                                   *)
LEMMA Handled ==
  ASSUME NEW n \in Node, nodes \in Registries(Sound), HandleJoin(n) \/ HandleHeartbeat(n)
  PROVE  /\ nodes' \in Registries(Sound)
         /\ \A m \in Node : nodes[m] \in Clean \cup {None} => nodes'[m] \in Clean \cup {None}
<1>1. nodes[n] \in Sound \cup {None}  BY DEF Registries
<1>2. CASE HandleJoin(n)
  <2>1. AfterJoin(nodes[n]) \in Sound  BY <1>1, JoinedRecord
  <2>2. nodes[n] \in Clean \cup {None} => AfterJoin(nodes[n]) \in Clean  BY JoinedRecord
  <2> QED  BY <1>2, <2>1, <2>2 DEF HandleJoin, Registries
<1>3. CASE HandleHeartbeat(n) /\ nodes[n] # None
  <2>1. AfterBeat(nodes[n]) \in Sound  BY <1>1, <1>3, BeatenRecord
  <2>2. nodes[n] \in Clean => AfterBeat(nodes[n]) \in Clean  BY BeatenRecord
  <2> QED  BY <1>3, <2>1, <2>2 DEF HandleHeartbeat, Registries
<1>4. CASE HandleHeartbeat(n) /\ nodes[n] = None
  BY <1>4 DEF HandleHeartbeat
<1> QED  BY <1>2, <1>3, <1>4

LEMMA Left ==
  ASSUME NEW n \in Node, TypeInv, LeaveBegin(n)
  PROVE  /\ nodes' \in Registries(Sound)
         /\ leaving' \in [Node -> 0 .. MaxLeaves]
         /\ \A m \in Node : m # n => nodes'[m] = nodes[m] /\ leaving'[m] = leaving[m]
         /\ leaving'[n] = 0 => nodes'[n] = nodes[n] /\ leaving[n] = 0
<1>1. CASE nodes[n] = None
  BY <1>1 DEF LeaveBegin, TypeInv, KeptIn, RestOK
<1>2. CASE nodes[n] # None
  <2> DEFINE s == [nodes[n] EXCEPT !.status = "leaving"]
  <2>1. nodes[n] \in Record  BY <1>2 DEF TypeInv, KeptIn, Registries, Sound
  <2>2. s \in Sound  BY <2>1, SetStatus DEF Sound
  <2>3. nodes' = [nodes EXCEPT ![n] = s]  BY <1>2 DEF LeaveBegin
  <2> HIDE DEF s
  <2>4. nodes' \in Registries(Sound) /\ \A m \in Node : m # n => nodes'[m] = nodes[m]
    BY <2>2, <2>3 DEF TypeInv, KeptIn, Registries
  <2>5. leaving[n] < MaxLeaves /\ leaving' = [leaving EXCEPT ![n] = @ + 1]
    BY <1>2 DEF LeaveBegin
  <2>6. /\ leaving' \in [Node -> 0 .. MaxLeaves] /\ leaving'[n] # 0
        /\ \A m \in Node : m # n => leaving'[m] = leaving[m]
    BY <2>5, NodeAssumption DEF TypeInv, RestOK
  <2> QED  BY <2>4, <2>6
<1> QED  BY <1>1, <1>2

LEMMA Checked ==
  ASSUME nodes \in Registries(Sound), CheckHeartbeats
  PROVE  /\ nodes' \in Registries(Sound)
         /\ \A m \in Node : nodes[m] \in Clean \cup {None} => nodes'[m] \in Clean \cup {None}
<1>1. ASSUME NEW m \in Node
      PROVE  /\ nodes'[m] \in Sound \cup {None}
             /\ nodes[m] \in Clean \cup {None} => nodes'[m] \in Clean \cup {None}
  <2>1. CASE TimedOut(m)
    <3> DEFINE t == [nodes[m] EXCEPT !.status = "dead"]
               u == [t EXCEPT !.deaths = t.deaths \cup {0}]
               v == [u EXCEPT !.consec = 0]
    <3>1. nodes[m] \in Record
      BY <2>1 DEF TimedOut, Has, Registries, Sound
    <3>2. nodes'[m] = v  BY <2>1 DEF CheckHeartbeats
    <3>3. t \in Record /\ t.status = "dead"  BY <3>1, SetStatus
    <3> HIDE DEF t
    <3>4. t.deaths \cup {0} \in SUBSET (0 .. FlapWindow)  BY <3>3, Fields, Ages
    <3>5. u \in Record /\ u.status = "dead"  BY <3>3, <3>4, SetDeaths
    <3> HIDE DEF u
    <3>6. v \in Record /\ v.status = "dead"  BY <3>5, SetConsec, TrustAssumption
    <3> HIDE DEF v
    <3> QED  BY <3>2, <3>6 DEF Clean, Sound
  <2>2. CASE ~TimedOut(m)
    BY <2>2 DEF CheckHeartbeats, Registries
  <2> QED  BY <2>1, <2>2
<1>2. nodes' = [m \in Node |-> nodes'[m]]  BY DEF CheckHeartbeats
<1> QED  BY <1>1, <1>2 DEF Registries

(* Time passes for every registry there is.                                  *)
LEMMA AgedRecord ==
  ASSUME NEW S \in {Sound, Clean}, NEW r \in S
  PROVE  [r EXCEPT !.seen = IF @ < SeenCap THEN @ + 1 ELSE @,
                   !.deaths = {d + 1 : d \in @} \cap (0 .. FlapWindow)] \in S
<1> DEFINE older == {d + 1 : d \in r.deaths} \cap (0 .. FlapWindow)
           seen == IF r.seen < SeenCap THEN r.seen + 1 ELSE r.seen
           t == [r EXCEPT !.seen = seen]
           u == [t EXCEPT !.deaths = older]
<1>1. r \in Record  BY DEF Sound, Clean
<1>2. seen \in 0 .. SeenCap  BY <1>1, Fields, Ages
<1>3. older \in SUBSET (0 .. FlapWindow) /\ Cardinality(older) <= Cardinality(r.deaths)
  BY <1>1, Fields, FewerDeaths
<1>4. Cardinality(older) \in Nat /\ Cardinality(r.deaths) \in Nat
  BY <1>1, <1>3, Fields, DeathsFinite
<1>5. [r EXCEPT !.seen = IF @ < SeenCap THEN @ + 1 ELSE @,
                !.deaths = {d + 1 : d \in @} \cap (0 .. FlapWindow)]
        = [t EXCEPT !.deaths = {d + 1 : d \in t.deaths} \cap (0 .. FlapWindow)]
  OBVIOUS
<1> HIDE DEF seen
<1>6. /\ t \in Record /\ t.status = r.status
      /\ t.consec = r.consec /\ t.deaths = r.deaths
  BY <1>1, <1>2, SetSeen
<1> HIDE DEF t
<1>7. [t EXCEPT !.deaths = {d + 1 : d \in t.deaths} \cap (0 .. FlapWindow)] = u  BY <1>6
<1> HIDE DEF older
<1>8. /\ u \in Record /\ u.status = r.status
      /\ u.consec = r.consec /\ u.deaths = older
  BY <1>3, <1>6, SetDeaths
<1> HIDE DEF u
<1>9. u \in S
  <2>1. CASE S = Sound  BY <2>1, <1>8 DEF Sound
  <2>2. CASE S = Clean
    BY <2>2, <1>3, <1>4, <1>8, TrustAssumption DEF Sound, Clean
  <2> QED  BY <2>1, <2>2
<1> QED  BY <1>5, <1>7, <1>9

LEMMA AgedRegistry ==
  ASSUME NEW S \in {Sound, Clean}, NEW reg
  PROVE  /\ reg \in Registries(S) => Aged(reg) \in Registries(S)
         /\ \A n \in Node : reg[n] \in S \cup {None} => Aged(reg)[n] \in S \cup {None}
<1>1. \A n \in Node : reg[n] \in S \cup {None} => Aged(reg)[n] \in S \cup {None}
  <2> SUFFICES ASSUME NEW n \in Node, reg[n] \in S, reg[n] # None
               PROVE  Aged(reg)[n] \in S
    BY DEF Aged
  <2> QED  BY AgedRecord DEF Aged
<1>2. Aged(reg) = [n \in Node |-> Aged(reg)[n]]  BY DEF Aged
<1> QED  BY <1>1, <1>2 DEF Registries

-----------------------------------------------------------------------------
(* The type of everything.                                                 *)

LEMMA TypeStart == Init => TypeInv
<1> SUFFICES ASSUME Init  PROVE TypeInv  OBVIOUS
<1>1. KeptIn(Sound)  BY SoundIsTyped DEF Init, KeptIn
<1>2. RestOK
  <2>1. leaving \in [Node -> 0 .. MaxLeaves] /\ fails \in [Node -> 0 .. 3]
    BY NodeAssumption DEF Init
  <2>2. /\ at \in [Node -> {"off", "join", "sleep", "beat", "rejoin", "refresh"}]
        /\ mode \in {"up", "stopping", "down"}
    BY DEF Init
  <2>3. running \in [Node -> BOOLEAN] /\ joined \in [Node -> BOOLEAN]
    BY Zenon DEF Init
  <2>4. unhealthy \in BOOLEAN /\ lossy \in BOOLEAN /\ late = {}  BY DEF Init
  <2> QED  BY <2>1, <2>2, <2>3, <2>4 DEF RestOK
<1> QED  BY <1>1, <1>2 DEF TypeInv

(* The requests of an agent's thread, answered or not.                       *)
LEMMA ThreadTyped ==
  ASSUME TypeInv, NEW n \in Node, AgentThread(n)
  PROVE  TypeInv'
<1> USE DEF TypeInv
<1>1. CASE Join(n) \/ Rejoin(n)
  <2>1. HandleJoin(n)  BY <1>1 DEF Join, Rejoin
  <2>2. nodes' \in Registries(Sound)  BY <2>1, Handled DEF KeptIn
  <2>3. KeptIn(Sound)'  BY <1>1, <2>2 DEF Join, Rejoin, KeptIn
  <2>4. RestOK'  BY <1>1 DEF Join, Rejoin, RestOK
  <2> QED  BY <2>3, <2>4
<1>2. CASE Beat(n)
  <2>1. nodes' \in Registries(Sound)  BY <1>2, Handled DEF Beat, KeptIn
  <2>2. KeptIn(Sound)'  BY <1>2, <2>1 DEF Beat, KeptIn
  <2>3. RestOK'  BY <1>2 DEF Beat, RestOK
  <2> QED  BY <2>2, <2>3
<1>3. CASE BeatStart(n)
  BY <1>3 DEF BeatStart, masterVars, KeptIn, RestOK
<1>4. CASE BeatRefused(n)
  <2>1. FailsNext(fails[n]) \in 0 .. 3  BY DEF FailsNext, RestOK
  <2> QED  BY <1>4, <2>1 DEF BeatRefused, masterVars, KeptIn, RestOK
<1>5. CASE CallFails(n)
  <2>1. FailsNext(fails[n]) \in 0 .. 3  BY DEF FailsNext, RestOK
  <2>2. /\ UNCHANGED nodes
        /\ late' \subseteq {"join", "beat", "leave"} \X Node
    BY <1>5 DEF CallFails, JoinFails, BeatFails, RejoinFails, Unanswered, RestOK
  <2>3. UNCHANGED <<leaving, unhealthy, mode, disk, saving, running, joined, lossy>>
    BY <1>5 DEF CallFails, JoinFails, BeatFails, RejoinFails
  <2>4. /\ at' \in [Node -> {"off", "join", "sleep", "beat", "rejoin", "refresh"}]
        /\ fails' \in [Node -> 0 .. 3]
    BY <1>5, <2>1 DEF CallFails, JoinFails, BeatFails, RejoinFails, RestOK
  <2> QED  BY <2>2, <2>3, <2>4 DEF KeptIn, RestOK
<1> QED  BY <1>1, <1>2, <1>3, <1>4, <1>5 DEF AgentThread

LEMMA OperatorTyped ==
  ASSUME TypeInv, NEW n \in Node,
         LeaveEnd(n) \/ AgentStart(n) \/ AgentStop(n) \/ AgentDie(n) \/ AdminDelete(n)
  PROVE  TypeInv'
<1> USE DEF TypeInv
<1>1. CASE LeaveEnd(n)
  <2>1. KeptIn(Sound)'  BY <1>1 DEF LeaveEnd, KeptIn, Registries
  <2>2. RestOK'  BY <1>1, NodeAssumption DEF LeaveEnd, agentVars, RestOK
  <2> QED  BY <2>1, <2>2
<1>2. CASE AdminDelete(n)
  <2>1. KeptIn(Sound)'  BY <1>2, Left DEF AdminDelete, KeptIn
  <2>2. RestOK'  BY <1>2, Left DEF AdminDelete, agentVars, RestOK
  <2> QED  BY <2>1, <2>2
<1>3. CASE AgentStart(n)
  BY <1>3 DEF AgentStart, masterVars, KeptIn, RestOK
<1>5. CASE AgentDie(n)
  BY <1>5 DEF AgentDie, masterVars, KeptIn, RestOK
<1>4. CASE AgentStop(n)
  BY <1>4 DEF AgentStop, masterVars, KeptIn, RestOK
<1> QED  BY <1>1, <1>2, <1>3, <1>4, <1>5

LEMMA MasterTyped ==
  ASSUME TypeInv,
         \/ DeliverLate \/ LoseLate \/ CheckHeartbeats \/ CheckHealth
         \/ MonitorSave \/ WriteSnapshot
         \/ MasterStop \/ MasterExit \/ MasterStart \/ Tick \/ NetHeals
  PROVE  TypeInv'
<1> USE DEF TypeInv
<1>1. CASE DeliverLate
  <2>1. PICK m \in late :
          /\ late' = late \ {m}
          /\ CASE m[1] = "join"  -> HandleJoin(m[2]) /\ UNCHANGED leaving
               [] m[1] = "beat"  -> HandleHeartbeat(m[2]) /\ UNCHANGED leaving
               [] m[1] = "leave" -> LeaveBegin(m[2])
    BY <1>1 DEF DeliverLate
  <2>2. m[1] \in {"join", "beat", "leave"} /\ m[2] \in Node  BY DEF RestOK
  <2>3. nodes' \in Registries(Sound) /\ leaving' \in [Node -> 0 .. MaxLeaves]
    <3>1. CASE m[1] = "join"
      BY <2>1, <2>2, <3>1, Handled DEF KeptIn, RestOK
    <3>2. CASE m[1] = "beat"
      BY <2>1, <2>2, <3>2, Handled DEF KeptIn, RestOK
    <3>3. CASE m[1] = "leave"
      BY <2>1, <2>2, <3>3, Left
    <3> QED  BY <2>2, <3>1, <3>2, <3>3
  <2> QED  BY <1>1, <2>1, <2>3 DEF DeliverLate, agentVars, KeptIn, RestOK
<1>2. CASE LoseLate \/ NetHeals
  BY <1>2 DEF LoseLate, NetHeals, masterVars, agentVars, KeptIn, RestOK
<1>3. CASE CheckHeartbeats
  <2>1. nodes' \in Registries(Sound)  BY <1>3, Checked DEF KeptIn
  <2> QED  BY <1>3, <2>1 DEF CheckHeartbeats, agentVars, KeptIn, RestOK
<1>4. CASE CheckHealth
  BY <1>4 DEF CheckHealth, Degraded, agentVars, KeptIn, RestOK
<1>5. CASE MonitorSave \/ MasterStop
  BY <1>5 DEF MonitorSave, MasterStop, agentVars, KeptIn, RestOK, Saver
<1>6. CASE WriteSnapshot
  BY <1>6 DEF WriteSnapshot, agentVars, KeptIn, RestOK, Saver
<1>7. CASE MasterExit
  <2>1. Empty \in Registries(Sound)  BY SoundIsTyped
  <2>2. KeptIn(Sound)'  BY <1>7, <2>1 DEF MasterExit, KeptIn
  <2>3. leaving' \in [Node -> 0 .. MaxLeaves] /\ mode' \in {"up", "stopping", "down"}
    BY <1>7, NodeAssumption DEF MasterExit
  <2>4. unhealthy' \in BOOLEAN /\ UNCHANGED <<at, running, joined, fails, late, lossy>>
    BY <1>7 DEF MasterExit, agentVars
  <2> QED  BY <2>2, <2>3, <2>4 DEF RestOK
<1>8. CASE MasterStart
  <2>1. Empty \in Registries(Sound)  BY SoundIsTyped
  <2> QED  BY <1>8, <2>1 DEF MasterStart, LoadRegistrySnapshot, agentVars, KeptIn, RestOK
<1>9. CASE Tick
  <2>1. KeptIn(Sound)'  BY <1>9, AgedRegistry DEF Tick, KeptIn
  <2> QED  BY <1>9, <2>1 DEF Tick, agentVars, RestOK
<1> QED  BY <1>1, <1>2, <1>3, <1>4, <1>5, <1>6, <1>7, <1>8, <1>9

LEMMA TypeStep == TypeInv /\ [Next]_vars => TypeInv'
<1> SUFFICES ASSUME TypeInv, [Next]_vars  PROVE TypeInv'  OBVIOUS
<1>1. CASE UNCHANGED vars
  BY <1>1 DEF vars, masterVars, agentVars, TypeInv, KeptIn, RestOK
<1>2. CASE Next
  BY <1>2, ThreadTyped, OperatorTyped, MasterTyped DEF Next
<1> QED  BY <1>1, <1>2

(* Type correctness of the registry, its snapshots and the agents.           *)
THEOREM TypeCorrect == Spec => []TypeOK
<1>1. Spec => []TypeInv  BY TypeStart, TypeStep, PTL DEF Spec
<1> QED  BY <1>1, TypeInvTypes, PTL

-----------------------------------------------------------------------------
(* Trust.                                                                  *)

TrustInv == TypeInv /\ LeaversOnly /\ Trust

LEMMA TrustStart == Init => TrustInv
<1> SUFFICES ASSUME Init  PROVE TrustInv  OBVIOUS
<1>1. LeaversOnly  BY DEF Init, LeaversOnly
<1>2. Trust  BY SoundIsTyped DEF Init, Trust, Empty
<1> QED  BY <1>1, <1>2, TypeStart DEF TrustInv

LEMMA LeaversStep ==
  ASSUME TypeInv, LeaversOnly, [Next]_vars
  PROVE  LeaversOnly'
<1> USE DEF LeaversOnly
<1>1. CASE UNCHANGED <<leaving, late>>  BY <1>1
<1>2. ASSUME NEW n \in Node, LeaveEnd(n)  PROVE LeaversOnly'
  BY <1>2 DEF LeaveEnd, TypeInv, RestOK
<1>3. ASSUME NEW n \in Node, AdminDelete(n)  PROVE LeaversOnly'
  BY <1>3, Left DEF AdminDelete
<1>4. ASSUME NEW n \in Node, AgentStop(n)  PROVE LeaversOnly'
  BY <1>4 DEF AgentStop, masterVars
<1>5. ASSUME NEW n \in Node, CallFails(n)  PROVE LeaversOnly'
  BY <1>5 DEF CallFails, JoinFails, BeatFails, RejoinFails, Unanswered
<1>6. CASE DeliverLate
  <2>1. PICK m \in late :
          /\ late' = late \ {m}
          /\ CASE m[1] = "join"  -> HandleJoin(m[2]) /\ UNCHANGED leaving
               [] m[1] = "beat"  -> HandleHeartbeat(m[2]) /\ UNCHANGED leaving
               [] m[1] = "leave" -> LeaveBegin(m[2])
    BY <1>6 DEF DeliverLate
  <2>2. m[1] \in {"join", "beat", "leave"} /\ m[2] \in Node  BY DEF TypeInv, RestOK
  <2>3. CASE m[1] = "leave"  BY <2>1, <2>2, <2>3, Left
  <2>4. CASE m[1] # "leave"  BY <2>1, <2>2, <2>4
  <2> QED  BY <2>3, <2>4
<1>7. CASE LoseLate  BY <1>7 DEF LoseLate, masterVars
<1>8. CASE MasterExit  BY <1>8 DEF MasterExit
<1>9. ASSUME NEW n \in Node, AgentThread(n), ~CallFails(n)  PROVE LeaversOnly'
  BY <1>9 DEF AgentThread, Join, BeatStart, Beat, BeatRefused, Rejoin, masterVars
<1>10. ASSUME NEW n \in Node, AgentStart(n) \/ AgentDie(n)  PROVE LeaversOnly'
  BY <1>10 DEF AgentStart, AgentDie, masterVars
<1>11. CASE \/ CheckHeartbeats \/ CheckHealth \/ MonitorSave \/ WriteSnapshot
            \/ MasterStop \/ MasterStart \/ Tick \/ NetHeals
  BY <1>11 DEF CheckHeartbeats, CheckHealth, MonitorSave, WriteSnapshot, MasterStop,
     MasterStart, Tick, NetHeals, masterVars
<1>12. CASE UNCHANGED vars  BY <1>12 DEF vars, masterVars
<1> QED
  BY <1>2, <1>3, <1>4, <1>5, <1>6, <1>7, <1>8, <1>9, <1>10, <1>11, <1>12 DEF Next

(* Nothing is kept on disk, or nobody is inside a leave.                     *)
LEMMA NobodyLeaves ==
  ASSUME NoLeaveOnDisk, TrustInv, Persist
  PROVE  nodes \in Registries(Clean)
<1>1. \A n \in Node : leaving[n] = 0
  BY DEF NoLeaveOnDisk, TrustInv, LeaversOnly, TypeInv, RestOK
<1> QED  BY <1>1 DEF TrustInv, TypeInv, KeptIn, Trust, Registries

(* A step of a handler or the monitor leaves a clean record clean.           *)
LEMMA CleanStays ==
  ASSUME TrustInv, UNCHANGED <<leaving, disk, saving>>,
         \A m \in Node : nodes[m] \in Clean \cup {None} => nodes'[m] \in Clean \cup {None}
  PROVE  Trust'
  BY DEF TrustInv, Trust

LEMMA TrustStep ==
  ASSUME NoLeaveOnDisk, TrustInv, [Next]_vars
  PROVE  Trust'
<1> USE DEF TrustInv
<1>1. CASE UNCHANGED <<nodes, leaving, disk, saving>>  BY <1>1 DEF Trust
<1>2. ASSUME NEW n \in Node, AgentThread(n)  PROVE Trust'
  <2>1. CASE Join(n) \/ Beat(n) \/ Rejoin(n)
    <3>1. HandleJoin(n) \/ HandleHeartbeat(n)  BY <2>1 DEF Join, Beat, Rejoin
    <3>2. UNCHANGED <<leaving, disk, saving>>  BY <2>1 DEF Join, Beat, Rejoin
    <3> QED  BY <3>1, <3>2, Handled, CleanStays DEF TypeInv, KeptIn
  <2>2. CASE BeatStart(n) \/ BeatRefused(n) \/ CallFails(n)
    BY <1>1, <2>2 DEF BeatStart, BeatRefused, CallFails, JoinFails, BeatFails, RejoinFails,
       Unanswered, masterVars
  <2> QED  BY <1>2, <2>1, <2>2 DEF AgentThread
<1>3. ASSUME NEW n \in Node, LeaveEnd(n)  PROVE Trust'
  <2>1. /\ nodes'[n] = None /\ UNCHANGED <<disk, saving>>
        /\ \A m \in Node : m # n => nodes'[m] = nodes[m] /\ leaving'[m] = leaving[m]
    BY <1>3 DEF LeaveEnd, TypeInv, KeptIn, RestOK, Registries
  <2> QED  BY <2>1 DEF Trust
<1>4. ASSUME NEW n \in Node, LeaveBegin(n), UNCHANGED <<disk, saving>>  PROVE Trust'
  BY <1>4, Left DEF Trust
<1>5. ASSUME NEW n \in Node, AdminDelete(n)  PROVE Trust'
  BY <1>4, <1>5 DEF AdminDelete
<1>6. CASE DeliverLate
  <2>1. PICK m \in late :
          /\ late' = late \ {m}
          /\ CASE m[1] = "join"  -> HandleJoin(m[2]) /\ UNCHANGED leaving
               [] m[1] = "beat"  -> HandleHeartbeat(m[2]) /\ UNCHANGED leaving
               [] m[1] = "leave" -> LeaveBegin(m[2])
    BY <1>6 DEF DeliverLate
  <2>2. m[1] \in {"join", "beat", "leave"} /\ m[2] \in Node  BY DEF TypeInv, RestOK
  <2>3. UNCHANGED <<disk, saving>>  BY <1>6 DEF DeliverLate
  <2>4. CASE m[1] = "leave"  BY <1>4, <2>1, <2>2, <2>3, <2>4
  <2>5. CASE m[1] # "leave"
    <3>1. HandleJoin(m[2]) \/ HandleHeartbeat(m[2])  BY <2>1, <2>2, <2>5
    <3>2. UNCHANGED leaving  BY <2>1, <2>2, <2>5
    <3> QED  BY <2>2, <2>3, <3>1, <3>2, Handled, CleanStays DEF TypeInv, KeptIn
  <2> QED  BY <2>4, <2>5
<1>7. CASE CheckHeartbeats
  <2>1. UNCHANGED <<leaving, disk, saving>>  BY <1>7 DEF CheckHeartbeats
  <2> QED  BY <1>7, <2>1, Checked, CleanStays DEF TypeInv, KeptIn
<1>8. CASE MonitorSave \/ MasterStop
  <2>1. UNCHANGED <<nodes, leaving, disk>>  BY <1>8 DEF MonitorSave, MasterStop
  <2>2. CASE Persist
    <3>1. \E w \in Saver : saving' = [saving EXCEPT ![w] = {nodes}]
      BY <1>8, <2>2 DEF MonitorSave, MasterStop, Saver
    <3> QED  BY <2>1, <2>2, <3>1, NobodyLeaves DEF Trust
  <2>3. CASE ~Persist
    <3>1. saving' = [saving EXCEPT !["stop"] = {}]
      BY <1>8, <2>3 DEF MonitorSave, MasterStop
    <3> QED  BY <2>1, <2>3, <3>1 DEF Trust
  <2> QED  BY <2>2, <2>3
<1>9. CASE WriteSnapshot
  <2>1. PICK w \in Saver : \E payload \in saving[w] :
          disk' \in {payload, disk} /\ saving' = [saving EXCEPT ![w] = {}]
    BY <1>9 DEF WriteSnapshot
  <2>2. saving[w] \subseteq Registries(Clean)  BY DEF Trust
  <2>3. UNCHANGED <<nodes, leaving>>  BY <1>9 DEF WriteSnapshot
  <2> QED  BY <2>1, <2>2, <2>3 DEF Trust
<1>10. CASE MasterExit
  <2>1. \A n \in Node : nodes'[n] = None  BY <1>10 DEF MasterExit, Empty
  <2>2. UNCHANGED disk /\ saving' = [w \in Saver |-> {}]  BY <1>10 DEF MasterExit
  <2> QED  BY <2>1, <2>2 DEF Trust
<1>11. CASE MasterStart
  <2>1. nodes' \in Registries(Clean)
    BY <1>11, SoundIsTyped DEF MasterStart, LoadRegistrySnapshot, Trust
  <2>2. UNCHANGED <<leaving, disk, saving>>  BY <1>11 DEF MasterStart
  <2> QED  BY <2>1, <2>2 DEF Trust, Registries
<1>12. CASE Tick
  <2>1. \A n \in Node : nodes[n] \in Clean \cup {None} => nodes'[n] \in Clean \cup {None}
    BY <1>12, AgedRegistry DEF Tick
  <2>2. disk' \in Registries(Clean)  BY <1>12, AgedRegistry DEF Tick, Trust
  <2>3. saving' \in [Saver -> SUBSET Registries(Clean)]
    BY <1>12, AgedRegistry DEF Tick, Trust
  <2>4. ~Persist => \A w \in Saver : saving'[w] = {}  BY <1>12 DEF Tick, Trust
  <2>5. UNCHANGED leaving  BY <1>12 DEF Tick
  <2> QED  BY <2>1, <2>2, <2>3, <2>4, <2>5 DEF Trust
<1>13. ASSUME NEW n \in Node, AgentStart(n) \/ AgentStop(n) \/ AgentDie(n)  PROVE Trust'
  BY <1>1, <1>13 DEF AgentStart, AgentStop, AgentDie, masterVars
<1>14. CASE LoseLate \/ CheckHealth \/ NetHeals
  BY <1>1, <1>14 DEF LoseLate, CheckHealth, NetHeals, masterVars
<1>15. CASE UNCHANGED vars  BY <1>1, <1>15 DEF vars, masterVars
<1> QED
  BY <1>2, <1>3, <1>5, <1>6, <1>7, <1>8, <1>9, <1>10, <1>11, <1>12, <1>13, <1>14, <1>15
  DEF Next

(* A node that keeps dying is trusted again only after a quarantine served   *)
(* to its end, over heartbeats, re-joins, late requests, and restarts from   *)
(* disk, in a cluster whose nodes do not leave or whose registry is not kept.*)
(* With both, a snapshot taken between the two halves of a leave can hold a  *)
(* record that a re-join has just made alive, and a restart brings it back.  *)
THEOREM FlappersAreNotTrusted ==
  ASSUME NoLeaveOnDisk
  PROVE  Spec => []FlapperNotTrusted
<1>1. TrustInv /\ [Next]_vars => TrustInv'
  BY TypeStep, LeaversStep, TrustStep DEF TrustInv
<1>2. TrustInv => FlapperNotTrusted
  BY DEF TrustInv, Trust, FlapperNotTrusted, Alive, Has, Clean
<1> QED  BY TrustStart, <1>1, <1>2, PTL DEF Spec

=============================================================================
