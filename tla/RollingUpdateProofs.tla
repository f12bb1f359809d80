------------------------- MODULE RollingUpdateProofs -------------------------
(***************************************************************************)
(* RollingUpdate, for any finite set of nodes, any batch size and gate, and *)
(* any number of rollouts: batches exclude each other, "done" means all,    *)
(* and after a failure nobody else is touched.                             *)
(***************************************************************************)
EXTENDS RollingUpdate, FiniteSetTheorems, TLAPS

(* The thread of a rollout lives exactly as long as its phase is active.     *)
OneThread == pc = "off" <=> phase \notin Active

(* Nodes are worked on only while the thread waits for their batch.          *)
AtWork ==
  /\ \A n \in Node : worker[n] # "off" => n \in batch
  /\ pc # "join" => batch = {}
  /\ Cardinality(batch) <= BatchSize

(* What the outcomes say of the rollout under way: before the batches are    *)
(* made there are none, a pending node is still to come or being worked on,  *)
(* and a failed one belongs to the batch under way.                          *)
Accounted ==
  /\ pc = "begin" => \A n \in Node : outcome[n] = "none"
  /\ pc \notin {"off", "begin"} => \A n \in Node :
       /\ outcome[n] = "pending" => n \in todo \/ worker[n] # "off"
       /\ outcome[n] = "failed" => n \in batch

IInv == TypeOK /\ OneThread /\ AtWork /\ Accounted /\ DoneMeansAll

(* The stages between batches: a rollout is under way, no node is worked on. *)
Inside == Stages \ {"off", "begin", "join"}

-----------------------------------------------------------------------------
LEMMA NoNodes == Cardinality({}) = 0
  BY FS_EmptySet

LEMMA BatchesFinite ==
  ASSUME NEW b \in SUBSET Node
  PROVE  IsFiniteSet(b) /\ Cardinality(b) \in Nat
  BY NodeAssumption, FS_Subset, FS_CardinalityType

LEMMA StartInvariant == Init => IInv
<1> SUFFICES ASSUME Init  PROVE IInv  OBVIOUS
<1>1. TypeOK
  <2>1. status \in [Node -> Statuses]  BY DEF Init, Statuses
  <2>2. changes \in 0 .. MaxChanges /\ rollouts \in 0 .. MaxRollouts
    BY ParameterAssumption DEF Init
  <2>3. /\ phase \in {"idle"} \cup Active \cup Ended
        /\ paused \in BOOLEAN /\ aborted \in BOOLEAN /\ pc \in Stages
    BY DEF Init, Stages
  <2>4. /\ outcome \in [Node -> {"none", "pending", "updated", "failed"}]
        /\ todo \subseteq Node /\ first \subseteq Node /\ batch \subseteq Node
        /\ worker \in [Node -> {"off", "updating", "waiting"}]
    BY DEF Init
  <2> QED  BY <2>1, <2>2, <2>3, <2>4 DEF TypeOK
<1>2. OneThread /\ Accounted /\ DoneMeansAll
  BY DEF Init, OneThread, Accounted, DoneMeansAll, Active
<1>3. AtWork  BY NoNodes, ParameterAssumption DEF Init, AtWork
<1> QED  BY <1>1, <1>2, <1>3 DEF IInv

(* The rollout goes on, or its phase changes, and nothing else.              *)
LEMMA MovesOn ==
  ASSUME IInv, UNCHANGED work, UNCHANGED registry, UNCHANGED rollouts,
         pc \in Inside, pc' \in Inside, phase' \in Active,
         paused' \in BOOLEAN, aborted' \in BOOLEAN
  PROVE  IInv'
<1>1. TypeOK'
  BY DEF IInv, TypeOK, work, registry, Inside, Active, Stages
<1>2. OneThread' /\ DoneMeansAll'
  BY DEF OneThread, DoneMeansAll, Inside, Active
<1>3. AtWork'  BY DEF IInv, AtWork, Inside, work
<1>4. Accounted'  BY DEF IInv, Accounted, Inside, work
<1> QED  BY <1>1, <1>2, <1>3, <1>4 DEF IInv

(* The rollout ends between two batches.                                     *)
LEMMA EndsWith ==
  ASSUME IInv, NEW p \in Ended, Over(p), Idle, pc \in Inside,
         p = "done" => todo = {}
  PROVE  IInv'
<1>1. TypeOK'
  BY DEF IInv, TypeOK, Over, Idle, Enters, work, registry, Ended, Stages
<1>2. OneThread'  BY DEF OneThread, Over, Enters, Ended, Active
<1>3. AtWork'  BY DEF IInv, AtWork, Over, Inside, work
<1>4. Accounted'  BY DEF Accounted, Over
<1>5. DoneMeansAll'
  <2> SUFFICES ASSUME p = "done", NEW n \in Node  PROVE outcome[n] \in {"none", "updated"}
    BY DEF DoneMeansAll, Over, Enters, work
  <2>1. batch = {} /\ todo = {} /\ worker[n] = "off"
    BY DEF IInv, AtWork, Inside
  <2>2. outcome[n] # "pending" /\ outcome[n] # "failed"
    BY <2>1 DEF IInv, Accounted, Inside
  <2> QED  BY <2>2 DEF IInv, TypeOK
<1> QED  BY <1>1, <1>2, <1>3, <1>4, <1>5 DEF IInv

-----------------------------------------------------------------------------
LEMMA CallsKeep ==
  ASSUME IInv, StartRollout \/ Pause \/ Resume \/ Abort
  PROVE  IInv'
<1>1. CASE StartRollout
  <2>1. pc = "off" /\ batch = {}
    BY <1>1 DEF StartRollout, IInv, OneThread, AtWork
  <2>2. TypeOK'
    <3>1. rollouts' \in 0 .. MaxRollouts
      BY <1>1, ParameterAssumption DEF StartRollout, IInv, TypeOK
    <3>2. /\ phase' \in {"idle"} \cup Active \cup Ended
          /\ paused' \in BOOLEAN /\ aborted' \in BOOLEAN /\ pc' \in Stages
      BY <1>1 DEF StartRollout, Active, Stages
    <3>3. outcome' \in [Node -> {"none", "pending", "updated", "failed"}]
      BY <1>1 DEF StartRollout
    <3> QED  BY <1>1, <3>1, <3>2, <3>3 DEF StartRollout, IInv, TypeOK, registry
  <2>3. OneThread' /\ DoneMeansAll' /\ Accounted'
    BY <1>1 DEF StartRollout, OneThread, DoneMeansAll, Accounted, Active
  <2>4. AtWork'  BY <1>1, <2>1 DEF StartRollout, IInv, AtWork
  <2> QED  BY <2>2, <2>3, <2>4 DEF IInv
<1>2. CASE Pause \/ Resume \/ Abort
  <2>1. /\ UNCHANGED work /\ UNCHANGED registry /\ UNCHANGED pc /\ UNCHANGED rollouts
        /\ phase \in Active /\ phase' \in Active
        /\ paused' \in BOOLEAN /\ aborted' \in BOOLEAN
    BY <1>2 DEF Pause, Resume, Abort, IInv, TypeOK, Active
  <2>2. TypeOK'  BY <2>1 DEF IInv, TypeOK, work, registry, Active
  <2>3. OneThread' /\ DoneMeansAll'  BY <2>1 DEF IInv, OneThread, DoneMeansAll, Active
  <2>4. AtWork' /\ Accounted'  BY <2>1 DEF IInv, AtWork, Accounted, work
  <2> QED  BY <2>2, <2>3, <2>4 DEF IInv
<1> QED  BY <1>1, <1>2

LEMMA ThreadKeeps ==
  ASSUME IInv, RolloutThread
  PROVE  IInv'
<1>0. paused \in BOOLEAN /\ aborted \in BOOLEAN  BY DEF IInv, TypeOK
<1>1. CASE Begin
  <2>1. /\ batch = {} /\ pc = "begin" /\ phase \in Active
        /\ \A n \in Node : outcome[n] = "none" /\ worker[n] = "off"
    BY <1>1 DEF Begin, IInv, AtWork, Accounted, OneThread
  <2>2. CASE Eligible = {}
    <3>1. Over("done") /\ Idle  BY <1>1, <2>2 DEF Begin
    <3>2. TypeOK'
      BY <3>1 DEF IInv, TypeOK, Over, Idle, Enters, work, registry, Ended, Stages
    <3>3. OneThread' /\ Accounted'
      BY <3>1 DEF OneThread, Accounted, Over, Enters, Active
    <3>4. AtWork' /\ DoneMeansAll'
      BY <2>1, <3>1 DEF IInv, AtWork, DoneMeansAll, Over, work
    <3> QED  BY <3>2, <3>3, <3>4 DEF IInv
  <2>3. CASE Eligible # {}
    <3>1. /\ pc' = "next" /\ UNCHANGED <<phase, paused, aborted, batch, worker>>
          /\ UNCHANGED registry /\ UNCHANGED rollouts
          /\ outcome' = [n \in Node |-> IF n \in Eligible THEN "pending" ELSE "none"]
          /\ todo' = Eligible /\ Eligible \subseteq Node /\ first' \subseteq Node
      BY <1>1, <2>3 DEF Begin, Idle, control, Eligible
    <3>2. TypeOK'  BY <3>1 DEF IInv, TypeOK, registry, Stages
    <3>3. OneThread' /\ DoneMeansAll'
      BY <2>1, <3>1 DEF OneThread, DoneMeansAll, Active
    <3>4. AtWork'  BY <2>1, <3>1 DEF IInv, AtWork
    <3>5. Accounted'  BY <3>1 DEF Accounted
    <3> QED  BY <3>2, <3>3, <3>4, <3>5 DEF IInv
  <2> QED  BY <2>2, <2>3
<1>2. CASE Finish
  BY <1>2, EndsWith DEF Finish, Inside, Stages, Ended
<1>3. ASSUME pc = "next" \/ pc = "pauseAbort" \/ pc = "gateAbort", Over("aborted"), Idle
      PROVE  IInv'
  BY <1>3, EndsWith DEF Inside, Stages, Ended
<1>4. ASSUME pc \in Inside, pc' \in Inside, Idle, UNCHANGED <<control, work>>
      PROVE  IInv'
  <2>1. phase \in Active  BY <1>4 DEF IInv, OneThread, Inside
  <2>2. /\ UNCHANGED work /\ UNCHANGED registry /\ UNCHANGED rollouts
        /\ phase' \in Active /\ paused' \in BOOLEAN /\ aborted' \in BOOLEAN
    BY <1>0, <1>4, <2>1 DEF Idle, control
  <2> QED  BY <1>4, <2>2, MovesOn
<1>5. ASSUME NEW p \in Active, pc \in Inside, pc' \in Inside, Enters(p), Idle,
             UNCHANGED work
      PROVE  IInv'
  <2>1. /\ UNCHANGED registry /\ UNCHANGED rollouts
        /\ phase' \in Active /\ paused' \in BOOLEAN /\ aborted' \in BOOLEAN
    BY <1>0, <1>5 DEF Enters, Idle
  <2> QED  BY <1>5, <2>1, MovesOn
<1>6. CASE AbortCheck \/ PauseAbort \/ GateAbort
  BY <1>6, <1>3, <1>4 DEF AbortCheck, PauseAbort, GateAbort, Inside, Stages, Goes
<1>7. CASE PauseCheck \/ PauseLoop \/ Gate \/ GateLoop
  BY <1>7, <1>4 DEF PauseCheck, PauseLoop, Gate, GateLoop, Inside, Stages
<1>8. CASE EnterPause \/ CloseGate \/ OpenGate
  BY <1>8, <1>5 DEF EnterPause, CloseGate, OpenGate, Goes, Inside, Stages, Active
<1>9. CASE Launch
  <2>1. PICK b \in SUBSET todo :
          /\ NextBatch(b)
          /\ pc = "launch" /\ pc' = "join"
          /\ batch' = b /\ todo' = todo \ b
          /\ worker' = [n \in Node |-> IF n \in b THEN "updating" ELSE worker[n]]
          /\ Idle /\ UNCHANGED <<control, outcome, first>>
    BY <1>9 DEF Launch, Goes
  <2>2. b \subseteq Node /\ Cardinality(b) \in Nat /\ Cardinality(b) <= BatchSize
    <3>1. b \subseteq Node  BY DEF IInv, TypeOK
    <3>2. Cardinality(b) \in Nat  BY <3>1, BatchesFinite
    <3>3. Cardinality(b) = BatchSize \/ Cardinality(b) < BatchSize
      BY <2>1 DEF NextBatch
    <3> QED  BY <3>1, <3>2, <3>3, ParameterAssumption
  <2>3. batch = {} /\ phase \in Active /\ \A n \in Node : worker[n] = "off"
    BY <2>1 DEF IInv, AtWork, OneThread
  <2>4. TypeOK'
    BY <2>1, <2>2 DEF IInv, TypeOK, Idle, registry, control, Stages
  <2>5. OneThread' /\ DoneMeansAll'
    BY <2>1, <2>3 DEF OneThread, DoneMeansAll, control, Active
  <2>6. AtWork'  BY <2>1, <2>2, <2>3 DEF AtWork
  <2>7. Accounted'  BY <2>1, <2>2, <2>3 DEF IInv, Accounted
  <2> QED  BY <2>4, <2>5, <2>6, <2>7 DEF IInv
<1>10. CASE Join
  <2>1. /\ pc = "join" /\ Idle /\ batch' = {}
        /\ UNCHANGED <<outcome, todo, first, worker>>
        /\ \A n \in batch : worker[n] = "off"
        /\ phase \in Active
    BY <1>10 DEF Join, Joined, IInv, OneThread
  <2>2. \A n \in Node : worker[n] = "off"  BY <2>1 DEF IInv, AtWork
  <2>3. AtWork'  BY <2>1, <2>2, NoNodes, ParameterAssumption DEF AtWork
  <2>4. CASE Failed /\ pc' = "off" /\ Enters("failed")
    <3>1. TypeOK'
      BY <2>1, <2>4 DEF IInv, TypeOK, Idle, Enters, registry, Ended, Stages
    <3>2. OneThread' /\ DoneMeansAll' /\ Accounted'
      BY <2>4 DEF OneThread, DoneMeansAll, Accounted, Enters, Active
    <3> QED  BY <2>3, <3>1, <3>2 DEF IInv
  <2>5. CASE ~Failed /\ pc' = "next" /\ UNCHANGED control
    <3>1. TypeOK'
      BY <2>1, <2>5 DEF IInv, TypeOK, Idle, registry, control, Stages
    <3>2. OneThread' /\ DoneMeansAll'
      BY <2>1, <2>5 DEF OneThread, DoneMeansAll, control, Active
    <3>3. Accounted'
      BY <2>1, <2>2, <2>5 DEF IInv, Accounted, Failed
    <3> QED  BY <2>3, <3>1, <3>2, <3>3 DEF IInv
  <2> QED  BY <1>10, <2>4, <2>5 DEF Join
<1> QED
  BY <1>1, <1>2, <1>6, <1>7, <1>8, <1>9, <1>10 DEF RolloutThread

LEMMA WorkersKeep ==
  ASSUME IInv, NEW n \in Node, Worker(n)
  PROVE  IInv'
<1>1. pc = "join" /\ n \in batch /\ phase \in Active /\ worker[n] # "off"
  BY DEF Worker, UpdateReturns, UpdateRaises, NodeBack, NodeLate, IInv, AtWork, OneThread
<1>2. CASE UpdateReturns(n)
  <2>1. TypeOK'  BY <1>2 DEF UpdateReturns, IInv, TypeOK, registry, control
  <2>2. OneThread' /\ DoneMeansAll'
    BY <1>1, <1>2 DEF UpdateReturns, OneThread, DoneMeansAll, control, Active
  <2>3. AtWork' /\ Accounted'
    BY <1>1, <1>2 DEF UpdateReturns, IInv, TypeOK, AtWork, Accounted
  <2> QED  BY <2>1, <2>2, <2>3 DEF IInv
<1>3. ASSUME NEW r \in {"updated", "failed"}, Worked(n, r)  PROVE IInv'
  <2>1. TypeOK'  BY <1>3 DEF Worked, IInv, TypeOK, registry, control
  <2>2. OneThread' /\ DoneMeansAll'
    BY <1>1, <1>3 DEF Worked, OneThread, DoneMeansAll, control, Active
  <2>3. AtWork' /\ Accounted'
    BY <1>1, <1>3 DEF Worked, IInv, TypeOK, AtWork, Accounted
  <2> QED  BY <2>1, <2>2, <2>3 DEF IInv
<1> QED  BY <1>2, <1>3 DEF Worker, UpdateRaises, NodeBack, NodeLate

LEMMA RegistryKeeps ==
  ASSUME IInv, NEW n \in Node, StatusChanges(n)
  PROVE  IInv'
<1>1. status[n] \in Statuses  BY DEF IInv, TypeOK
<1>2. Follows(status[n]) \subseteq Statuses  BY <1>1 DEF Follows, Statuses
<1>3. TypeOK'
  BY <1>2, ParameterAssumption DEF StatusChanges, IInv, TypeOK, control, work
<1>4. OneThread' /\ AtWork' /\ Accounted' /\ DoneMeansAll'
  BY DEF StatusChanges, IInv, OneThread, AtWork, Accounted, DoneMeansAll, control, work
<1> QED  BY <1>3, <1>4 DEF IInv

LEMMA Inductive == IInv /\ [Next]_vars => IInv'
<1>1. ASSUME IInv, Next  PROVE IInv'
  BY <1>1, CallsKeep, ThreadKeeps, WorkersKeep, RegistryKeeps DEF Next
<1>2. ASSUME IInv, UNCHANGED vars  PROVE IInv'
  BY <1>2 DEF vars, IInv, TypeOK, OneThread, AtWork, Accounted, DoneMeansAll
<1> QED  BY <1>1, <1>2

LEMMA Invariance == Spec => []IInv
  BY StartInvariant, Inductive, PTL DEF Spec

-----------------------------------------------------------------------------
(* Type correctness of phase, thread, batches, workers and outcomes          *)
(* (ClusterRollingUpdater), for any nodes and bounds.                        *)
THEOREM TypeCorrect == Spec => []TypeOK
<1>1. IInv => TypeOK  BY DEF IInv
<1> QED  BY <1>1, Invariance, PTL

(* At most batch_size nodes are worked on, and none once a rollout has ended: *)
(* start() may begin the next as soon as the phase is final.                 *)
THEOREM BatchesExclude == Spec => []BatchAtATime
<1> DEFINE busy == {n \in Node : worker[n] # "off"}
<1>1. ASSUME IInv  PROVE BatchAtATime
  <2>1. busy \subseteq batch /\ batch \in SUBSET Node  BY <1>1 DEF IInv, AtWork, TypeOK
  <2>2. /\ IsFiniteSet(batch) /\ Cardinality(batch) \in Nat
        /\ Cardinality(busy) \in Nat /\ Cardinality(busy) <= Cardinality(batch)
    BY <2>1, BatchesFinite, FS_Subset
  <2>3. Cardinality(busy) <= BatchSize
    BY <1>1, <2>2, ParameterAssumption DEF IInv, AtWork
  <2>4. phase \notin Active => busy = {}
    BY <1>1, <2>1 DEF IInv, AtWork, OneThread
  <2> QED  BY <2>3, <2>4 DEF BatchAtATime
<1> QED  BY <1>1, Invariance, PTL

(* A rollout that ends as "done" has updated every node it began with (_run), *)
(* however it was paused, resumed and aborted in between.                    *)
THEOREM DoneIsAll == Spec => []DoneMeansAll
<1>1. IInv => DoneMeansAll  BY DEF IInv
<1> QED  BY <1>1, Invariance, PTL

(* After a node has failed, _run launches nobody else in this rollout.       *)
THEOREM FailuresStop == Spec => FailureStops
<1> DEFINE Stops == (\E n \in Node : outcome[n] = "failed") /\ rollouts' = rollouts
                      => \A n \in Node : worker[n] = "off" => worker'[n] = "off"
<1>1. ASSUME IInv, Next  PROVE Stops
  <2> SUFFICES ASSUME NEW m \in Node, outcome[m] = "failed",
                      NEW n \in Node, worker[n] = "off", worker'[n] # "off"
               PROVE  FALSE
    OBVIOUS
  <2>1. ~Launch
    BY <1>1 DEF Launch, Goes, IInv, AtWork, Accounted
  <2>2. ~(StartRollout \/ Pause \/ Resume \/ Abort)
    BY DEF StartRollout, Pause, Resume, Abort, work
  <2>3. ~RolloutThread
    BY <2>1 DEF RolloutThread, Begin, Finish, AbortCheck, PauseCheck, EnterPause,
       PauseLoop, PauseAbort, Gate, CloseGate, GateLoop, GateAbort, OpenGate, Join,
       Over, work
  <2>4. ASSUME NEW k \in Node, Worker(k) \/ StatusChanges(k)  PROVE FALSE
    BY <1>1, <2>4 DEF Worker, UpdateReturns, UpdateRaises, NodeBack, NodeLate, Worked,
       StatusChanges, work, IInv, TypeOK
  <2> QED  BY <1>1, <2>2, <2>3, <2>4 DEF Next
<1>2. IInv /\ [Next]_vars => [Stops]_vars  BY <1>1
<1> QED  BY <1>2, Invariance, PTL DEF Spec, FailureStops
=============================================================================
