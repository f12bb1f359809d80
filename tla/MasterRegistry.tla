---------------------------- MODULE MasterRegistry ----------------------------
(***************************************************************************)
(* The node registry of a MasterNode (cluster_master.py) and the AgentNodes *)
(* (cluster_agent.py) that keep themselves registered in it.  Actors:      *)
(*                                                                         *)
(*   - one thread per agent: join with retries, then heartbeats;           *)
(*   - the master's HTTP threads: join, heartbeat, leave.  A leave is two  *)
(*     critical sections around the user's on_node_leave callback;         *)
(*   - the master's monitor thread: time-outs, purge, cluster health,      *)
(*     periodic snapshots of the registry to state_file;                   *)
(*   - whoever stops, kills and restarts the master and the agents, and a  *)
(*     network that loses requests or delivers them late.                  *)
(*                                                                         *)
(* Data abstraction.  Timestamps are ages in ticks, which stop counting    *)
(* once no guard can tell them apart; addresses, metadata, metrics, roles  *)
(* and the lifetime counters of a record are left out.                     *)
(***************************************************************************)
EXTENDS Naturals, FiniteSets

CONSTANTS
    Node,           \* node ids
    None,           \* no record
    Timeout,        \* heartbeat_timeout_sec, in ticks
    PurgeAfter,     \* purge_after_sec; 0: None, never purged
    FlapWindow,     \* flap_window_sec
    FlapThreshold,  \* flap_threshold
    Recovery,       \* quarantine_recovery_heartbeats
    MinAliveNum,    \* unhealthy_alive_ratio = MinAliveNum / MinAliveDen;
    MinAliveDen,    \* MinAliveNum = 0: None
    Persist,        \* state_file is configured
    Leaves,         \* nodes that ask, or are asked, to leave
    MaxLeaves       \* bound on the HTTP threads inside a leave of one node

ASSUME NodeAssumption == Leaves \subseteq Node /\ Persist \in BOOLEAN /\ MaxLeaves \in Nat
ASSUME TimeAssumption == Timeout \in Nat \ {0} /\ {PurgeAfter, FlapWindow} \subseteq Nat
ASSUME TrustAssumption == {FlapThreshold, Recovery} \subseteq Nat \ {0}
ASSUME RatioAssumption == MinAliveNum \in Nat /\ MinAliveDen \in Nat \ {0}

SeenCap == (IF PurgeAfter > Timeout THEN PurgeAfter ELSE Timeout) + 1

\* NodeRecord.  recent_deaths is the set of the ages of its entries: two
\* deaths of a node are more than Timeout apart.  Entries older than the
\* window vanish at once here; the code prunes them before it counts.
Record == [status : {"alive", "dead", "quarantined", "leaving"},
           seen   : 0 .. SeenCap,              \* age of last_heartbeat
           deaths : SUBSET (0 .. FlapWindow),  \* recent_deaths
           consec : 0 .. Recovery + 1]         \* consecutive_alive_heartbeats
ASSUME NoneAssumption == None \notin Record
Registry == [Node -> Record \cup {None}]

VARIABLES
    nodes,      \* MasterNode._nodes; None where the id is not registered
    leaving,    \* HTTP threads between the critical sections of _handle_leave
    unhealthy,  \* _cluster_unhealthy
    mode,       \* the master process: "up", "stopping" (inside stop()), "down"
    disk,       \* state_file
    saving,     \* per saving thread, the payload it has built and not written
    at,         \* agent thread: "off", "join", "sleep", "beat", "rejoin", "refresh"
    running,    \* AgentNode._running
    joined,     \* AgentNode._joined
    fails,      \* _consecutive_failures, counted 1, 2, 3, 1, 2, 3, ...
    late,       \* requests their sender gave up on that may still arrive
    lossy       \* requests and replies may get lost

masterVars == <<nodes, leaving, unhealthy, mode, disk, saving>>
agentVars  == <<at, running, joined, fails>>
vars == <<masterVars, agentVars, late, lossy>>

Empty == [n \in Node |-> None]
Saver == {"monitor", "stop"}

Init ==
    /\ nodes = Empty /\ leaving = [n \in Node |-> 0] /\ unhealthy = FALSE
    /\ mode = "up"
    /\ disk = Empty /\ saving = [w \in Saver |-> {}]
    /\ at = [n \in Node |-> "off"] /\ running = [n \in Node |-> FALSE]
    /\ joined = [n \in Node |-> FALSE] /\ fails = [n \in Node |-> 0]
    /\ late = {} /\ lossy = TRUE

Serving == mode # "down"
Has(reg, n, S) == reg[n] # None /\ reg[n].status \in S

-----------------------------------------------------------------------------
(* The HTTP handlers; each critical section of _lock is one step.          *)

Fresh == [status |-> "alive", seen |-> 0, deaths |-> {}, consec |-> 0]

\* A dead node that shows up again: trusted, unless it has died too often.
Revived(r) ==
    IF Cardinality(r.deaths) >= FlapThreshold
    THEN [r EXCEPT !.status = "quarantined", !.consec = 1]
    ELSE [r EXCEPT !.status = "alive"]

AfterJoin(r) ==
    IF r = None THEN Fresh
    ELSE CASE r.status = "dead"    -> Revived([r EXCEPT !.seen = 0])
           [] r.status = "leaving" -> [r EXCEPT !.seen = 0, !.status = "alive"]
           [] OTHER                -> [r EXCEPT !.seen = 0]

\* Mutant: nobody is promoted out of quarantine.
AfterBeat_NoPromotion(r) ==
    CASE r.status = "dead"        -> Revived([r EXCEPT !.seen = 0])
      [] r.status = "quarantined" -> [r EXCEPT !.seen = 0, !.consec = @ + 1]
      [] OTHER                    -> [r EXCEPT !.seen = 0]

\* Mutant: the promotion keeps the old deaths.
AfterBeat_OldDeaths(r) ==
    CASE r.status = "dead"        -> Revived([r EXCEPT !.seen = 0])
      [] r.status = "quarantined" ->
           [r EXCEPT !.seen = 0, !.consec = @ + 1,
                     !.status = IF r.consec + 1 >= Recovery THEN "alive" ELSE @]
      [] OTHER                    -> [r EXCEPT !.seen = 0]

\* Quarantine ends after enough heartbeats in a row, with a clean slate.
AfterBeat(r) ==
    CASE r.status = "dead" -> Revived([r EXCEPT !.seen = 0])
      [] r.status = "quarantined" ->
           IF r.consec + 1 >= Recovery
           THEN [r EXCEPT !.seen = 0, !.consec = @ + 1, !.status = "alive", !.deaths = {}]
           ELSE [r EXCEPT !.seen = 0, !.consec = @ + 1]
      [] OTHER -> [r EXCEPT !.seen = 0]

\* _handle_join never refuses a well-formed request.
HandleJoin(n) == nodes' = [nodes EXCEPT ![n] = AfterJoin(@)]

\* _handle_heartbeat; of an unknown node: 404, nothing changes
HandleHeartbeat(n) ==
    nodes' = IF nodes[n] = None THEN nodes ELSE [nodes EXCEPT ![n] = AfterBeat(@)]

\* _handle_leave up to its callback ...
LeaveBegin(n) ==
    IF nodes[n] = None THEN UNCHANGED <<nodes, leaving>>
    ELSE /\ leaving[n] < MaxLeaves
         /\ nodes' = [nodes EXCEPT ![n].status = "leaving"]
         /\ leaving' = [leaving EXCEPT ![n] = @ + 1]

\* ... and after it: whatever record the id has by now is removed.
LeaveEnd(n) ==
    /\ Serving /\ leaving[n] > 0
    /\ nodes' = [nodes EXCEPT ![n] = None]
    /\ leaving' = [leaving EXCEPT ![n] = @ - 1]
    /\ UNCHANGED <<unhealthy, mode, disk, saving, agentVars, late, lossy>>

\* DELETE /v1/nodes/<id>, sent by an administrator
AdminDelete(n) ==
    /\ Serving /\ n \in Leaves
    /\ LeaveBegin(n)
    /\ UNCHANGED <<unhealthy, mode, disk, saving, agentVars, late, lossy>>

\* A request whose sender timed out reaches the master after all; nobody reads
\* the reply.
DeliverLate ==
    /\ Serving
    /\ \E m \in late :
         /\ late' = late \ {m}
         /\ CASE m[1] = "join"  -> HandleJoin(m[2]) /\ UNCHANGED leaving
              [] m[1] = "beat"  -> HandleHeartbeat(m[2]) /\ UNCHANGED leaving
              [] m[1] = "leave" -> LeaveBegin(m[2])
    /\ UNCHANGED <<unhealthy, mode, disk, saving, agentVars, lossy>>

LoseLate ==
    /\ \E m \in late : late' = late \ {m}
    /\ UNCHANGED <<masterVars, agentVars, lossy>>

-----------------------------------------------------------------------------
(* The agent.  A call is answered at once, or its sender gives up and the  *)
(* request is lost or late; a master that is down refuses the connection.  *)

Unanswered(request) ==
    /\ ~Serving \/ lossy
    /\ UNCHANGED nodes
    /\ \/ UNCHANGED late
       \/ Serving /\ late' = late \cup {request}

\* start()
AgentStart(n) ==
    /\ at[n] = "off"
    /\ at' = [at EXCEPT ![n] = "join"] /\ running' = [running EXCEPT ![n] = TRUE]
    /\ UNCHANGED <<masterVars, joined, fails, late, lossy>>

\* One attempt of _join_with_retry
Join(n) ==
    /\ at[n] = "join" /\ Serving
    /\ HandleJoin(n)
    /\ joined' = [joined EXCEPT ![n] = TRUE]
    /\ at' = [at EXCEPT ![n] = "sleep"]
    /\ UNCHANGED <<leaving, unhealthy, mode, disk, saving, running, fails, late, lossy>>

\* A failed attempt is repeated, up to max_retry times and not after stop();
\* then the heartbeats start anyway.
JoinFails(n) ==
    /\ at[n] = "join"
    /\ Unanswered(<<"join", n>>)
    /\ \/ running[n] /\ UNCHANGED at
       \/ at' = [at EXCEPT ![n] = "sleep"]
    /\ UNCHANGED <<leaving, unhealthy, mode, disk, saving, running, joined, fails, lossy>>

\* _heartbeat_loop: stop() is looked at here and nowhere else in the thread.
BeatStart(n) ==
    /\ at[n] = "sleep"
    /\ at' = [at EXCEPT ![n] = IF running[n] THEN "beat" ELSE "off"]
    /\ UNCHANGED <<masterVars, running, joined, fails, late, lossy>>

FailsNext(f) == IF f = 3 THEN 1 ELSE f + 1

\* _send_heartbeat, accepted: after failures the agent registers once more.
Beat(n) ==
    /\ at[n] = "beat" /\ Serving /\ nodes[n] # None
    /\ HandleHeartbeat(n)
    /\ fails' = [fails EXCEPT ![n] = 0]
    /\ at' = [at EXCEPT ![n] = IF fails[n] > 0 THEN "refresh" ELSE "sleep"]
    /\ UNCHANGED <<leaving, unhealthy, mode, disk, saving, running, joined, late, lossy>>

\* Mutant: an agent the master does not know keeps sending heartbeats.
BeatRefused_NoRejoin(n) ==
    /\ at[n] = "beat" /\ Serving /\ nodes[n] = None
    /\ fails' = [fails EXCEPT ![n] = FailsNext(@)]
    /\ at' = [at EXCEPT ![n] = "sleep"]
    /\ UNCHANGED <<masterVars, running, joined, late, lossy>>

\* _send_heartbeat, 404: every third failure in a row, if the master answered
\* that one, starts a re-join.
BeatRefused(n) ==
    /\ at[n] = "beat" /\ Serving /\ nodes[n] = None
    /\ fails' = [fails EXCEPT ![n] = FailsNext(@)]
    /\ at' = [at EXCEPT ![n] = IF fails'[n] = 3 THEN "rejoin" ELSE "sleep"]
    /\ UNCHANGED <<masterVars, running, joined, late, lossy>>

BeatFails(n) ==
    /\ at[n] = "beat"
    /\ Unanswered(<<"beat", n>>)
    /\ fails' = [fails EXCEPT ![n] = FailsNext(@)]
    /\ at' = [at EXCEPT ![n] = "sleep"]
    /\ UNCHANGED <<leaving, unhealthy, mode, disk, saving, running, joined, lossy>>

\* The join after a heartbeat; only the one after failures sets _joined, and
\* neither looks at _running.
Rejoin(n) ==
    /\ at[n] \in {"rejoin", "refresh"} /\ Serving
    /\ HandleJoin(n)
    /\ joined' = [joined EXCEPT ![n] = @ \/ at[n] = "rejoin"]
    /\ at' = [at EXCEPT ![n] = "sleep"]
    /\ UNCHANGED <<leaving, unhealthy, mode, disk, saving, running, fails, late, lossy>>

RejoinFails(n) ==
    /\ at[n] \in {"rejoin", "refresh"}
    /\ Unanswered(<<"join", n>>)
    /\ at' = [at EXCEPT ![n] = "sleep"]
    /\ UNCHANGED <<leaving, unhealthy, mode, disk, saving, running, joined, fails, lossy>>

\* stop(), in the caller's thread: a leave, sent only if the agent thinks it
\* has joined, that races with whatever the agent's thread has under way
AgentStop(n) ==
    /\ running[n] /\ n \in Leaves
    /\ running' = [running EXCEPT ![n] = FALSE]
    /\ late' = IF joined[n] THEN late \cup {<<"leave", n>>} ELSE late
    /\ UNCHANGED <<masterVars, at, joined, fails, lossy>>

\* The agent's process is killed.
AgentDie(n) ==
    /\ at[n] # "off"
    /\ at' = [at EXCEPT ![n] = "off"] /\ running' = [running EXCEPT ![n] = FALSE]
    /\ joined' = [joined EXCEPT ![n] = FALSE] /\ fails' = [fails EXCEPT ![n] = 0]
    /\ UNCHANGED <<masterVars, late, lossy>>

-----------------------------------------------------------------------------
(* The monitor thread; stop() lets it finish the round it is in.           *)

\* Mutant: only trusted nodes are timed out.
TimedOut_AliveOnly(n) == Has(nodes, n, {"alive"}) /\ nodes[n].seen > Timeout

TimedOut(n) == Has(nodes, n, {"alive", "quarantined"}) /\ nodes[n].seen > Timeout
Expired(n) == Has(nodes, n, {"dead"}) /\ PurgeAfter > 0 /\ nodes[n].seen > PurgeAfter

\* _check_heartbeats and _record_death
CheckHeartbeats ==
    /\ Serving
    /\ \E n \in Node : TimedOut(n) \/ Expired(n)
    /\ nodes' = [n \in Node |->
         IF TimedOut(n)
         THEN [nodes[n] EXCEPT !.status = "dead", !.deaths = @ \cup {0}, !.consec = 0]
         ELSE IF Expired(n) THEN None ELSE nodes[n]]
    /\ UNCHANGED <<leaving, unhealthy, mode, disk, saving, agentVars, late, lossy>>

Registered == {n \in Node : nodes[n] # None}
Alive == {n \in Node : Has(nodes, n, {"alive"})}

\* Mutant: everybody who is registered counts as alive.
Degraded_CountsAll ==
    Cardinality(Registered) * MinAliveDen < MinAliveNum * Cardinality(Registered)

Degraded == Cardinality(Alive) * MinAliveDen < MinAliveNum * Cardinality(Registered)

\* _check_cluster_health: an empty registry leaves the flag as it is.
CheckHealth ==
    /\ Serving
    /\ MinAliveNum > 0 /\ Registered # {}
    /\ unhealthy' = Degraded
    /\ UNCHANGED <<nodes, leaving, mode, disk, saving, agentVars, late, lossy>>

-----------------------------------------------------------------------------
(* state_file.  The payload is built under _lock and written under another *)
(* lock; a write replaces the file atomically or fails.                    *)

MonitorSave ==
    /\ Persist /\ Serving /\ saving["monitor"] = {}
    /\ saving' = [saving EXCEPT !["monitor"] = {nodes}]
    /\ UNCHANGED <<nodes, leaving, unhealthy, mode, disk, agentVars, late, lossy>>

\* stop(): requests are served until the final snapshot is on disk.
MasterStop ==
    /\ mode = "up"
    /\ mode' = "stopping"
    /\ saving' = [saving EXCEPT !["stop"] = IF Persist THEN {nodes} ELSE {}]
    /\ UNCHANGED <<nodes, leaving, unhealthy, disk, agentVars, late, lossy>>

WriteSnapshot ==
    \E w \in Saver : \E payload \in saving[w] :
        /\ disk' \in {payload, disk}
        /\ saving' = [saving EXCEPT ![w] = {}]
        /\ UNCHANGED <<nodes, leaving, unhealthy, mode, agentVars, late, lossy>>

\* The process ends: at the end of stop(), or killed.
MasterExit ==
    /\ Serving
    /\ mode' = "down"
    /\ nodes' = Empty /\ leaving' = [n \in Node |-> 0] /\ unhealthy' = FALSE
    /\ saving' = [w \in Saver |-> {}]
    /\ UNCHANGED <<disk, agentVars, late, lossy>>

\* A file that is missing or cannot be read leaves the registry empty.
LoadRegistrySnapshot == IF Persist THEN {disk, Empty} ELSE {Empty}

MasterStart ==
    /\ mode = "down"
    /\ mode' = "up"
    /\ nodes' \in LoadRegistrySnapshot
    /\ UNCHANGED <<leaving, unhealthy, disk, saving, agentVars, late, lossy>>

-----------------------------------------------------------------------------
Aged(reg) == [n \in Node |->
    IF reg[n] = None THEN None
    ELSE [reg[n] EXCEPT !.seen = IF @ < SeenCap THEN @ + 1 ELSE @,
                        !.deaths = {d + 1 : d \in @} \cap (0 .. FlapWindow)]]

\* time.time() advances, on disk too: the file holds absolute times.
Tick ==
    /\ nodes' = Aged(nodes) /\ disk' = Aged(disk)
    /\ saving' = [w \in Saver |-> {Aged(p) : p \in saving[w]}]
    /\ UNCHANGED <<leaving, unhealthy, mode, agentVars, late, lossy>>

\* The network recovers, for good.
NetHeals == lossy /\ lossy' = FALSE /\ UNCHANGED <<masterVars, agentVars, late>>

CallFails(n) == JoinFails(n) \/ BeatFails(n) \/ RejoinFails(n)
AgentThread(n) ==
    Join(n) \/ BeatStart(n) \/ Beat(n) \/ BeatRefused(n) \/ Rejoin(n) \/ CallFails(n)

Next ==
    \/ \E n \in Node :
         \/ AgentThread(n) \/ LeaveEnd(n)
         \/ AgentStart(n) \/ AgentStop(n) \/ AgentDie(n) \/ AdminDelete(n)
    \/ DeliverLate \/ LoseLate
    \/ CheckHeartbeats \/ CheckHealth
    \/ MonitorSave \/ WriteSnapshot
    \/ MasterStop \/ MasterExit \/ MasterStart
    \/ Tick \/ NetHeals

Spec == Init /\ [][Next]_vars

\* Threads keep running, callbacks return, stop() ends, time passes, and a
\* request that is late arrives or is lost in the end.
FairSpec ==
    /\ Spec
    /\ \A n \in Node : WF_vars(AgentThread(n)) /\ WF_vars(LeaveEnd(n))
    /\ WF_vars(DeliverLate \/ LoseLate)
    /\ WF_vars(CheckHeartbeats) /\ WF_vars(CheckHealth)
    /\ WF_vars(WriteSnapshot) /\ WF_vars(mode = "stopping" /\ MasterExit)
    /\ WF_vars(Tick)

-----------------------------------------------------------------------------
(* Properties.                                                             *)

\* Type invariant.
TypeOK ==
    /\ nodes \in Registry /\ disk \in Registry
    /\ \A w \in Saver : \A p \in saving[w] : p \in Registry
    /\ leaving \in [Node -> 0 .. MaxLeaves]
    /\ unhealthy \in BOOLEAN
    /\ mode \in {"up", "stopping", "down"}
    /\ at \in [Node -> {"off", "join", "sleep", "beat", "rejoin", "refresh"}]
    /\ running \in [Node -> BOOLEAN] /\ joined \in [Node -> BOOLEAN]
    /\ fails \in [Node -> 0 .. 3]
    /\ lossy \in BOOLEAN /\ late \subseteq {"join", "beat", "leave"} \X Node

\* A node that died too often within the window is not handed out as trusted,
\* over heartbeats, re-joins and restarts from disk, until it has earned it.
\* (A re-join during a leave does get "alive", until the leave removes it.)
FlapperNotTrusted ==
    \A n \in Alive : leaving[n] = 0 => Cardinality(nodes[n].deaths) < FlapThreshold

\* An agent that is gone, after however many late requests of its, is not
\* believed to be there for ever.
SilentNodeNoticed ==
    \A n \in Node : <>[](at[n] = "off" /\ mode = "up") =>
                        <>[]~Has(nodes, n, {"alive", "quarantined"})

\* "each agent re-registers itself": after restarts of the master, deletions,
\* lost replies and late leaves, an agent that runs is registered again and
\* again once the master stays up and answers its calls.
AutoRejoin ==
    \A n \in Node : <>[](running[n] /\ mode = "up" /\ ~lossy) =>
                        []<>Has(nodes, n, {"alive", "quarantined"})

\* The cluster-unhealthy flag settles on the truth when the truth settles.
TooFewAlive == Cardinality(Alive) * MinAliveDen < Cardinality(Registered) * MinAliveNum
Ailing == mode = "up" /\ Registered # {} /\ TooFewAlive
Thriving == mode = "up" /\ Registered # {} /\ ~TooFewAlive
HealthFollows ==
    /\ <>[]Ailing => <>[]unhealthy
    /\ <>[]Thriving => <>[]~unhealthy

=============================================================================
