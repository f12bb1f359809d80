------------------------------- MODULE Groups -------------------------------
(***************************************************************************)
(* ServiceDiscovery (cluster_service_discovery.py) and MultiRegionManager  *)
(* (cluster_multi_region.py).  Both keep which nodes belong to a group, a  *)
(* service or a region, and tell a listener when the first node of a group *)
(* is alive and when the last is not.                                      *)
(*                                                                         *)
(* The refresh thread reads the master's nodes, the groups and what it has *)
(* told behind locks it lets go of in between, and calls the listener      *)
(* outside of them.  stop() only lowers a flag: after a restart the last   *)
(* thread may still sleep, and stay.                                       *)
(***************************************************************************)
EXTENDS Naturals, FiniteSets

CONSTANTS
  Node,
  Group,
  Labels,   \* [Node -> SUBSET Group]: the groups in a node's metadata
  Loop      \* threads attach() may start

VARIABLES
  alive,    \* nodes the master holds as alive
  members,  \* _registry
  up,       \* _services_up, _regions_up
  running,  \* _running
  loop,     \* the threads, and what a refresh has found out so far
  heard     \* what the listener was last told of a group

vars == <<alive, members, up, running, loop, heard>>

At(at) == [at |-> at, todo |-> {}, group |-> {}, found |-> FALSE]

Init ==
  /\ alive = {} /\ up = {} /\ running = FALSE
  /\ members = [g \in Group |-> {}]
  /\ loop = [l \in Loop |-> At("off")]
  /\ heard = [g \in Group |-> "nothing"]

NodeChanges(n) ==
  /\ alive' = IF n \in alive THEN alive \ {n} ELSE alive \cup {n}
  /\ UNCHANGED <<members, up, running, loop, heard>>

Announce(n, g) ==
  /\ members' = [members EXCEPT ![g] = @ \cup {n}]
  /\ UNCHANGED <<alive, up, running, loop, heard>>

(* Of services only; what the metadata says comes back with the next refresh. *)
Deregister(n, g) ==
  /\ n \in members[g]
  /\ members' = [members EXCEPT ![g] = @ \ {n}]
  /\ UNCHANGED <<alive, up, running, loop, heard>>

AliveNodesFor(g) == members[g] \cap alive

-----------------------------------------------------------------------------
Attach(l) ==
  /\ ~running /\ loop[l].at = "off"
  /\ running' = TRUE
  /\ loop' = [loop EXCEPT ![l] = At("asleep")]
  /\ UNCHANGED <<alive, members, up, heard>>

Stop ==
  /\ running
  /\ running' = FALSE
  /\ UNCHANGED <<alive, members, up, loop, heard>>

Wake(l) ==
  /\ loop[l].at = "asleep"
  /\ loop' = [loop EXCEPT ![l] = At(IF running THEN "sync" ELSE "off")]
  /\ UNCHANGED <<alive, members, up, running, heard>>

(* _sync_from_metadata, and the list of the groups: a group without a node    *)
(* is looked at once it has had one.                                          *)
Sync(l) ==
  /\ loop[l].at = "sync"
  /\ \E known \in SUBSET Node :
       /\ alive \subseteq known
       /\ members' = [g \in Group |-> members[g] \cup {n \in known : g \in Labels[n]}]
  /\ loop' = [loop EXCEPT ![l] = [At("check") EXCEPT !.todo = Group]]
  /\ UNCHANGED <<alive, up, running, heard>>

Goes(l, at) == loop' = [loop EXCEPT ![l].at = at]

(* The groups one after the other, in some order.                            *)
Look(l, g) ==
  /\ loop[l].at = "check" /\ g \in loop[l].todo
  /\ loop' = [loop EXCEPT ![l] =
       [at |-> "compare", todo |-> @.todo \ {g}, group |-> {g},
        found |-> AliveNodesFor(g) # {}]]
  /\ UNCHANGED <<alive, members, up, running, heard>>

Compare(l, g) ==
  /\ loop[l].at = "compare" /\ loop[l].group = {g}
  /\ Goes(l, IF loop[l].found = (g \in up) THEN "check" ELSE "change")
  /\ UNCHANGED <<alive, members, up, running, heard>>

Change_Sticky(l, g) ==
  /\ loop[l].at = "change" /\ loop[l].group = {g}
  /\ up' = up \cup {g}
  /\ Goes(l, "call")
  /\ UNCHANGED <<alive, members, running, heard>>

Change(l, g) ==
  /\ loop[l].at = "change" /\ loop[l].group = {g}
  /\ up' = IF loop[l].found THEN up \cup {g} ELSE up \ {g}
  /\ Goes(l, "call")
  /\ UNCHANGED <<alive, members, running, heard>>

Call(l, g) ==
  /\ loop[l].at = "call" /\ loop[l].group = {g}
  /\ heard' = [heard EXCEPT ![g] = IF loop[l].found THEN "up" ELSE "down"]
  /\ Goes(l, "check")
  /\ UNCHANGED <<alive, members, up, running>>

Checked(l) ==
  /\ loop[l].at = "check" /\ loop[l].todo = {}
  /\ loop' = [loop EXCEPT ![l] = At(IF running THEN "asleep" ELSE "off")]
  /\ UNCHANGED <<alive, members, up, running, heard>>

Work(l) ==
  \/ Wake(l) \/ Sync(l) \/ Checked(l)
  \/ \E g \in Group : Look(l, g) \/ Compare(l, g) \/ Change(l, g) \/ Call(l, g)

Next ==
  \/ \E n \in Node : NodeChanges(n)
                     \/ \E g \in Group : Announce(n, g) \/ Deregister(n, g)
  \/ Stop
  \/ \E l \in Loop : Attach(l) \/ Work(l)

Spec == Init /\ [][Next]_vars

(* Threads run, and callbacks return. *)
Fairness == \A l \in Loop : WF_vars(Work(l))

FairSpec == Spec /\ Fairness

-----------------------------------------------------------------------------
OneThread == Cardinality({l \in Loop : loop[l].at # "off"}) <= 1

(* As long as no restart has left a second thread behind, the listener knows  *)
(* in the end whether a group has a node that is alive, although nodes change *)
(* between every two looks of a refresh.  Two threads may call the listener   *)
(* in the wrong order, and nothing repairs that before the next change.       *)
GroupsTold ==
  []OneThread =>
    \A g \in Group :
      /\ <>[](running /\ AliveNodesFor(g) # {}) => <>[](heard[g] = "up")
      /\ <>[](running /\ AliveNodesFor(g) = {}) => <>[](heard[g] # "up")
=============================================================================
