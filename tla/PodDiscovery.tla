---------------------------- MODULE PodDiscovery ----------------------------
(***************************************************************************)
(* K8sDiscovery (discovery_k8s.py): a thread fetches the addresses of the   *)
(* ready pods, compares them with those it has registered, and calls        *)
(* add_server and remove_server of the cluster for the difference.          *)
(*                                                                         *)
(* add_server takes a second server of the same id; remove_server removes   *)
(* one, and none that is draining (HuddleRings), which nobody looks at: the *)
(* address is forgotten before the call.  stop() joins the thread for 5 s,  *)
(* so that start() may find it in a slow call of the Kubernetes API.        *)
(***************************************************************************)
EXTENDS Naturals, FiniteSets

CONSTANTS
  Pod,
  Watcher,    \* threads start() may make
  MaxCopies   \* bound on the servers of one id

VARIABLES
  ready,      \* pods the API reports
  known,      \* _known_ips
  copies,     \* servers in the cluster with the id of a pod
  draining,   \* those of them that drain
  running,    \* _running
  watch,      \* the threads, and what they have yet to add and remove
  lost        \* history: pods a server of which nobody will remove

vars == <<ready, known, copies, draining, running, watch, lost>>

At(at) == [at |-> at, current |-> {}, add |-> {}, remove |-> {}]

Init ==
  /\ ready = {} /\ known = {} /\ lost = {}
  /\ copies = [p \in Pod |-> 0] /\ draining = [p \in Pod |-> 0]
  /\ running = FALSE
  /\ watch = [w \in Watcher |-> At("off")]

-----------------------------------------------------------------------------
(* The pods, and the rings: the rotation drains and un-drains servers.       *)

PodChanges(p) ==
  /\ ready' = IF p \in ready THEN ready \ {p} ELSE ready \cup {p}
  /\ UNCHANGED <<known, copies, draining, running, watch, lost>>

Drains(p) ==
  /\ \/ draining[p] < copies[p] /\ draining' = [draining EXCEPT ![p] = @ + 1]
     \/ draining[p] > 0 /\ draining' = [draining EXCEPT ![p] = @ - 1]
  /\ UNCHANGED <<ready, known, copies, running, watch, lost>>

-----------------------------------------------------------------------------
Start(w) ==
  /\ ~running /\ watch[w].at = "off"
  /\ running' = TRUE
  /\ watch' = [watch EXCEPT ![w] = At("asleep")]
  /\ UNCHANGED <<ready, known, copies, draining, lost>>

Stop ==
  /\ running
  /\ running' = FALSE
  /\ UNCHANGED <<ready, known, copies, draining, watch, lost>>

Sleeps(w) ==
  watch' = [watch EXCEPT ![w] = At(IF running THEN "asleep" ELSE "off")]

(* The head of the loop and _fetch_ready_ips, which may fail: next time.     *)
Fetch(w) ==
  /\ watch[w].at = "asleep"
  /\ \/ /\ running
        /\ watch' = [watch EXCEPT ![w] = [At("compare") EXCEPT !.current = ready]]
     \/ Sleeps(w)
  /\ UNCHANGED <<ready, known, copies, draining, running, lost>>

Compare(w) ==
  LET current == watch[w].current IN
  /\ watch[w].at = "compare"
  /\ watch' = [watch EXCEPT ![w] =
       [At("apply") EXCEPT !.add = current \ known, !.remove = known \ current]]
  /\ UNCHANGED <<ready, known, copies, draining, running, lost>>

(* _add_server: the cluster first, then what is known.  A failure is logged. *)
Add_Known(w, p) ==
  /\ watch[w].at = "apply" /\ p \in watch[w].add
  /\ watch' = [watch EXCEPT ![w].add = @ \ {p}]
  /\ known' = known \cup {p}
  /\ \/ copies[p] < MaxCopies /\ copies' = [copies EXCEPT ![p] = @ + 1]
     \/ UNCHANGED copies
  /\ lost' = IF copies[p] > 0 THEN lost \cup {p} ELSE lost
  /\ UNCHANGED <<ready, draining, running>>

Add(w, p) ==
  /\ watch[w].at = "apply" /\ p \in watch[w].add
  /\ watch' = [watch EXCEPT ![w].add = @ \ {p}]
  /\ \/ /\ copies[p] < MaxCopies
        /\ copies' = [copies EXCEPT ![p] = @ + 1]
        /\ known' = known \cup {p}
        /\ lost' = IF copies[p] > 0 THEN lost \cup {p} ELSE lost
     \/ UNCHANGED <<copies, known, lost>>
  /\ UNCHANGED <<ready, draining, running>>

(* _remove_server: what is known first, then the cluster.                    *)
Forget_Blind(w, p) ==
  /\ watch[w].at = "apply" /\ watch[w].add = {} /\ p \in watch[w].remove
  /\ known' = known \ {p}
  /\ watch' = [watch EXCEPT ![w].remove = @ \ {p}, ![w].at = "remove",
                            ![w].current = {p}]
  /\ UNCHANGED <<ready, copies, draining, running, lost>>

Forget(w, p) ==
  /\ watch[w].at = "apply" /\ watch[w].add = {} /\ p \in watch[w].remove
  /\ known' = known \ {p}
  /\ watch' = [watch EXCEPT ![w].remove = @ \ {p},
                            ![w].at = IF p \in known THEN "remove" ELSE "apply",
                            ![w].current = IF p \in known THEN {p} ELSE {}]
  /\ UNCHANGED <<ready, copies, draining, running, lost>>

Remove(w, p) ==
  /\ watch[w].at = "remove" /\ watch[w].current = {p}
  /\ IF draining[p] < copies[p]
       THEN copies' = [copies EXCEPT ![p] = @ - 1] /\ UNCHANGED lost
       ELSE lost' = lost \cup {p} /\ UNCHANGED copies
  /\ watch' = [watch EXCEPT ![w].at = "apply", ![w].current = {}]
  /\ UNCHANGED <<ready, known, draining, running>>

Applied(w) ==
  /\ watch[w].at = "apply" /\ watch[w].add = {} /\ watch[w].remove = {}
  /\ Sleeps(w)
  /\ UNCHANGED <<ready, known, copies, draining, running, lost>>

Work(w) ==
  \/ Fetch(w) \/ Compare(w) \/ Applied(w)
  \/ \E p \in Pod : Add(w, p) \/ Forget(w, p) \/ Remove(w, p)

Next ==
  \/ \E p \in Pod : PodChanges(p) \/ Drains(p)
  \/ Stop
  \/ \E w \in Watcher : Start(w) \/ Work(w)

Spec == Init /\ [][Next]_vars

(* The thread runs, and the API and add_server do not fail for ever.         *)
Fetched(w) == Fetch(w) /\ watch'[w].at = "compare"
Added(w) == \E p \in Pod : Add(w, p) /\ known' # known

Fairness ==
  \A w \in Watcher : WF_vars(Work(w)) /\ SF_vars(Fetched(w)) /\ SF_vars(Added(w))

FairSpec == Spec /\ Fairness

-----------------------------------------------------------------------------
Removing(p) == {w \in Watcher : watch[w].at = "remove" /\ watch[w].current = {p}}

(* What the discovery holds as registered, and what a thread is about to     *)
(* remove, are servers that are there; any server beyond these is one whose  *)
(* removal was refused, or that was added beside another.                    *)
PodsAccounted ==
  \A p \in Pod :
    LET owed == Cardinality(Removing(p)) + (IF p \in known THEN 1 ELSE 0) IN
    copies[p] >= owed /\ (copies[p] > owed => p \in lost)

(* A pod that stays ready is in the cluster in the end, also after failed    *)
(* calls, restarts and removals that came too late; one that is gone is not, *)
(* unless its removal met a server that was draining, or it was added twice. *)
PodsMirrored ==
  \A p \in Pod :
    /\ <>[](running /\ p \in ready) => <>[](copies[p] > 0)
    /\ <>[](running /\ p \notin ready) => <>[](copies[p] = 0 \/ p \in lost)
=============================================================================
