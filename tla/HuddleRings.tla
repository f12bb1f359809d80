----------------------------- MODULE HuddleRings -----------------------------
(***************************************************************************)
(* The two rings of huddle_cluster.py's HuddleCluster: the inner ring that *)
(* takes traffic, the outer ring where servers rest, and the draining      *)
(* servers in between.  Three kinds of actor work on them:                 *)
(*                                                                         *)
(*   - the rotation thread (_rotation_loop): it completes drains WITHOUT   *)
(*     the cluster lock, then takes the lock for one rotate();             *)
(*   - callers of the API (add_server, remove_server, force_evict,         *)
(*     get_server), each under the lock;                                   *)
(*   - whoever changes a server's metrics (requests, health checks,        *)
(*     ws_open/ws_close, load_state), at any moment, lock or no lock.      *)
(*                                                                         *)
(* Data abstraction.  A temperature is a level; elapsed times are ticks    *)
(* that stop counting once no guard can tell them apart; the outer heap is *)
(* the set of its members and the element at index 0, the only one the     *)
(* code ever reads.  The optional parts that are off by default (traffic   *)
(* ramps, absolute latency floor, auto-remediation, hardware sensors, eBPF, *)
(* adaptive thresholds) are left out.                                                           *)
(***************************************************************************)
EXTENDS Naturals, FiniteSets, SequencesExt

CONSTANTS
    Server,          \* server objects, each with its own id
    None,            \* "no server"
    Key,             \* affinity keys of sticky sessions
    MinInner,        \* min_inner_size
    MaxInner,        \* max_inner_size
    MaxTemp,         \* temperatures are 0 .. MaxTemp
    CoolThreshold,   \* cool_threshold, as a level
    HeatLimit,       \* heat_threshold scaled by each server's weight
    Faults,          \* subset of {"down", "tripped"} that may occur
    MaxConn,         \* bound on open long-lived connections per server
    Cooldown,        \* rotation_cooldown_sec, in ticks
    Dwell,           \* min_outer_dwell_sec
    ColdStart,       \* cold_start_sec
    DrainTimeout,    \* ws_drain_timeout_sec; 0 switches draining off
    CallbackRaises   \* outcomes of the user's on_rotation: subset of BOOLEAN

ASSUME NoneAssumption == None \notin Server
ASSUME SizeAssumption ==
    MinInner \in Nat \ {0} /\ MaxInner \in Nat /\ MinInner <= MaxInner
ASSUME LevelAssumption ==
    /\ MaxTemp \in Nat
    /\ CoolThreshold \in 0 .. MaxTemp
    /\ HeatLimit \in [Server -> Nat]
ASSUME TimeAssumption ==
    {Cooldown, Dwell, ColdStart, DrainTimeout, MaxConn} \subseteq Nat
ASSUME OutcomeAssumption ==
    Faults \subseteq {"down", "tripped"} /\ CallbackRaises \subseteq BOOLEAN

VARIABLES
    inner,      \* _inner_ring: the next server to serve is at the head
    outer,      \* the members of _outer_ring
    head,       \* _outer_ring[0]
    draining,   \* the keys of _draining_servers
    affinity,   \* _affinity_map
    temp,       \* Server.temperature
    faults,     \* "down": not is_healthy, "tripped": error_rate past the
                \* circuit breaker threshold
    conns,      \* metrics.active_connections
    age,        \* ticks since last_rotated
    cold,       \* ticks of cold start left (_cold_until)
    wanted,     \* servers the operator has added and not asked to remove
    pc,         \* where the rotation thread is
    todo,       \* servers the current loop of rotate() has still to visit
    completed,  \* drains _check_draining_servers found to be over
    limbo,      \* deleted from _draining_servers, not yet in _outer_ring
    pulling     \* remove_server is inside _maybe_pull_from_outer

ringVars   == <<inner, outer, head, draining, limbo>>
serverVars == <<temp, faults, conns, age, cold>>
threadVars == <<pc, todo, completed, pulling>>
vars == <<ringVars, affinity, serverVars, wanted, threadVars>>

Temps == 0 .. MaxTemp
Larger(a, b) == IF a > b THEN a ELSE b
AgeCap == Larger(Cooldown, Larger(Dwell, DrainTimeout))

Members == ToSet(inner) \cup outer \cup draining \cup ({limbo} \ {None})

\* Init is an empty cluster: __init__ registers nobody.
Init ==
    /\ inner = <<>> /\ outer = {} /\ head = None /\ draining = {} /\ limbo = None
    /\ affinity = [k \in Key |-> None]
    /\ temp = [s \in Server |-> 0] /\ faults = [s \in Server |-> {}]
    /\ conns = [s \in Server |-> 0] /\ age = [s \in Server |-> 0]
    /\ cold = [s \in Server |-> 0]
    /\ wanted = {}
    /\ pc = "idle" /\ todo = {} /\ completed = {} /\ pulling = FALSE

-----------------------------------------------------------------------------
(* Who holds the cluster lock.                                             *)

\* rotate() runs under the lock; so does remove_server while it pulls.
\* Mutant: the lock is not taken.
LockFree_Never == TRUE
LockFree == pc \in {"idle", "drain"} /\ ~pulling

-----------------------------------------------------------------------------
(* The outer ring: a heap list ordered by temperature AT THE TIME of each  *)
(* push or pop.  Temperatures keep changing underneath and nothing         *)
(* re-sorts the list.  With up to three resting servers every entry is a   *)
(* child of index 0 and the choices below are exact up to ties.            *)

\* heappush: the newcomer climbs to index 0 only past warmer servers; in a
\* deep heap that has gone stale it may stop below.
HeapPush(s) ==
    /\ outer' = outer \cup {s}
    /\ head' \in IF outer = {} THEN {s}
                 ELSE IF temp[s] >= temp[head] THEN {head}
                 ELSE IF Cardinality(outer) <= 2 THEN {s} ELSE {s, head}

Coolest(S) == {s \in S : \A t \in S : temp[s] <= temp[t]}
\* Index 0 of a heap that holds S, given the candidates for it.
NewHead(S, candidates) == IF S = {} THEN {None} ELSE candidates

\* Mutant: index 0 is read but not popped.
HeapPop_Peek == UNCHANGED <<outer, head>>

\* heappop: with at most two entries left the cooler one comes up.
HeapPop ==
    /\ outer' = outer \ {head}
    /\ head' \in NewHead(outer', IF Cardinality(outer) <= 3 THEN Coolest(outer') ELSE outer')

\* list.pop(i) followed by heapify: index 0 is the coolest again.
HeapRemove(s) ==
    /\ outer' = outer \ {s}
    /\ head' \in NewHead(outer', Coolest(outer'))

-----------------------------------------------------------------------------
(* The move helpers; every caller holds the lock or is the drain check.    *)

IndexOf(s) == CHOOSE i \in DOMAIN inner : inner[i] = s

\* Mutant: last_rotated is not stamped.
CompleteEviction_NoStamp(s) == HeapPush(s) /\ UNCHANGED age

\* _complete_eviction: into the outer ring, where the dwell time starts.
CompleteEviction(s) ==
    /\ HeapPush(s)
    /\ age' = [age EXCEPT ![s] = 0]

\* Mutant: open connections are not looked at.
MoveToOuter_NoDrain(s) ==
    /\ affinity' = [k \in Key |-> IF affinity[k] = s THEN None ELSE affinity[k]]
    /\ inner' = RemoveAt(inner, IndexOf(s))
    /\ CompleteEviction(s) /\ UNCHANGED draining

\* _move_to_outer: drop the sticky bindings, leave the inner ring, then drain
\* or rest.
MoveToOuter(s) ==
    /\ affinity' = [k \in Key |-> IF affinity[k] = s THEN None ELSE affinity[k]]
    /\ inner' = RemoveAt(inner, IndexOf(s))
    /\ IF DrainTimeout > 0 /\ conns[s] > 0 /\ s \notin draining
       THEN /\ draining' = draining \cup {s}
            /\ age' = [age EXCEPT ![s] = 0]
            /\ UNCHANGED <<outer, head>>
       ELSE CompleteEviction(s) /\ UNCHANGED draining

\* _move_to_inner, of the server the heap just gave up
MoveToInner(s) ==
    /\ inner' = Append(inner, s)
    /\ age' = [age EXCEPT ![s] = 0]

-----------------------------------------------------------------------------
(* Operators of the cluster.                                               *)

\* add_server.  The API does not refuse an id it already has; callers are
\* taken to add each server once.
AddServer(s, forceInner) ==
    /\ LockFree /\ s \notin wanted \cup Members
    /\ wanted' = wanted \cup {s}
    /\ IF ColdStart = 0 /\ forceInner /\ Len(inner) < MaxInner
       THEN inner' = Append(inner, s) /\ UNCHANGED <<outer, head>>
       ELSE HeapPush(s) /\ UNCHANGED inner
    /\ cold' = [cold EXCEPT ![s] = ColdStart]
    /\ UNCHANGED <<draining, limbo, affinity, temp, faults, conns, age, threadVars>>

NeedsPull(in, out) == out # {} /\ Len(in) < MinInner

\* A removed Server object is garbage: its fields go back to the defaults.
Forget(s) ==
    /\ temp' = [temp EXCEPT ![s] = 0]   /\ faults' = [faults EXCEPT ![s] = {}]
    /\ conns' = [conns EXCEPT ![s] = 0] /\ age' = [age EXCEPT ![s] = 0]
    /\ cold' = [cold EXCEPT ![s] = 0]

\* remove_server looks in the inner ring, then in the outer ring, nowhere
\* else; it leaves the sticky bindings alone.
RemoveServer(s) ==
    /\ LockFree /\ s \in Members
    /\ wanted' = wanted \ {s}
    /\ \/ /\ s \in ToSet(inner)
          /\ inner' = RemoveAt(inner, IndexOf(s))
          /\ pulling' = NeedsPull(inner', outer)
          /\ Forget(s)
          /\ UNCHANGED <<outer, head>>
       \/ /\ s \in outer
          /\ HeapRemove(s)
          /\ Forget(s)
          /\ UNCHANGED <<inner, pulling>>
       \/ /\ s \notin ToSet(inner) \cup outer      \* "not found"
          /\ UNCHANGED <<inner, outer, head, pulling, serverVars>>
    /\ UNCHANGED <<draining, limbo, affinity, pc, todo, completed>>

\* One turn of _maybe_pull_from_outer's loop: only the size of the inner ring
\* is looked at.  An exception of on_rotation ends remove_server.
PullNext ==
    /\ pulling
    /\ MoveToInner(head) /\ HeapPop
    /\ \E raised \in CallbackRaises : pulling' = (~raised /\ NeedsPull(inner', outer'))
    /\ UNCHANGED <<draining, limbo, affinity, temp, faults, conns, cold, wanted,
                   pc, todo, completed>>

\* force_evict
ForceEvict(s) ==
    /\ LockFree /\ s \in ToSet(inner)
    /\ MoveToOuter(s)
    /\ UNCHANGED <<limbo, temp, faults, conns, cold, wanted, threadVars>>

-----------------------------------------------------------------------------
(* Routing.                                                                *)

\* Mutant: the binding is trusted without looking for it in the inner ring.
Bound_Anywhere(k) == affinity[k] # None /\ "down" \notin faults[affinity[k]]

\* A sticky binding is followed only to a healthy inner server.
Bound(k) == affinity[k] \in ToSet(inner) /\ "down" \notin faults[affinity[k]]

\* _emergency_server: index 0 of the heap, else any draining server.
EmergencyServers == IF outer # {} THEN {head} ELSE draining

\* The servers get_server may return for a key (None: no key); {} is None.
Routes(k) ==
    IF inner = <<>> THEN EmergencyServers
    ELSE IF k \in Key /\ Bound(k) THEN {affinity[k]}
    ELSE {Head(inner)}

\* get_server advances the ring except for a usable sticky binding.
GetServer(k) ==
    /\ LockFree /\ inner # <<>>
    /\ k \in Key => ~Bound(k)
    /\ inner' = Append(Tail(inner), Head(inner))
    /\ affinity' = [l \in Key |-> IF l = k THEN Head(inner) ELSE affinity[l]]
    /\ UNCHANGED <<outer, head, draining, limbo, serverVars, wanted, threadVars>>

-----------------------------------------------------------------------------
(* What changes under the cluster's feet.                                  *)

\* update_temperature, record_latency, record_tokens, load_state: nobody
\* re-sorts the outer ring.
SetTemp(s, t) ==
    /\ s \in Members /\ temp[s] # t
    /\ temp' = [temp EXCEPT ![s] = t]
    /\ UNCHANGED <<ringVars, affinity, faults, conns, age, cold, wanted, threadVars>>

\* health checks, error rates and response times
SetFaults(s, F) ==
    /\ s \in Members /\ faults[s] # F
    /\ faults' = [faults EXCEPT ![s] = F]
    /\ UNCHANGED <<ringVars, affinity, temp, conns, age, cold, wanted, threadVars>>

\* ws_open: the caller may hold a server that has left the inner ring since.
WsOpen(s) ==
    /\ s \in Members /\ conns[s] < MaxConn
    /\ conns' = [conns EXCEPT ![s] = @ + 1]
    /\ UNCHANGED <<ringVars, affinity, temp, faults, age, cold, wanted, threadVars>>

\* Mutant: no clamp at zero.
WsClose_NoClamp(s) ==
    /\ s \in Members
    /\ conns' = [conns EXCEPT ![s] = @ - 1]
    /\ UNCHANGED <<ringVars, affinity, temp, faults, age, cold, wanted, threadVars>>

\* ws_close, clamped at zero
WsClose(s) ==
    /\ s \in Members /\ conns[s] > 0
    /\ conns' = [conns EXCEPT ![s] = @ - 1]
    /\ UNCHANGED <<ringVars, affinity, temp, faults, age, cold, wanted, threadVars>>

\* time.monotonic() advances
Tick ==
    /\ age' = [s \in Server |-> IF s \in Members /\ age[s] < AgeCap
                                THEN age[s] + 1 ELSE age[s]]
    /\ cold' = [s \in Server |-> IF cold[s] > 0 THEN cold[s] - 1 ELSE 0]
    /\ UNCHANGED <<ringVars, affinity, temp, faults, conns, wanted, threadVars>>

-----------------------------------------------------------------------------
(* The rotation thread, first half: _check_draining_servers.               *)

\* Mutant: the deadline is forgotten.
DrainOver_NoDeadline(s) == conns[s] = 0

DrainOver(s) == conns[s] = 0 \/ age[s] >= DrainTimeout

\* The list of finished drains is a snapshot, taken without the lock.
CheckDraining ==
    /\ pc = "idle"
    /\ pc' = "drain"
    /\ completed' = {s \in draining : DrainOver(s)}
    /\ UNCHANGED <<ringVars, affinity, serverVars, wanted, todo, pulling>>

\* del self._draining_servers[sid]
DrainDelete ==
    /\ pc = "drain" /\ limbo = None
    /\ \E s \in completed :
         /\ draining' = draining \ {s}
         /\ limbo' = s
         /\ completed' = completed \ {s}
    /\ UNCHANGED <<inner, outer, head, affinity, serverVars, wanted, pc, todo, pulling>>

\* _complete_eviction(server, reason), a separate step of the same thread; an
\* exception of on_rotation skips the rest of this cycle.
DrainComplete ==
    /\ pc = "drain" /\ limbo # None
    /\ CompleteEviction(limbo)
    /\ limbo' = None
    /\ \E raised \in CallbackRaises :
         IF raised THEN pc' = "idle" /\ completed' = {}
                   ELSE UNCHANGED <<pc, completed>>
    /\ UNCHANGED <<inner, draining, affinity, temp, faults, conns, cold, wanted, todo,
                   pulling>>

-----------------------------------------------------------------------------
(* The rotation thread, second half: rotate(), under the lock.             *)

Overheated(s) == temp[s] >= HeatLimit[s]
HeatCandidates ==
    {s \in ToSet(inner) : Overheated(s) /\ ("down" \in faults[s] \/ age[s] >= Cooldown)}

\* Mutant: one eviction too many.
SafeEvictions_OffByOne == IF Len(inner) >= MinInner THEN Len(inner) - MinInner + 1 ELSE 0

EvictionCap == Larger(1, Len(inner) \div 3)
SafeEvictions == IF Len(inner) > MinInner THEN Len(inner) - MinInner ELSE 0

\* The first servers of S in ring order, at most EvictionCap of them and
\* never so many that fewer than MinInner stay.
Before(S, s) == Cardinality({t \in S : IndexOf(t) < IndexOf(s)})
Selected(S) == {s \in S : Before(S, s) < EvictionCap /\ Before(S, s) < SafeEvictions}

FirstIn(S, s) == s \in S /\ \A t \in S : IndexOf(s) <= IndexOf(t)

\* Step 1, selection
RotateBegin ==
    /\ pc = "drain" /\ completed = {} /\ limbo = None /\ ~pulling
    /\ pc' = "evict"
    /\ todo' = Selected(HeatCandidates)
    /\ UNCHANGED <<ringVars, affinity, serverVars, wanted, completed, pulling>>

\* What an exception of the user's on_rotation does to rotate(): the rest of
\* the cycle is skipped.  A server that only starts draining has no callback.
CallbackOr(more) ==
    \E raised \in CallbackRaises :
        IF raised /\ draining' = draining THEN pc' = "idle" /\ todo' = {} ELSE more

\* Step 1, one eviction
EvictNext ==
    /\ pc = "evict"
    /\ \E s \in Server :
         /\ FirstIn(todo, s)
         /\ MoveToOuter(s)
         /\ CallbackOr(todo' = todo \ {s} /\ UNCHANGED pc)
    /\ UNCHANGED <<limbo, temp, faults, conns, cold, wanted, completed, pulling>>

EvictDone ==
    /\ pc = "evict" /\ todo = {}
    /\ pc' = "promote"
    /\ UNCHANGED <<ringVars, affinity, serverVars, wanted, todo, completed, pulling>>

\* Mutant: a server exactly at the threshold stays out.
Eligible_Strict(s) == cold[s] = 0 /\ age[s] >= Dwell /\ temp[s] < CoolThreshold

\* Step 2's gates
Eligible(s) == cold[s] = 0 /\ age[s] >= Dwell /\ temp[s] <= CoolThreshold

\* Mutant: max_inner_size is not looked at.
HeadMayEnter_NoMax == outer # {} /\ Eligible(head)

HeadMayEnter == outer # {} /\ Len(inner) < MaxInner /\ Eligible(head)

\* Step 2, one promotion
PromoteNext ==
    /\ pc = "promote" /\ HeadMayEnter
    /\ MoveToInner(head) /\ HeapPop
    /\ UNCHANGED draining
    /\ CallbackOr(UNCHANGED <<pc, todo>>)
    /\ UNCHANGED <<limbo, affinity, temp, faults, conns, cold, wanted, completed, pulling>>

\* Step 2 ends at the first head that may not enter; Step 3 visits list(inner)
PromoteDone ==
    /\ pc = "promote" /\ ~HeadMayEnter
    /\ pc' = "health"
    /\ todo' = ToSet(inner)
    /\ UNCHANGED <<ringVars, affinity, serverVars, wanted, completed, pulling>>

\* Mutant: only the circuit breaker evicts.
MustGo_BreakerOnly(s) == "tripped" \in faults[s]

MustGo(s) == faults[s] \cap {"down", "tripped"} # {}

\* Step 3, one server
HealthNext ==
    /\ pc = "health" /\ Len(inner) > MinInner
    /\ \E s \in Server :
         /\ FirstIn(todo, s)
         /\ \/ MustGo(s) /\ MoveToOuter(s) /\ CallbackOr(todo' = todo \ {s} /\ UNCHANGED pc)
            \/ /\ ~MustGo(s) /\ todo' = todo \ {s}
               /\ UNCHANGED <<pc, inner, outer, head, draining, affinity, age>>
    /\ UNCHANGED <<limbo, temp, faults, conns, cold, wanted, completed, pulling>>

\* Step 3 is over, or breaks because the inner ring is at its minimum.
RotateEnd ==
    /\ pc = "health" /\ (todo = {} \/ Len(inner) <= MinInner)
    /\ pc' = "idle"
    /\ todo' = {}
    /\ UNCHANGED <<ringVars, affinity, serverVars, wanted, completed, pulling>>

-----------------------------------------------------------------------------
RotationThread ==
    \/ CheckDraining \/ DrainDelete \/ DrainComplete
    \/ RotateBegin \/ EvictNext \/ EvictDone
    \/ PromoteNext \/ PromoteDone \/ HealthNext \/ RotateEnd

Operator ==
    \E s \in Server :
        \/ \E forceInner \in BOOLEAN : AddServer(s, forceInner)
        \/ RemoveServer(s)
        \/ ForceEvict(s)

Environment ==
    \E s \in Server :
        \/ \E t \in Temps : SetTemp(s, t)
        \/ \E F \in SUBSET Faults : SetFaults(s, F)
        \/ WsOpen(s)
        \/ WsClose(s)

Next ==
    \/ RotationThread
    \/ Operator
    \/ PullNext
    \/ \E k \in Key \cup {None} : GetServer(k)
    \/ Environment
    \/ Tick

Spec == Init /\ [][Next]_vars

\* The rotation thread keeps looping while the cluster runs, a caller inside
\* remove_server gets on, time passes.  The thread takes the lock with the
\* callers competing for it: strong fairness of the lock acquisition.
FairSpec ==
    /\ Spec
    /\ WF_vars(RotationThread) /\ SF_vars(RotateBegin)
    /\ WF_vars(PullNext)
    /\ WF_vars(Tick)

-----------------------------------------------------------------------------
(* Properties.                                                             *)

\* Type invariant.
TypeOK ==
    /\ inner \in Seq(Server)
    /\ outer \subseteq Server /\ draining \subseteq Server
    /\ head \in outer \cup {None} /\ (head = None) = (outer = {})
    /\ limbo \in Server \cup {None}
    /\ affinity \in [Key -> Server \cup {None}]
    /\ temp \in [Server -> Temps] /\ faults \in [Server -> SUBSET Faults]
    /\ conns \in [Server -> 0 .. MaxConn]
    /\ age \in [Server -> 0 .. AgeCap] /\ cold \in [Server -> 0 .. ColdStart]
    /\ wanted \subseteq Server
    /\ pc \in {"idle", "drain", "evict", "promote", "health"}
    /\ todo \subseteq Server /\ completed \subseteq Server
    /\ pulling \in BOOLEAN

\* Rotations, drains, removals and aborted callbacks neither lose nor duplicate
\* a server: each server the operator wants is in exactly one of the inner
\* ring, the outer ring, the draining set and the hands of the rotation thread,
\* although the drain path moves servers without the lock.
NoServerLost ==
    /\ wanted \subseteq Members
    /\ IsInjective(inner)
    /\ ToSet(inner) \cap outer = {}
    /\ (ToSet(inner) \cup outer) \cap draining = {}
    /\ limbo \notin ToSet(inner) \cup outer \cup draining

\* What the threads remember is still true when they use it: finished drains
\* are still in _draining_servers (no KeyError in its del), servers the loops
\* of rotate() are about to move are still in the inner ring (no ValueError in
\* its remove), and the pull after a removal has somebody to pull.
SnapshotsHold ==
    /\ completed \subseteq draining
    /\ todo \subseteq ToSet(inner)
    /\ limbo # None => pc = "drain"
    /\ pc # "drain" => completed = {}
    /\ pc \notin {"evict", "health"} => todo = {}
    /\ pulling => pc \in {"idle", "drain"} /\ NeedsPull(inner, outer)

\* max_inner_size is never exceeded, whichever of add_server, rotate() and the
\* pull after a removal fills the inner ring.
InnerWithinMax == Len(inner) <= MaxInner

\* A rotation never takes the inner ring below min_inner_size, however many
\* servers are hot or unhealthy: only an operator can (force_evict, remove).
RotateKeepsMinimum ==
    [][Len(inner') >= Len(inner) \/ Len(inner') >= MinInner \/ ~RotationThread]_vars

\* Anti-flapping: rotate() lets a server back in only when it is cooled, past
\* its cold start, and has rested min_outer_dwell_sec since it ENTERED the
\* outer ring: draining time does not count as rest.
RestsBeforeReturn ==
    [][/\ pc = "promote" => \A s \in ToSet(inner') \ ToSet(inner) :
            s \in outer /\ age[s] >= Dwell /\ cold[s] = 0 /\ temp[s] <= CoolThreshold
       /\ \A s \in (outer' \ outer) \cap Members : age'[s] = 0]_vars

\* Requests go to the inner ring while it has anybody: a sticky binding that
\* outlived its server (evicted, draining or removed) is never followed.
NoTrafficOutsideRing ==
    inner # <<>> => \A k \in Key \cup {None} : Routes(k) \subseteq ToSet(inner)

\* A drain ends: the server reaches the outer ring (or is force-removed from
\* it) when its connections close or the timeout passes, even though it is in
\* no ring in between.
DrainEnds == \A s \in Server : s \in draining ~> s \in outer

\* While the inner ring is above its minimum, an unhealthy server does not stay.
UnhealthyLeaves ==
    \A s \in Server :
        (s \in ToSet(inner) /\ faults[s] # {}) ~>
            (s \notin ToSet(inner) \/ faults[s] = {} \/ Len(inner) <= MinInner)

\* Once operators are quiet and every server stays cool and healthy, the inner
\* ring fills up: nobody stays at rest beside a free place.
AllCool == \A s \in Members : temp[s] <= CoolThreshold /\ faults[s] = {}
RingRefills ==
    (<>[]AllCool /\ <>[][~Operator]_vars) =>
        []<>(outer = {} \/ Len(inner) = MaxInner)

-----------------------------------------------------------------------------
(* The rings implement Huddle.                                             *)

\* A server in the hands of the rotation thread is still draining.
PlaceOf == [s \in Server |->
    IF s \in outer THEN "resting"
    ELSE IF s \in draining \/ s = limbo THEN "draining"
    ELSE IF s \in ToSet(inner) THEN "serving"
    ELSE "absent"]

H == INSTANCE Huddle WITH Capacity <- MaxInner, Drains <- (DrainTimeout > 0), place <- PlaceOf

\* Servers move one at a time and only along the ways of Huddle: into the
\* inner ring only from rest and only while there is room, out of it by way of
\* draining exactly when connections are open, however rotations, unlocked
\* drains, pulls and callbacks that raise interleave.
ImplementsHuddle == H!Spec

-----------------------------------------------------------------------------
(* What the code's comments claim and the runs refute.                     *)

\* "When a pod is removed or becomes not-ready its address is removed"
\* (K8sDiscovery): a server the operator removed does not come back to the
\* inner ring.
RemovedStaysOut == ToSet(inner) \subseteq wanted

=============================================================================
