------------------------------ MODULE Retries ------------------------------
(***************************************************************************)
(* request_with_retry and get_server_context of HuddleCluster               *)
(* (huddle_cluster.py): a request is tried on one server after another      *)
(* while the rotation moves servers between the rings, other requests turn  *)
(* the inner ring and traffic ramps come and go.                            *)
(*                                                                         *)
(* Of the rings (HuddleRings) only the membership matters here: Moves is    *)
(* any of their steps.  Temperatures choose the head of the outer ring:     *)
(* any resting server may be it.                                            *)
(***************************************************************************)
EXTENDS Naturals, Sequences, SequencesExt, FiniteSets

CONSTANTS
  Server, None,
  Caller,
  MaxRetries,
  Key,        \* affinity keys
  Frail,      \* servers whose failures make them unhealthy
  Ramped      \* servers whose traffic operators ramp

VARIABLES
  inner,      \* _inner_ring, whose head is served next
  resting,    \* servers in the outer ring, or draining
  unhealthy,  \* not is_healthy
  ramps,      \* servers with an entry in _ramps
  bound,      \* _affinity_map
  call,       \* the requests under way
  stayed      \* history: servers in the inner ring since the call began

vars == <<inner, resting, unhealthy, ramps, bound, call, stayed>>

Idle == [at |-> "idle", server |-> None, tried |-> <<>>, most |-> 0]

Init ==
  /\ inner \in SetToSeqs(Server) /\ resting = {}
  /\ unhealthy = {} /\ ramps = {}
  /\ bound = [k \in Key |-> None]
  /\ call = [c \in Caller |-> Idle]
  /\ stayed = [c \in Caller |-> Server]

-----------------------------------------------------------------------------
(* The rings, and start_traffic_ramp, stop_traffic_ramp, _update_ramps.      *)

Moves(s) ==
  /\ \/ /\ s \in resting
        /\ inner' = Append(inner, s) /\ resting' = resting \ {s}
     \/ /\ s \in ToSet(inner)
        /\ inner' = SelectSeq(inner, LAMBDA t : t # s)
        /\ resting' = resting \cup {s}
  /\ UNCHANGED <<unhealthy, ramps, bound, call>>

Recovers(s) ==
  /\ s \in unhealthy
  /\ unhealthy' = unhealthy \ {s}
  /\ UNCHANGED <<inner, resting, ramps, bound, call>>

(* A ramp may be replaced; what a ramp does to a weight is left out.         *)
StartTrafficRamp(s) ==
  /\ s \in Ramped
  /\ ramps' = ramps \cup {s}
  /\ UNCHANGED <<inner, resting, unhealthy, bound, call>>

StopTrafficRamp(s) ==
  /\ s \in ramps
  /\ ramps' = ramps \ {s}
  /\ UNCHANGED <<inner, resting, unhealthy, bound, call>>

(* The rotation drops the ramps that have ended. *)
UpdateRamps ==
  /\ \E ended \in SUBSET ramps : ramps' = ramps \ ended
  /\ UNCHANGED <<inner, resting, unhealthy, bound, call>>

(* clear_affinity: of one key or of all. *)
ClearAffinity ==
  /\ \E ks \in {{k} : k \in Key} \cup {Key} :
       bound' = [k \in Key |-> IF k \in ks THEN None ELSE bound[k]]
  /\ UNCHANGED <<inner, resting, unhealthy, ramps, call>>

-----------------------------------------------------------------------------
(* deque.rotate(-1), k times. *)
Turned(k) == SubSeq(inner, k + 1, Len(inner)) \o SubSeq(inner, 1, k)

(* The coolest of the outer ring; None if it is empty, as when all drain.     *)
Emergency(s) == inner = <<>> /\ s \in resting \cup {None}

(* Every weight is above zero: any server may be drawn. *)
WeightedSelect(s) == s \in ToSet(inner)

(* get_server(key): a sticky binding, one of all when ramps are active, or   *)
(* the head.                                                                 *)
GetServer(k, s) ==
  \/ Emergency(s) /\ UNCHANGED <<inner, bound>>
  \/ /\ inner # <<>>
     /\ \/ /\ k # None /\ bound[k] \in ToSet(inner) \ unhealthy
           /\ s = bound[k] /\ UNCHANGED <<inner, bound>>
        \/ /\ k = None /\ ramps # {}
           /\ WeightedSelect(s) /\ UNCHANGED <<inner, bound>>
        \/ /\ IF k = None THEN ramps = {} ELSE bound[k] \notin ToSet(inner) \ unhealthy
           /\ s = Head(inner) /\ inner' = Turned(1)
           /\ bound' = IF k = None THEN bound ELSE [bound EXCEPT ![k] = s]

(* The head goes to the back until it has not been tried; if all have, the   *)
(* head is served again.                                                     *)
Excluding_Last(tried, s) ==
  \/ Emergency(s) /\ UNCHANGED inner
  \/ \E i \in DOMAIN inner :
       /\ s = inner[i] /\ s # Last(tried)
       /\ \A j \in 1 .. i - 1 : inner[j] = Last(tried)
       /\ inner' = Turned(i)
  \/ /\ inner # <<>> /\ ToSet(inner) = {Last(tried)}
     /\ s = Head(inner) /\ inner' = Turned(1)

GetServerExcluding(tried, s) ==
  \/ Emergency(s) /\ UNCHANGED inner
  \/ \E i \in DOMAIN inner :
       /\ s = inner[i] /\ s \notin ToSet(tried)
       /\ \A j \in 1 .. i - 1 : inner[j] \in ToSet(tried)
       /\ inner' = Turned(i)
  \/ /\ inner # <<>> /\ ToSet(inner) \subseteq ToSet(tried)
     /\ s = Head(inner) /\ inner' = Turned(1)

-----------------------------------------------------------------------------
(* A request: of get_server_context it is one attempt.                       *)

Tries(c, s) ==
  LET tried == Append(call[c].tried, s) IN
  call' = [call EXCEPT ![c] =
    IF s = None THEN [@ EXCEPT !.at = "failed"]
    ELSE [@ EXCEPT !.at = "try", !.server = s, !.tried = tried]]

Begin(c) ==
  /\ call[c].at = "idle"
  /\ \E k \in Key \cup {None}, most \in {0, MaxRetries}, s \in Server \cup {None} :
       /\ GetServer(k, s)
       /\ call' = [call EXCEPT ![c] =
            [at |-> IF s = None THEN "failed" ELSE "try", server |-> s,
             tried |-> IF s = None THEN <<>> ELSE <<s>>, most |-> most]]
  /\ UNCHANGED <<resting, unhealthy, ramps>>

Succeed(c) ==
  /\ call[c].at = "try"
  /\ call' = [call EXCEPT ![c] = Idle]
  /\ UNCHANGED <<inner, resting, unhealthy, ramps, bound>>

(* The server is penalised: enough failures make it unhealthy.               *)
Fail(c) ==
  /\ call[c].at = "try"
  /\ unhealthy' \in {unhealthy, unhealthy \cup ({call[c].server} \cap Frail)}
  /\ call' = [call EXCEPT ![c].at =
       IF Len(call[c].tried) <= call[c].most THEN "again" ELSE "failed"]
  /\ UNCHANGED <<inner, resting, ramps, bound>>

(* Not in retry_on: raised at once, nobody is penalised. *)
Raise(c) ==
  /\ call[c].at = "try"
  /\ call' = [call EXCEPT ![c] = Idle]
  /\ UNCHANGED <<inner, resting, unhealthy, ramps, bound>>

Again(c) ==
  /\ call[c].at = "again"
  /\ \E s \in Server \cup {None} : GetServerExcluding(call[c].tried, s) /\ Tries(c, s)
  /\ UNCHANGED <<resting, unhealthy, ramps, bound>>

(* RetryExhaustedError, with the servers that were tried.                    *)
GiveUp(c) ==
  /\ call[c].at = "failed"
  /\ call' = [call EXCEPT ![c] = Idle]
  /\ UNCHANGED <<inner, resting, unhealthy, ramps, bound>>

(* Somebody else's get_server(). *)
Other ==
  /\ \E k \in Key \cup {None}, s \in Server \cup {None} : GetServer(k, s)
  /\ UNCHANGED <<resting, unhealthy, ramps, call>>

Request(c) == Begin(c) \/ Succeed(c) \/ Fail(c) \/ Raise(c) \/ Again(c) \/ GiveUp(c)

Next ==
  /\ \/ UpdateRamps \/ ClearAffinity \/ Other
     \/ \E s \in Server : Moves(s) \/ Recovers(s)
                          \/ StartTrafficRamp(s) \/ StopTrafficRamp(s)
     \/ \E c \in Caller : Request(c)
  /\ stayed' = [c \in Caller |->
       IF call'[c].at = "idle" THEN Server
       ELSE stayed[c] \cap ToSet(inner) \cap ToSet(inner')]

Spec == Init /\ [][Next]_vars

-----------------------------------------------------------------------------
(* A retry is not wasted: a call has tried as many servers as it has made    *)
(* attempts, or every server that was in the inner ring throughout.  Other   *)
(* callers turn the ring and the rotation empties and fills it in between.   *)
NoWastedRetry ==
  \A c \in Caller :
    LET tried == ToSet(call[c].tried) IN
    Cardinality(tried) = Len(call[c].tried) \/ stayed[c] \subseteq tried
=============================================================================
