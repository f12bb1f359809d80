----------------------------- MODULE MasterAPI -----------------------------
(***************************************************************************)
(* The REST interface of MasterNode (cluster_master.py): what a request    *)
(* must pass before a component is asked, and which answer it gets.  The   *)
(* components are modules of their own; here one of them has or has not    *)
(* been changed through a master.                                          *)
(*                                                                         *)
(* Every request has a thread, and elections and the partition guard       *)
(* (ClusterHA) go on between its steps.                                    *)
(***************************************************************************)
EXTENDS Naturals, FiniteSets

CONSTANTS
  Master,
  Client,
  Keyed,     \* api_keys is given
  Key,       \* what clients send as a key
  Scopes,    \* [Key -> scopes], resolved; {} if the key is unknown
  Enabled    \* the components the masters are given

VARIABLES
  running,   \* _running
  leads,     \* masters whose is_leader() is true: never while read-only
  readonly,  \* masters whose partition guard refuses writes
  changed,   \* <<master, component>>: changed through the interface
  req,       \* the requests
  seen       \* history: what was true of its master since a request began

vars == <<running, leads, readonly, changed, req, seen>>

-----------------------------------------------------------------------------
(* The routes: the scope a key needs ("" for none), the component, whether   *)
(* the leader is asked for, whether there is a body that may be malformed,   *)
(* the answer if the component refuses (0 if it never does), and whether it  *)
(* is changed.                                                               *)

Route(scope, feature, led, body, refusal, writes) ==
  [scope |-> scope, feature |-> feature, led |-> led, body |-> body,
   refusal |-> refusal, writes |-> writes]

Raft == Route("", "ha", FALSE, TRUE, 0, TRUE)
Join == Route("nodes:write", "registry", TRUE, TRUE, 400, TRUE)
Heartbeat == Route("nodes:write", "registry", TRUE, TRUE, 404, TRUE)
Leave == Route("nodes:write", "registry", TRUE, FALSE, 404, TRUE)
Report == Route("scheduler:write", "scheduler", FALSE, TRUE, 0, TRUE)
Rollout == Route("rollout:control", "rolling_updater", FALSE, FALSE, 409, TRUE)
AnnounceService == Route("discovery:write", "service_discovery", FALSE, TRUE, 0, TRUE)
Deregister == Route("discovery:write", "service_discovery", FALSE, FALSE, 404, TRUE)
AnnounceRegion == Route("regions:write", "multi_region", FALSE, TRUE, 0, TRUE)
ResetBreaker == Route("breakers:reset", "circuit_breaker", FALSE, FALSE, 404, TRUE)
ResetBucket == Route("ratelimits:reset", "rate_limiter", FALSE, FALSE, 404, TRUE)
Canary == Route("canary:control", "canary", FALSE, FALSE, 409, TRUE)
AnnounceCanary == Route("canary:control", "canary", FALSE, TRUE, 0, TRUE)
AddWebhook == Route("webhooks:write", "webhooks", FALSE, TRUE, 400, TRUE)
PingWebhook == Route("webhooks:write", "webhooks", FALSE, FALSE, 400, TRUE)
DeleteWebhook == Route("webhooks:write", "webhooks", FALSE, FALSE, 404, TRUE)

Writes == {Raft, Join, Heartbeat, Leave, Report, Rollout, AnnounceService, Deregister,
           AnnounceRegion, ResetBreaker, ResetBucket, Canary, AnnounceCanary,
           AddWebhook, PingWebhook, DeleteWebhook}

(* Of the reads only the first places a request; a missing node is a 404, a   *)
(* parameter out of range a 400.                                              *)
Next_ == Route("scheduler:read", "scheduler", FALSE, FALSE, 503, TRUE)
Open == Route("", "registry", FALSE, FALSE, 0, FALSE)
HaStatus == Route("", "ha", FALSE, FALSE, 0, FALSE)
Nodes == Route("nodes:read", "registry", FALSE, TRUE, 404, FALSE)
Read(name, feature, refusal) ==
  Route(name, feature, FALSE, refusal = 400, refusal, FALSE)

Reads == {Next_, Open, HaStatus, Nodes,
          Read("status:read", "registry", 0), Read("metrics:read", "registry", 0),
          Read("scheduler:read", "scheduler", 0), Read("autoscaler:read", "autoscaler", 0),
          Read("rollout:read", "rolling_updater", 0),
          Read("discovery:read", "service_discovery", 0),
          Read("regions:read", "multi_region", 0),
          Read("breakers:read", "circuit_breaker", 404),
          Read("ratelimits:read", "rate_limiter", 404),
          Read("canary:read", "canary", 0),
          Read("observability:read", "observability", 400),
          Read("webhooks:read", "webhooks", 404)}

-----------------------------------------------------------------------------
NoRequest == [at |-> "idle", to |-> {}, key |-> {}, route |-> Open, answer |-> 0]

Init ==
  /\ running = {} /\ leads = {} /\ readonly = {} /\ changed = {}
  /\ req = [c \in Client |-> NoRequest]
  /\ seen = [c \in Client |-> {}]

(* ClusterHA, and start() and stop() of a master, whose HTTP server answers   *)
(* a little longer.                                                           *)
RoleChanges(m) ==
  /\ m \notin readonly
  /\ leads' = IF m \in leads THEN leads \ {m} ELSE leads \cup {m}
  /\ UNCHANGED <<running, readonly, changed, req>>

(* A leader that was made read-only may find that it leads again.            *)
GuardChanges(m) ==
  /\ \/ /\ m \notin readonly /\ readonly' = readonly \cup {m}
        /\ leads' = leads \ {m}
     \/ /\ m \in readonly /\ readonly' = readonly \ {m}
        /\ leads' \in {leads, leads \cup {m}}
  /\ UNCHANGED <<running, changed, req>>

StartsOrStops(m) ==
  /\ running' = IF m \in running THEN running \ {m} ELSE running \cup {m}
  /\ UNCHANGED <<leads, readonly, changed, req>>

-----------------------------------------------------------------------------
Sends(c) ==
  /\ req[c].at = "idle"
  /\ \E m \in Master, k \in Key, route \in Writes \cup Reads :
       req' = [req EXCEPT ![c] =
         [NoRequest EXCEPT !.at = "scope", !.to = {m}, !.key = {k}, !.route = route]]
  /\ UNCHANGED <<running, leads, readonly, changed>>

Goes(c, at) == req' = [req EXCEPT ![c].at = at]

(* All answers but those of _check_leader are recorded as events             *)
(* (Observability).                                                          *)
Answers(c, code) ==
  req' = [req EXCEPT ![c] = [NoRequest EXCEPT !.at = "answered", !.answer = code]]

Received(c) ==
  /\ req[c].at = "answered"
  /\ req' = [req EXCEPT ![c] = NoRequest]
  /\ UNCHANGED <<running, leads, readonly, changed>>

(* readyz: no key is asked for, and the answer depends on the master.        *)
Readyz(c) ==
  /\ req[c].at = "idle"
  /\ \E m \in Master, known \in BOOLEAN :
       Answers(c, IF m \in running \ readonly /\ ("ha" \in Enabled => m \in leads \/ known)
                    THEN 200 ELSE 503)
  /\ UNCHANGED <<running, leads, readonly, changed>>

CheckAuth(c) ==
  LET scope == req[c].route.scope
      granted == UNION {Scopes[k] : k \in req[c].key}
  IN
  /\ req[c].at = "scope"
  /\ IF ~Keyed \/ scope \in granted \cup {""} THEN Goes(c, "guard")
     ELSE Answers(c, IF granted = {} THEN 401 ELSE 403)
  /\ UNCHANGED <<running, leads, readonly, changed>>

(* _check_leader: the guard and the role are two questions.                  *)
CheckGuard(c) ==
  /\ req[c].at = "guard"
  /\ IF req[c].route.led /\ "ha" \in Enabled /\ req[c].to \subseteq readonly
       THEN Answers(c, 503)
       ELSE Goes(c, IF req[c].route.led /\ "ha" \in Enabled THEN "lead" ELSE "feature")
  /\ UNCHANGED <<running, leads, readonly, changed>>

CheckLeader_NotLeave(c) ==
  /\ req[c].at = "lead"
  /\ IF req[c].to \subseteq leads \/ req[c].route = Leave
       THEN Goes(c, "feature") ELSE Answers(c, 307)
  /\ UNCHANGED <<running, leads, readonly, changed>>

CheckLeader(c) ==
  /\ req[c].at = "lead"
  /\ IF req[c].to \subseteq leads THEN Goes(c, "feature") ELSE Answers(c, 307)
  /\ UNCHANGED <<running, leads, readonly, changed>>

CheckFeature(c) ==
  /\ req[c].at = "feature"
  /\ IF req[c].route.feature \in Enabled \cup {"registry"}
       THEN Goes(c, "do") ELSE Answers(c, 503)
  /\ UNCHANGED <<running, leads, readonly, changed>>

(* The body is not JSON or lacks a field, or the component is called.        *)
Perform(c) ==
  LET route == req[c].route IN
  /\ req[c].at = "do"
  /\ \/ route.body /\ Answers(c, 400) /\ UNCHANGED changed
     \/ route.refusal # 0 /\ Answers(c, route.refusal) /\ UNCHANGED changed
     \/ /\ Answers(c, 200)
        /\ changed' = IF route.writes
                        THEN changed \cup {<<m, route.feature>> : m \in req[c].to}
                        ELSE changed
  /\ UNCHANGED <<running, leads, readonly>>

Handle(c) ==
  Received(c) \/ CheckAuth(c) \/ CheckGuard(c) \/ CheckLeader(c) \/ CheckFeature(c) \/ Perform(c)

(* A request has seen its master writable, or leading, at some moment.       *)
Observe ==
  seen' = [c \in Client |->
    IF req[c].at \in {"idle", "answered"} \/ req'[c].at = "answered"
    THEN {}
    ELSE seen[c] \cup (IF req[c].to \subseteq readonly THEN {} ELSE {"writable"})
                 \cup (IF req[c].to \subseteq leads THEN {"leads"} ELSE {})]

Next ==
  /\ \/ \E m \in Master : RoleChanges(m) \/ GuardChanges(m) \/ StartsOrStops(m)
     \/ \E c \in Client : Sends(c) \/ Readyz(c) \/ Handle(c)
  /\ Observe

Spec == Init /\ [][Next]_vars

-----------------------------------------------------------------------------
(* With HA, a request changes the registry of a master only if the master    *)
(* led, and its guard let writes pass, while the request was handled: not    *)
(* necessarily when it does.  Nothing of the kind holds of the other         *)
(* components, whose routes ask for no leader.                               *)
WriteLed ==
  \A m \in Master :
    <<m, "registry">> \in changed' \ changed /\ "ha" \in Enabled =>
      \E c \in Client :
        req[c].at = "do" /\ req[c].to = {m} /\ seen[c] = {"writable", "leads"}

RegistryWritesLed == [][WriteLed]_vars
=============================================================================
