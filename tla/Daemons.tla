------------------------------- MODULE Daemons -------------------------------
(***************************************************************************)
(* The components that work in background threads, each with constants and *)
(* variables of its own.  They share nothing but the names of their        *)
(* threads, of which there are several so that a restart can leave one      *)
(* behind.  As in Services one of them is active and the others stand       *)
(* still; what must eventually happen is checked under the fairness of its  *)
(* module.                                                                 *)
(***************************************************************************)
EXTENDS Naturals, FiniteSets

CONSTANTS
  None, Thread,
  b_Node, b_Faulty, b_Moving,
  f_Caller, f_Limit, f_Failures,
  t_Heat, t_Cool, t_Half, t_HeatLow, t_HeatHigh, t_CoolLow, t_Gap, t_Full,
  t_Weight,
  s_MinNodes, s_MaxNodes, s_Sickly, s_Losses,
  w_Hook, w_Caller, w_MaxQueue, w_MaxRetries, w_MaxEvents, w_MaxStarts,
  l_MaxQueue, l_MaxAlerts, l_MaxStarts,
  o_BufferSize, o_MaxEvents, o_MaxStarts,
  d_Pod, d_MaxCopies,
  g_Node, g_Group, g_Labels,
  p_MaxChanges, p_Long, p_MaxThreads

VARIABLES
  active,
  b_known, b_rate, b_state, b_expired, b_running, b_loop, b_sample,
  b_resetting, b_heard,
  f_well, f_resting, f_rate, f_healthy, f_fails, f_call, f_probe, f_check,
  f_running,
  t_heat, t_cool, t_current, t_at, t_pair,
  s_alive, s_sick, s_booting, s_retiring, s_losses, s_cooling, s_running,
  s_loop,
  w_running, w_subs, w_queue, w_call, w_worker, w_history, w_stopping,
  w_events, w_starts,
  l_running, l_queue, l_worker, l_last, l_posted, l_stopping, l_fired,
  l_starts,
  o_events, o_exported, o_recorded, o_stopped, o_last, o_thread, o_sent,
  o_starts,
  d_ready, d_known, d_copies, d_draining, d_running, d_watch, d_lost,
  g_alive, g_members, g_up, g_running, g_loop, g_heard,
  p_servers, p_sending, p_senders, p_receiving, p_receivers, p_net, p_heard

bvars == <<b_known, b_rate, b_state, b_expired, b_running, b_loop, b_sample,
    b_resetting, b_heard>>
fvars == <<f_well, f_resting, f_rate, f_healthy, f_fails, f_call, f_probe,
    f_check, f_running>>
tvars == <<t_heat, t_cool, t_current, t_at, t_pair>>
svars == <<s_alive, s_sick, s_booting, s_retiring, s_losses, s_cooling,
    s_running, s_loop>>
wvars == <<w_running, w_subs, w_queue, w_call, w_worker, w_history,
    w_stopping, w_events, w_starts>>
lvars == <<l_running, l_queue, l_worker, l_last, l_posted, l_stopping,
    l_fired, l_starts>>
ovars == <<o_events, o_exported, o_recorded, o_stopped, o_last, o_thread,
    o_sent, o_starts>>
dvars == <<d_ready, d_known, d_copies, d_draining, d_running, d_watch,
    d_lost>>
gvars == <<g_alive, g_members, g_up, g_running, g_loop, g_heard>>
pvars == <<p_servers, p_sending, p_senders, p_receiving, p_receivers, p_net,
    p_heard>>

B == INSTANCE CircuitBreaker WITH
  Node <- b_Node, Faulty <- b_Faulty, Moving <- b_Moving, Loop <- Thread,
  known <- b_known, rate <- b_rate, state <- b_state, expired <- b_expired,
  running <- b_running, loop <- b_loop, sample <- b_sample,
  resetting <- b_resetting, heard <- b_heard

F == INSTANCE Feedback WITH
  Caller <- f_Caller, Limit <- f_Limit, Failures <- f_Failures,
  Checker <- Thread,
  well <- f_well, resting <- f_resting, rate <- f_rate, healthy <- f_healthy,
  fails <- f_fails, call <- f_call, probe <- f_probe, check <- f_check,
  running <- f_running

T == INSTANCE Thresholds WITH
  Heat <- t_Heat, Cool <- t_Cool, Half <- t_Half, HeatLow <- t_HeatLow,
  HeatHigh <- t_HeatHigh, CoolLow <- t_CoolLow, Gap <- t_Gap, Full <- t_Full,
  Weight <- t_Weight, Rotator <- Thread,
  heat <- t_heat, cool <- t_cool, current <- t_current, at <- t_at,
  pair <- t_pair

S == INSTANCE AutoScaler WITH
  MinNodes <- s_MinNodes, MaxNodes <- s_MaxNodes, Sickly <- s_Sickly,
  Losses <- s_Losses, Loop <- Thread,
  alive <- s_alive, sick <- s_sick, booting <- s_booting,
  retiring <- s_retiring, losses <- s_losses, cooling <- s_cooling,
  running <- s_running, loop <- s_loop

W == INSTANCE Webhooks WITH
  Hook <- w_Hook, Caller <- w_Caller, MaxQueue <- w_MaxQueue,
  MaxRetries <- w_MaxRetries, MaxEvents <- w_MaxEvents,
  MaxStarts <- w_MaxStarts, Worker <- Thread, Mark <- None,
  running <- w_running, subs <- w_subs, queue <- w_queue, call <- w_call,
  worker <- w_worker, history <- w_history, stopping <- w_stopping,
  events <- w_events, starts <- w_starts

L == INSTANCE Alerts WITH
  MaxQueue <- l_MaxQueue, MaxAlerts <- l_MaxAlerts, MaxStarts <- l_MaxStarts,
  Worker <- Thread, Mark <- None,
  running <- l_running, queue <- l_queue, worker <- l_worker, last <- l_last,
  posted <- l_posted, stopping <- l_stopping, fired <- l_fired,
  starts <- l_starts

O == INSTANCE Observability WITH
  BufferSize <- o_BufferSize, MaxEvents <- o_MaxEvents,
  MaxStarts <- o_MaxStarts,
  events <- o_events, exported <- o_exported, recorded <- o_recorded,
  stopped <- o_stopped, last <- o_last, thread <- o_thread, sent <- o_sent,
  starts <- o_starts

D == INSTANCE PodDiscovery WITH
  Pod <- d_Pod, MaxCopies <- d_MaxCopies, Watcher <- Thread,
  ready <- d_ready, known <- d_known, copies <- d_copies,
  draining <- d_draining, running <- d_running, watch <- d_watch,
  lost <- d_lost

G == INSTANCE Groups WITH
  Node <- g_Node, Group <- g_Group, Labels <- g_Labels, Loop <- Thread,
  alive <- g_alive, members <- g_members, up <- g_up, running <- g_running,
  loop <- g_loop, heard <- g_heard

P == INSTANCE Gossip WITH
  MaxChanges <- p_MaxChanges, Long <- p_Long, MaxThreads <- p_MaxThreads,
  servers <- p_servers, sending <- p_sending, senders <- p_senders,
  receiving <- p_receiving, receivers <- p_receivers, net <- p_net,
  heard <- p_heard

ASSUME ThreadsAssumption == IsFiniteSet(Thread)
ASSUME AbsentAssumption == None \notin W!Item
ASSUME SizesAssumption == s_MinNodes \in Nat /\ o_BufferSize \in Nat /\ w_MaxEvents \in Nat
ASSUME LimitsAssumption == T!LimitsAssumption

-----------------------------------------------------------------------------
all == <<active, bvars, fvars, tvars, svars, wvars, lvars, ovars, dvars, gvars,
         pvars>>

SumInit ==
  /\ active \in {"breakers", "feedback", "thresholds", "autoscaler", "webhooks",
                  "alerts", "events", "pods", "groups", "gossip"}
  /\ B!Init /\ F!Init /\ T!Init /\ S!Init /\ W!Init /\ L!Init
     /\ O!Init /\ D!Init /\ G!Init /\ P!Init

(* The other components stand still. *)
Only(c) ==
  /\ active = c /\ UNCHANGED active
  /\ IF c = "breakers" THEN TRUE ELSE UNCHANGED bvars
  /\ IF c = "feedback" THEN TRUE ELSE UNCHANGED fvars
  /\ IF c = "thresholds" THEN TRUE ELSE UNCHANGED tvars
  /\ IF c = "autoscaler" THEN TRUE ELSE UNCHANGED svars
  /\ IF c = "webhooks" THEN TRUE ELSE UNCHANGED wvars
  /\ IF c = "alerts" THEN TRUE ELSE UNCHANGED lvars
  /\ IF c = "events" THEN TRUE ELSE UNCHANGED ovars
  /\ IF c = "pods" THEN TRUE ELSE UNCHANGED dvars
  /\ IF c = "groups" THEN TRUE ELSE UNCHANGED gvars
  /\ IF c = "gossip" THEN TRUE ELSE UNCHANGED pvars

BreakerStep == Only("breakers") /\ B!Next
FeedbackStep == Only("feedback") /\ F!Next
ThresholdStep == Only("thresholds") /\ T!Next
ScalerStep == Only("autoscaler") /\ S!Next
WebhookStep == Only("webhooks") /\ W!Next
AlertStep == Only("alerts") /\ L!Next
EventStep == Only("events") /\ O!Next
PodStep == Only("pods") /\ D!Next
GroupStep == Only("groups") /\ G!Next
GossipStep == Only("gossip") /\ P!Next

SumNext ==
  \/ BreakerStep \/ FeedbackStep \/ ThresholdStep \/ ScalerStep
  \/ WebhookStep \/ AlertStep \/ EventStep \/ PodStep
  \/ GroupStep \/ GossipStep

(* The fairness of the modules, for the component that is active. *)
SumFairness ==
  /\ \A t \in Thread :
       /\ WF_bvars(active = "breakers" /\ B!LoopStep(t))
       /\ WF_fvars(active = "feedback" /\ F!Check(t))
       /\ WF_svars(active = "autoscaler" /\ S!LoopStep(t))
       /\ WF_wvars(active = "webhooks" /\ W!Work(t))
       /\ WF_lvars(active = "alerts" /\ L!Work(t))
       /\ WF_ovars(active = "events" /\ O!Export(t))
       /\ SF_ovars(active = "events" /\ O!Posted(t))
       /\ WF_dvars(active = "pods" /\ D!Work(t))
       /\ SF_dvars(active = "pods" /\ D!Fetched(t))
       /\ SF_dvars(active = "pods" /\ D!Added(t))
       /\ WF_gvars(active = "groups" /\ G!Work(t))
  /\ WF_pvars(active = "gossip" /\ P!Sent)
  /\ SF_pvars(active = "gossip" /\ P!Received)
  /\ \A d \in P!Ring : WF_pvars(active = "gossip" /\ P!Gone(d))
  /\ \A n \in b_Node : WF_bvars(active = "breakers" /\ B!ResetTold(n))
  /\ \A c \in f_Caller : WF_fvars(active = "feedback" /\ F!Request(c))
  /\ WF_svars(active = "autoscaler" /\ S!Boots)
  /\ WF_svars(active = "autoscaler" /\ S!Retires)
  /\ WF_svars(active = "autoscaler" /\ S!Recovers)
  /\ \A d \in {"up", "down"} : SF_svars(active = "autoscaler" /\ S!CooldownOver(d))

SumSpec == SumInit /\ [][SumNext]_all

FairSumSpec == SumSpec /\ SumFairness

-----------------------------------------------------------------------------
(* The books of the daemons are right at every moment: a listener is not     *)
(* left with a trip when its node may be picked again, no thresholds make a   *)
(* server hot and cool at once, advice is not repeated before it has had an   *)
(* effect, the discovery's servers are there and are its own, no event        *)
(* reaches a hook twice, and none before the export position is unsent.       *)
BooksRight ==
  /\ active = "breakers" => B!NoFalseAlarm
  /\ active = "thresholds" => T!NoFlap
  /\ active = "autoscaler" => S!AdviceBounded
  /\ active = "pods" => D!PodsAccounted
  /\ active = "webhooks" => W!DeliveredOnce
  /\ active = "events" => O!SentUpTo

(* Servers that do well again are used again: the breaker of a node whose    *)
(* heartbeats report a good error rate closes for good (_evaluate), and a    *)
(* server that answers the health checker is healthy in the end and stays so *)
(* (_run_health_checks).                                                     *)
ServersReturn ==
  /\ active = "breakers" => B!BreakerCloses
  /\ active = "feedback" => F!HealthFollows

(* The fleet follows: the auto-scaler's advice settles it between its        *)
(* limits, and the ready pods of Kubernetes end up in the cluster.           *)
FleetFollows ==
  /\ active = "autoscaler" => S!FleetSettles
  /\ active = "pods" => D!PodsMirrored

(* News arrives: a listener for services or regions knows in the end whether *)
(* one of their nodes is alive, an agent that listens to gossip what the      *)
(* inner ring of another has become, and what is queued, webhooks, alerts and *)
(* events for an OTLP collector, is delivered while the thread that delivers  *)
(* lives.                                                                    *)
NewsArrives ==
  /\ active = "groups" => G!GroupsTold
  /\ active = "gossip" => P!PeerHeard
  /\ active = "webhooks" => W!FirstLifeDelivers
  /\ active = "alerts" => L!FirstLifePosts
  /\ active = "events" => O!LogsExported
=============================================================================
