------------------------------ MODULE Services ------------------------------
(***************************************************************************)
(* The services that requests pass through and operators use: Placement,    *)
(* and beside it retries, gRPC channels, hedging, remediation, state files  *)
(* and the HTTP API of a master, each with constants and variables of its   *)
(* own.                                                                    *)
(*                                                                         *)
(* They share no state, and what one sees of another is nondeterministic in *)
(* its own module: interleaving two of them shows nothing that one alone    *)
(* does not.  So a behaviour here is a behaviour of one of them, `active`,  *)
(* and the others stand still: the state space is the sum of theirs, not    *)
(* the product.                                                            *)
(***************************************************************************)
EXTENDS Placement, SequencesExt

CONSTANTS
  r_Server, r_Caller, r_MaxRetries, r_Frail, r_Ramped,
  k_Server, k_Caller, k_MaxChannels,
  h_Caller, h_Num, h_Den, h_Free, h_MaxTotal,
  q_Server, q_Thread, q_MinInner, q_Threshold, q_MaxRetries,
  c_Saver, c_Stopper, c_MaxChanges, c_MaxCrashes,
  a_Master, a_Client, a_Keyed, a_Key, a_Scopes, a_Enabled

ASSUME AbsentAssumption == None \notin Nat

VARIABLES
  active,
  r_inner, r_resting, r_unhealthy, r_ramps, r_bound, r_call, r_stayed,
  k_channel, k_made, k_open, k_call, k_life, k_late,
  h_total, h_hedged, h_throttled, h_wins, h_at, h_ok, h_first, h_second,
  q_ring, q_lock, q_run, q_state, q_quarantined, q_streak, q_since,
  q_attempts,
  c_place, c_process, c_live, c_stored, c_save, c_floor, c_crashes,
  a_running, a_leads, a_readonly, a_changed, a_req, a_seen

rvars == <<r_inner, r_resting, r_unhealthy, r_ramps, r_bound, r_call,
    r_stayed>>
kvars == <<k_channel, k_made, k_open, k_call, k_life, k_late>>
hvars == <<h_total, h_hedged, h_throttled, h_wins, h_at, h_ok, h_first,
    h_second>>
qvars == <<q_ring, q_lock, q_run, q_state, q_quarantined, q_streak, q_since,
    q_attempts>>
cvars == <<c_place, c_process, c_live, c_stored, c_save, c_floor, c_crashes>>
avars == <<a_running, a_leads, a_readonly, a_changed, a_req, a_seen>>

R == INSTANCE Retries WITH
  Server <- r_Server, Caller <- r_Caller, MaxRetries <- r_MaxRetries,
  Frail <- r_Frail, Ramped <- r_Ramped,
  inner <- r_inner, resting <- r_resting, unhealthy <- r_unhealthy,
  ramps <- r_ramps, bound <- r_bound, call <- r_call, stayed <- r_stayed

K == INSTANCE Channels WITH
  Server <- k_Server, Caller <- k_Caller, MaxChannels <- k_MaxChannels,
  channel <- k_channel, made <- k_made, open <- k_open, call <- k_call,
  life <- k_life, late <- k_late

H == INSTANCE Hedging WITH
  Caller <- h_Caller, Num <- h_Num, Den <- h_Den, Free <- h_Free,
  MaxTotal <- h_MaxTotal,
  total <- h_total, hedged <- h_hedged, throttled <- h_throttled,
  wins <- h_wins, at <- h_at, ok <- h_ok, first <- h_first, second <- h_second

Q == INSTANCE Remediation WITH
  Server <- q_Server, Thread <- q_Thread, MinInner <- q_MinInner,
  Threshold <- q_Threshold, MaxRetries <- q_MaxRetries,
  ring <- q_ring, lock <- q_lock, run <- q_run, state <- q_state,
  quarantined <- q_quarantined, streak <- q_streak, since <- q_since,
  attempts <- q_attempts

C == INSTANCE StateFiles WITH
  Saver <- c_Saver, Stopper <- c_Stopper, MaxChanges <- c_MaxChanges,
  MaxCrashes <- c_MaxCrashes,
  place <- c_place, process <- c_process, live <- c_live, stored <- c_stored,
  save <- c_save, floor <- c_floor, crashes <- c_crashes

A == INSTANCE MasterAPI WITH
  Master <- a_Master, Client <- a_Client, Keyed <- a_Keyed, Key <- a_Key,
  Scopes <- a_Scopes, Enabled <- a_Enabled,
  running <- a_running, leads <- a_leads, readonly <- a_readonly,
  changed <- a_changed, req <- a_req, seen <- a_seen

ASSUME HedgingAssumption == H!BudgetAssumption

-----------------------------------------------------------------------------
all == <<active, vars, rvars, kvars, hvars, qvars, cvars, avars>>

SumInit ==
  /\ active \in {"placement", "retries", "channels", "hedging", "remediation", "state", "api"}
  /\ Init /\ R!Init /\ K!Init /\ H!Init /\ Q!Init /\ C!Init
     /\ A!Init
  /\ active # "state" => c_place = "file"
  /\ active # "retries" => r_inner = SetToSeq(r_Server)

(* The other components stand still. *)
Only(c) ==
  /\ active = c /\ UNCHANGED active
  /\ IF c = "placement" THEN TRUE ELSE UNCHANGED vars
  /\ IF c = "retries" THEN TRUE ELSE UNCHANGED rvars
  /\ IF c = "channels" THEN TRUE ELSE UNCHANGED kvars
  /\ IF c = "hedging" THEN TRUE ELSE UNCHANGED hvars
  /\ IF c = "remediation" THEN TRUE ELSE UNCHANGED qvars
  /\ IF c = "state" THEN TRUE ELSE UNCHANGED cvars
  /\ IF c = "api" THEN TRUE ELSE UNCHANGED avars

PlacementStep == Only("placement") /\ Next
RetryStep == Only("retries") /\ R!Next
ChannelStep == Only("channels") /\ K!Next
HedgeStep == Only("hedging") /\ H!Next
RemedyStep == Only("remediation") /\ Q!Next
SaveStep == Only("state") /\ C!Next
RequestStep == Only("api") /\ A!Next

SumNext ==
  \/ PlacementStep \/ RetryStep \/ ChannelStep \/ HedgeStep
  \/ RemedyStep \/ SaveStep \/ RequestStep

SumSpec == SumInit /\ [][SumNext]_all

-----------------------------------------------------------------------------
(* What a start() restores is never older than the last save that had no     *)
(* other, and no start(), at its side, wherever the process crashed          *)
(* (save_state, load_state).                                                 *)
NoOldRestore == active = "state" => C!NoOldRestore

(* Whom the promotion gate of rotate() keeps out is not reported as healthy. *)
QuarantineVisible == active = "remediation" => Q!QuarantineVisible

(* Requests get what there is: request_with_retry tries every server it could *)
(* before it tries one again, and GrpcCluster loses no channel and hands out  *)
(* none that is closed (_ensure_channel, _close_channel).                    *)
RequestsServed ==
  /\ active = "retries" => R!NoWastedRetry
  /\ active = "channels" => K!ChannelsKept

(* The backups of hedged_request keep to their share, but for one per caller. *)
HedgeBudget == active = "hedging" => H!HedgeBudget

(* A request changes the registry of a master only if the master led, and    *)
(* its guard let writes pass, at some moment while it was handled            *)
(* (_check_leader).                                                          *)
RegistryWritesLed == [][active = "api" => A!WriteLed]_all
=============================================================================
