------------------------------ MODULE Channels ------------------------------
(***************************************************************************)
(* GrpcCluster (grpc_cluster.py): one gRPC channel per server, made when   *)
(* it is first wanted, shared by all calls, and closed when calls of its    *)
(* server keep failing or the cluster stops.                                *)
(*                                                                         *)
(* The lock covers the table and not the use of a channel, nor its close:   *)
(* a call may find its channel closed, and a failed one removes whichever   *)
(* channel its server has by then.  Servers that are evicted or removed     *)
(* keep theirs.                                                            *)
(*                                                                         *)
(* Which server a call gets is HuddleRings' to say; it may be any.          *)
(***************************************************************************)
EXTENDS Naturals

CONSTANTS
  Server,
  Caller,      \* threads with calls
  None,
  MaxChannels  \* bound: channels made

VARIABLES
  channel,     \* _channels, with None for no entry
  made,        \* channels are numbered as they are made
  open,        \* channels that have not been closed
  call,        \* the calls: what is next, their server and their channel
  life,        \* the thread of start() and stop(): off, starting, running,
               \* stopping, and the servers it has still to look at
  late         \* history: channels made since stop() listed those to close

vars == <<channel, made, open, call, life, late>>

Channel == 1 .. MaxChannels
Idle == [at |-> "idle", server |-> None, has |-> None]
Phase(at, todo) == [at |-> at, todo |-> todo, has |-> None]

Init ==
  /\ channel = [s \in Server |-> None] /\ made = 0 /\ open = {}
  /\ call = [c \in Caller |-> Idle]
  /\ life = Phase("off", {})
  /\ late = {}

-----------------------------------------------------------------------------
(* _ensure_channel, under the lock. *)

Ensure_Blind(s) ==
  /\ made < MaxChannels
  /\ made' = made + 1 /\ open' = open \cup {made'}
  /\ channel' = [channel EXCEPT ![s] = made']
  /\ late' = late \cup {made'}

Ensure(s) ==
  \/ channel[s] # None /\ UNCHANGED <<channel, made, open, late>>
  \/ /\ channel[s] = None /\ made < MaxChannels
     /\ made' = made + 1 /\ open' = open \cup {made'}
     /\ channel' = [channel EXCEPT ![s] = made']
     /\ late' = late \cup {made'}

(* _close_channel: the entry, under the lock. *)
Pop(s) == channel' = [channel EXCEPT ![s] = None]

(* And the channel itself, without it; closing twice is harmless.            *)
Close(ch) == open' = open \ {ch}

-----------------------------------------------------------------------------
(* A call: get_channel, or channel_for, whose channel is used and not        *)
(* watched.                                                                  *)

Route(c, s) ==
  /\ call[c].at = "idle"
  /\ call' = [call EXCEPT ![c] = [Idle EXCEPT !.at = "ensure", !.server = s]]
  /\ UNCHANGED <<channel, made, open, life, late>>

Get(c) ==
  LET s == call[c].server IN
  /\ call[c].at = "ensure" /\ Ensure(s)
  /\ call' = [call EXCEPT ![c].at = "rpc", ![c].has = channel'[s]]
  /\ UNCHANGED life

Succeed(c) ==
  /\ call[c].at = "rpc"
  /\ call' = [call EXCEPT ![c] = Idle]
  /\ UNCHANGED <<channel, made, open, life, late>>

(* error_rate (Feedback) stays below 0.5, or the server is unhealthy.        *)
Fail(c) ==
  /\ call[c].at = "rpc"
  /\ \E next \in {Idle, [call[c] EXCEPT !.at = "pop"]} : call' = [call EXCEPT ![c] = next]
  /\ UNCHANGED <<channel, made, open, life, late>>

Drop(c) ==
  LET s == call[c].server IN
  /\ call[c].at = "pop" /\ Pop(s)
  /\ call' = [call EXCEPT ![c] =
       IF channel[s] = None THEN Idle ELSE [@ EXCEPT !.at = "close", !.has = channel[s]]]
  /\ UNCHANGED <<made, open, life, late>>

Closed(c) ==
  /\ call[c].at = "close" /\ Close(call[c].has)
  /\ call' = [call EXCEPT ![c] = Idle]
  /\ UNCHANGED <<channel, made, life, late>>

-----------------------------------------------------------------------------
(* start() makes the channels in advance, of a running cluster too; stop()   *)
(* lists the entries and closes them one by one.  Calls go on meanwhile.     *)

Start ==
  /\ life.at \in {"off", "running"}
  /\ life' = Phase("starting", Server)
  /\ UNCHANGED <<channel, made, open, call, late>>

Prepare(s) ==
  /\ life.at = "starting" /\ s \in life.todo
  /\ Ensure(s)
  /\ life' = [life EXCEPT !.todo = @ \ {s}]
  /\ UNCHANGED call

Started ==
  /\ life.at = "starting" /\ life.todo = {}
  /\ life' = Phase("running", {})
  /\ UNCHANGED <<channel, made, open, call, late>>

Stop ==
  /\ life.at \in {"running", "off"}
  /\ life' = Phase("stopping", {s \in Server : channel[s] # None})
  /\ late' = {}
  /\ UNCHANGED <<channel, made, open, call>>

StopDrops(s) ==
  /\ life.at = "stopping" /\ s \in life.todo /\ life.has = None
  /\ Pop(s)
  /\ life' = [life EXCEPT !.todo = @ \ {s}, !.has = channel[s]]
  /\ UNCHANGED <<made, open, call, late>>

StopCloses ==
  /\ life.at = "stopping" /\ life.has # None
  /\ Close(life.has)
  /\ life' = [life EXCEPT !.has = None]
  /\ UNCHANGED <<channel, made, call, late>>

Stopped ==
  /\ life.at = "stopping" /\ life.todo = {} /\ life.has = None
  /\ life' = Phase("off", {})
  /\ UNCHANGED <<channel, made, open, call, late>>

Request(c) ==
  \/ \E s \in Server : Route(c, s)
  \/ Get(c) \/ Succeed(c) \/ Fail(c) \/ Drop(c) \/ Closed(c)

Next ==
  \/ \E c \in Caller : Request(c)
  \/ Start \/ Started \/ Stop \/ StopCloses \/ Stopped
  \/ \E s \in Server : Prepare(s) \/ StopDrops(s)

Spec == Init /\ [][Next]_vars

-----------------------------------------------------------------------------
(* Channels that somebody is about to close. *)
Closing == {call[c].has : c \in {d \in Caller : call[d].at = "close"}} \cup {life.has}

(* No channel is lost: it is in the table, or about to be closed, and what   *)
(* is in the table has not been closed, so that no new call gets a dead      *)
(* channel.  And when stop() has returned, what is still open was made after *)
(* it listed what to close, or is being closed by a call that failed.        *)
ChannelsKept ==
  /\ open \subseteq {channel[s] : s \in Server} \cup Closing
  /\ {channel[s] : s \in Server} \subseteq open \cup {None}
  /\ life.at = "off" => open \subseteq late \cup Closing
=============================================================================
