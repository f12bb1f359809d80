------------------------------ MODULE Webhooks ------------------------------
(***************************************************************************)
(* ClusterWebhooks (cluster_webhooks.py): dispatching threads put one item  *)
(* per matching subscription into a bounded queue; a worker thread takes    *)
(* them out and posts them, with retries.                                   *)
(*                                                                         *)
(* stop() lowers a flag, queues an end mark (None) and joins the worker for *)
(* 2 s.  The worker may leave by the flag and never see the mark, and may   *)
(* outlive the join in a long delivery: what the next start() finds.        *)
(***************************************************************************)
EXTENDS Naturals, Sequences, FiniteSets

CONSTANTS
  Hook,       \* subscriptions
  Caller,     \* threads that dispatch
  Worker,     \* threads start() may make
  MaxQueue,   \* maxsize of the queue
  MaxRetries,
  MaxEvents,  \* bound: calls of dispatch and test_ping
  MaxStarts,  \* bound: calls of start
  Mark        \* None, the end mark

VARIABLES
  running,   \* _running
  subs,      \* _subscriptions
  queue,
  call,      \* dispatching threads: the event and the hooks still to put
  worker,    \* off, at the head of the loop, waiting, or posting an item
  history,   \* _history, in the order of delivery
  stopping,  \* stop(): "no", "mark" before the put, "join" after it
  events, starts

vars == <<running, subs, queue, call, worker, history, stopping, events, starts>>
life == <<running, stopping, starts>>

Event == 1 .. MaxEvents
Item == [hook : Hook, event : Event]
NoCall == [event |-> 0, left |-> {}, at |-> "idle"]
At(at) == [at |-> at, item |-> Mark, attempt |-> 0]

Init ==
  /\ running = FALSE /\ subs = {} /\ queue = <<>>
  /\ call = [c \in Caller |-> NoCall]
  /\ worker = [w \in Worker |-> At("off")]
  /\ history = <<>> /\ stopping = "no" /\ events = 0 /\ starts = 0

-----------------------------------------------------------------------------
(* register, unregister.  What is queued for a hook stays queued.            *)

Register(h) ==
  /\ h \notin subs
  /\ subs' = subs \cup {h}
  /\ UNCHANGED <<life, queue, call, worker, history, events>>

Unregister(h) ==
  /\ h \in subs
  /\ subs' = subs \ {h}
  /\ UNCHANGED <<life, queue, call, worker, history, events>>

-----------------------------------------------------------------------------
(* dispatch: the flag without the lock, the subscriptions under it, then one *)
(* put per subscription.  A full queue drops the item.                       *)

Dispatch(c) ==
  /\ call[c].at = "idle" /\ running /\ events < MaxEvents
  /\ events' = events + 1
  /\ call' = [call EXCEPT ![c] = [event |-> events', left |-> {}, at |-> "match"]]
  /\ UNCHANGED <<life, subs, queue, worker, history>>

Match(c) ==
  /\ call[c].at = "match"
  /\ \E hooks \in SUBSET subs :
       call' = [call EXCEPT ![c] = IF hooks = {} THEN NoCall
                                   ELSE [call[c] EXCEPT !.left = hooks, !.at = "put"]]
  /\ UNCHANGED <<life, subs, queue, worker, history, events>>

(* test_ping looks at no flag.                                               *)
Ping(c) ==
  /\ call[c].at = "idle" /\ subs # {} /\ events < MaxEvents
  /\ events' = events + 1
  /\ \E hooks \in {subs} \cup {{h} : h \in subs} :
       call' = [call EXCEPT ![c] = [event |-> events', left |-> hooks, at |-> "put"]]
  /\ UNCHANGED <<life, subs, queue, worker, history>>

Put(c, h) ==
  /\ call[c].at = "put" /\ h \in call[c].left
  /\ queue' = IF Len(queue) < MaxQueue
                THEN Append(queue, [hook |-> h, event |-> call[c].event]) ELSE queue
  /\ call' = [call EXCEPT ![c] =
       IF call[c].left = {h} THEN NoCall
       ELSE [call[c] EXCEPT !.left = call[c].left \ {h}]]
  /\ UNCHANGED <<life, subs, worker, history, events>>

-----------------------------------------------------------------------------
(* start and stop.  The callers of stop() and start() take turns.            *)

Start(w) ==
  /\ ~running /\ stopping = "no" /\ starts < MaxStarts
  /\ worker[w].at = "off"
  /\ running' = TRUE /\ starts' = starts + 1
  /\ worker' = [worker EXCEPT ![w] = At("head")]
  /\ UNCHANGED <<subs, queue, call, history, stopping, events>>

Stop ==
  /\ running
  /\ running' = FALSE /\ stopping' = "mark"
  /\ UNCHANGED <<subs, queue, call, worker, history, events, starts>>

StopMarks ==
  /\ stopping = "mark"
  /\ queue' = IF Len(queue) < MaxQueue THEN Append(queue, Mark) ELSE queue
  /\ stopping' = "join"
  /\ UNCHANGED <<running, subs, call, worker, history, events, starts>>

(* The join ends with the worker or after 2 s.                               *)
StopJoined ==
  /\ stopping = "join"
  /\ stopping' = "no"
  /\ UNCHANGED <<running, subs, queue, call, worker, history, events, starts>>

-----------------------------------------------------------------------------
(* The worker.                                                               *)

Head_(w) ==
  /\ worker[w].at = "head"
  /\ worker' = [worker EXCEPT ![w] = At(IF running THEN "get" ELSE "off")]
  /\ UNCHANGED <<life, subs, queue, call, history, events>>

(* Nothing came for half a second. *)
Empty_Ends(w) ==
  /\ worker[w].at = "get" /\ queue = <<>>
  /\ worker' = [worker EXCEPT ![w] = At("off")]
  /\ UNCHANGED <<life, subs, queue, call, history, events>>

Empty(w) ==
  /\ worker[w].at = "get" /\ queue = <<>>
  /\ worker' = [worker EXCEPT ![w] = At("head")]
  /\ UNCHANGED <<life, subs, queue, call, history, events>>

Get(w) ==
  /\ worker[w].at = "get" /\ queue # <<>>
  /\ queue' = Tail(queue)
  /\ worker' = [worker EXCEPT ![w] =
       IF Head(queue) = Mark THEN At("off")
       ELSE [at |-> "post", item |-> Head(queue), attempt |-> 1]]
  /\ UNCHANGED <<life, subs, call, history, events>>

(* _deliver: success, or a client error other than 429, ends it; a server    *)
(* error or none at all is tried again.  It looks at no flag.                *)
Retry_Queues(w) ==
  /\ worker[w].at = "post" /\ worker[w].attempt < MaxRetries
  /\ queue' = IF Len(queue) < MaxQueue THEN Append(queue, worker[w].item) ELSE queue
  /\ worker' = [worker EXCEPT ![w].attempt = @ + 1]
  /\ UNCHANGED <<life, subs, call, history, events>>

Retry(w) ==
  /\ worker[w].at = "post" /\ worker[w].attempt < MaxRetries
  /\ worker' = [worker EXCEPT ![w].attempt = @ + 1]
  /\ UNCHANGED <<life, subs, queue, call, history, events>>

Deliver(w) ==
  /\ worker[w].at = "post"
  /\ history' = Append(history, worker[w].item)
  /\ worker' = [worker EXCEPT ![w] = At("head")]
  /\ UNCHANGED <<life, subs, queue, call, events>>

Work(w) == Head_(w) \/ Empty(w) \/ Get(w) \/ Retry(w) \/ Deliver(w)

Next ==
  \/ \E h \in Hook : Register(h) \/ Unregister(h)
  \/ \E c \in Caller : Dispatch(c) \/ Match(c) \/ Ping(c) \/ \E h \in Hook : Put(c, h)
  \/ Stop \/ StopMarks \/ StopJoined
  \/ \E w \in Worker : Start(w) \/ Work(w)

Spec == Init /\ [][Next]_vars

(* Threads run; a post answers or times out.                                 *)
Fairness == \A w \in Worker : WF_vars(Work(w))

FairSpec == Spec /\ Fairness

-----------------------------------------------------------------------------
Pending(i) == \E k \in DOMAIN queue : queue[k] = i

Recorded(i) == \E k \in DOMAIN history : history[k] = i

(* No event reaches a hook twice, over workers of several lives that take     *)
(* from one queue, retries, and subscriptions that come and go.               *)
DeliveredOnce ==
  \A j, k \in DOMAIN history : history[j] = history[k] => j = k

(* What dispatch() or test_ping() has queued is delivered, or recorded as    *)
(* failed, unless stop() is called, in the first life of the worker.  Not so *)
(* after a restart: the end mark of the last stop() is still in the queue if *)
(* its worker left by the flag; it ends the worker of the next start(), and  *)
(* the manager runs without one.                                             *)
FirstLifeDelivers ==
  \A i \in Item : starts = 1 /\ running /\ Pending(i) ~> Recorded(i) \/ ~running
=============================================================================
