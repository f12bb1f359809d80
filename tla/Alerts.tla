------------------------------- MODULE Alerts -------------------------------
(***************************************************************************)
(* The alerts of HuddleCluster (huddle_cluster.py): _fire_alert puts them   *)
(* into a bounded queue, a thread posts each to every configured URL.       *)
(*                                                                         *)
(* Unlike Webhooks, the thread looks at the flag only when nothing has come *)
(* for a second, and delivers the rest of the queue when it finds the end   *)
(* mark, which stop() queues only for a thread that is alive.               *)
(***************************************************************************)
EXTENDS Naturals, Sequences

CONSTANTS
  Worker,     \* threads start() may make
  MaxQueue,   \* maxsize of _alert_queue
  MaxAlerts,  \* bound: alerts fired
  MaxStarts,  \* bound: calls of start
  Mark        \* None, the end mark

VARIABLES
  running,    \* _running
  queue,      \* _alert_queue
  worker,     \* off, waiting, idle for a second, or posting an alert
  last,       \* _alert_thread
  posted,     \* the alerts for which every URL has been tried
  stopping,   \* stop(): "no", "ask" if the thread is alive, "mark", "join"
  fired, starts

vars == <<running, queue, worker, last, posted, stopping, fired, starts>>
life == <<running, last, starts>>

Alert == 1 .. MaxAlerts
At(at) == [at |-> at, alert |-> 0, draining |-> FALSE]

Init ==
  /\ running = FALSE /\ queue = <<>> /\ last = Mark
  /\ worker = [w \in Worker |-> At("off")]
  /\ posted = {} /\ stopping = "no" /\ fired = 0 /\ starts = 0

(* Alerts are fired whether the cluster runs or not.  A full queue drops. *)
FireAlert ==
  /\ fired < MaxAlerts
  /\ fired' = fired + 1
  /\ queue' = IF Len(queue) < MaxQueue THEN Append(queue, fired') ELSE queue
  /\ UNCHANGED <<life, worker, posted, stopping>>

-----------------------------------------------------------------------------
Start(w) ==
  /\ ~running /\ stopping = "no" /\ starts < MaxStarts
  /\ worker[w].at = "off"
  /\ running' = TRUE /\ starts' = starts + 1 /\ last' = w
  /\ worker' = [worker EXCEPT ![w] = At("get")]
  /\ UNCHANGED <<queue, posted, stopping, fired>>

Stop ==
  /\ running
  /\ running' = FALSE /\ stopping' = "ask"
  /\ UNCHANGED <<queue, worker, last, posted, fired, starts>>

StopAsks ==
  /\ stopping = "ask"
  /\ stopping' = IF worker[last].at # "off" THEN "mark" ELSE "no"
  /\ UNCHANGED <<life, queue, worker, posted, fired>>

(* A blocking put: if the thread has left by the flag since, and alerts have *)
(* filled the queue, stop() hangs.                                           *)
StopMarks ==
  /\ stopping = "mark" /\ Len(queue) < MaxQueue
  /\ queue' = Append(queue, Mark) /\ stopping' = "join"
  /\ UNCHANGED <<life, worker, posted, fired>>

(* The join ends with the thread or after its time-out. *)
StopJoined ==
  /\ stopping = "join"
  /\ stopping' = "no"
  /\ UNCHANGED <<life, queue, worker, posted, fired>>

-----------------------------------------------------------------------------
(* The thread. *)

Empty(w) ==
  /\ worker[w].at = "get" /\ queue = <<>>
  /\ worker' = [worker EXCEPT ![w] = At("idle")]
  /\ UNCHANGED <<life, queue, posted, stopping, fired>>

Idle(w) ==
  /\ worker[w].at = "idle"
  /\ worker' = [worker EXCEPT ![w] = At(IF running THEN "get" ELSE "off")]
  /\ UNCHANGED <<life, queue, posted, stopping, fired>>

Get(w) ==
  LET first == Head(queue) IN
  /\ worker[w].at = "get" /\ queue # <<>>
  /\ queue' = Tail(queue)
  /\ worker' = [worker EXCEPT ![w] =
       IF first = Mark THEN [At("drain") EXCEPT !.draining = TRUE]
       ELSE [at |-> "post", alert |-> first, draining |-> FALSE]]
  /\ UNCHANGED <<life, posted, stopping, fired>>

(* After the mark: what is left, without waiting. *)
Drain(w) ==
  LET first == Head(queue) IN
  /\ worker[w].at = "drain"
  /\ IF queue = <<>>
       THEN worker' = [worker EXCEPT ![w] = At("off")] /\ UNCHANGED queue
       ELSE /\ queue' = Tail(queue)
            /\ worker' = IF first = Mark THEN worker
                         ELSE [worker EXCEPT ![w].at = "post", ![w].alert = first]
  /\ UNCHANGED <<life, posted, stopping, fired>>

(* _deliver_alert: an error of one URL is logged, and the next is tried. *)
Deliver(w) ==
  /\ worker[w].at = "post"
  /\ posted' = posted \cup {worker[w].alert}
  /\ worker' = [worker EXCEPT ![w] =
       IF @.draining THEN [@ EXCEPT !.at = "drain", !.alert = 0] ELSE At("get")]
  /\ UNCHANGED <<life, queue, stopping, fired>>

Work(w) == Empty(w) \/ Idle(w) \/ Get(w) \/ Drain(w) \/ Deliver(w)

Next ==
  \/ FireAlert \/ Stop \/ StopAsks \/ StopMarks \/ StopJoined
  \/ \E w \in Worker : Start(w) \/ Work(w)

Spec == Init /\ [][Next]_vars

(* Threads run; a post answers or times out.                                 *)
Fairness == \A w \in Worker : WF_vars(Work(w))

FairSpec == Spec /\ Fairness

-----------------------------------------------------------------------------
Pending(a) == \E k \in DOMAIN queue : queue[k] = a

(* In the first life of the thread an alert that has been queued while the   *)
(* cluster runs is posted: if stop() comes in between, the thread delivers   *)
(* the rest before it leaves, unless it was just about to leave by the flag. *)
FirstLifePosts ==
  \A a \in Alert :
    starts = 1 /\ running /\ Pending(a)
        /\ (\A w \in Worker : worker[w].at # "idle")
      ~> a \in posted
=============================================================================
