--------------------------- MODULE Observability ---------------------------
(***************************************************************************)
(* ClusterObservability (cluster_observability.py): events are recorded in *)
(* a buffer of bounded size, and a thread posts what it has not yet posted *)
(* to an OTLP collector.                                                   *)
(*                                                                         *)
(* The thread remembers a position in the buffer.  It reads it, lets go of *)
(* the lock for the post, and then sets it to the end of what it has read, *)
(* while a full buffer drops its oldest events and shifts the positions.   *)
(***************************************************************************)
EXTENDS Naturals, Sequences

CONSTANTS
  Thread,      \* threads attach() may start
  None,
  BufferSize,  \* buffer_size
  MaxEvents,   \* bound: events recorded
  MaxStarts    \* bound: calls of attach

VARIABLES
  events,      \* _events; an event is the number it was recorded as
  exported,    \* _exported_index
  recorded,    \* _request_count
  stopped,     \* _otlp_stop_event
  last,        \* _otlp_thread
  thread,      \* the threads, with the events of a post and where they end
  sent,        \* history: the events the collector has received
  starts

vars == <<events, exported, recorded, stopped, last, thread, sent, starts>>

Event == 1 .. MaxEvents
At(at, final) == [at |-> at, final |-> final, pending |-> <<>>, upTo |-> 0]

Init ==
  /\ events = <<>> /\ exported = 0 /\ recorded = 0
  /\ stopped = FALSE /\ last = None
  /\ thread = [t \in Thread |-> At("off", FALSE)]
  /\ sent = {} /\ starts = 0

(* Of a request that is answered, for instance. *)
RecordEvent ==
  LET longer == Append(events, recorded + 1) IN
  /\ recorded < MaxEvents
  /\ recorded' = recorded + 1
  /\ IF Len(longer) > BufferSize
       THEN /\ events' = Tail(longer)
            /\ exported' = IF exported > 0 THEN exported - 1 ELSE 0
       ELSE events' = longer /\ UNCHANGED exported
  /\ UNCHANGED <<stopped, last, thread, sent, starts>>

-----------------------------------------------------------------------------
Attach(t) ==
  /\ last = None /\ thread[t].at = "off" /\ starts < MaxStarts
  /\ starts' = starts + 1
  /\ stopped' = FALSE /\ last' = t
  /\ thread' = [thread EXCEPT ![t] = At("head", FALSE)]
  /\ UNCHANGED <<events, exported, recorded, sent>>

Stop ==
  /\ last # None /\ ~stopped
  /\ stopped' = TRUE
  /\ UNCHANGED <<events, exported, recorded, last, thread, sent, starts>>

(* The join ends with the thread or after a time-out. *)
StopJoined ==
  /\ last # None /\ stopped
  /\ last' = None
  /\ UNCHANGED <<events, exported, recorded, stopped, thread, sent, starts>>

-----------------------------------------------------------------------------
(* _otlp_export_loop: once more after the stop. *)
Loop(t) ==
  /\ thread[t].at = "head"
  /\ thread' = [thread EXCEPT ![t] = At("read", stopped)]
  /\ UNCHANGED <<events, exported, recorded, stopped, last, sent, starts>>

Goes(t) ==
  thread' = [thread EXCEPT ![t] =
    At(IF thread[t].final THEN "off" ELSE "wait", FALSE)]

(* The wait ends after the interval or with the stop. *)
Wait(t) ==
  /\ thread[t].at = "wait"
  /\ thread' = [thread EXCEPT ![t].at = "head"]
  /\ UNCHANGED <<events, exported, recorded, stopped, last, sent, starts>>

Read(t) ==
  LET pending == SubSeq(events, exported + 1, Len(events)) IN
  /\ thread[t].at = "read"
  /\ IF pending = <<>> THEN Goes(t)
     ELSE thread' = [thread EXCEPT ![t].at = "post", ![t].pending = pending,
                                   ![t].upTo = Len(events)]
  /\ UNCHANGED <<events, exported, recorded, stopped, last, sent, starts>>

Received(t) == sent \cup {thread[t].pending[k] : k \in DOMAIN thread[t].pending}

Posted_End(t) ==
  /\ thread[t].at = "post"
  /\ sent' = Received(t)
  /\ exported' = Len(events)
  /\ Goes(t)
  /\ UNCHANGED <<events, recorded, stopped, last, starts>>

Posted(t) ==
  /\ thread[t].at = "post"
  /\ sent' = Received(t)
  /\ exported' = thread[t].upTo
  /\ Goes(t)
  /\ UNCHANGED <<events, recorded, stopped, last, starts>>

(* The collector may have received what the thread believes it has not. *)
Failed(t) ==
  /\ thread[t].at = "post"
  /\ sent' \in {sent, Received(t)}
  /\ Goes(t)
  /\ UNCHANGED <<events, exported, recorded, stopped, last, starts>>

Export(t) == Loop(t) \/ Wait(t) \/ Read(t) \/ Posted(t) \/ Failed(t)

Next ==
  \/ RecordEvent \/ Stop \/ StopJoined
  \/ \E t \in Thread : Attach(t) \/ Export(t)

Spec == Init /\ [][Next]_vars

(* Threads run, and the collector answers again and again. *)
Fairness == \A t \in Thread : WF_vars(Export(t)) /\ SF_vars(Posted(t))

FairSpec == Spec /\ Fairness

-----------------------------------------------------------------------------
(* The position is one in the buffer, and what lies before it has been sent   *)
(* as long as the buffer has not overflowed, although the position is moved   *)
(* after a post to where the buffer ended before it, by several threads.      *)
SentUpTo ==
  /\ exported <= Len(events)
  /\ recorded <= BufferSize => \A k \in 1 .. exported : events[k] \in sent

(* As long as the buffer has never overflowed, everything recorded is sent in *)
(* the end unless the manager is stopped, over failed posts and posts of      *)
(* threads that have outlived a stop.  Once it overflows during a post, the    *)
(* index moves past events that nobody has sent.                              *)
LogsExported ==
  [](recorded <= BufferSize) =>
    \A e \in Event :
      last # None /\ ~stopped /\ e <= recorded ~> e \in sent \/ stopped
=============================================================================
