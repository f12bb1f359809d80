------------------------------- MODULE Gossip -------------------------------
(***************************************************************************)
(* GossipAgent (huddle_cluster.py): every agent multicasts the servers of  *)
(* its inner ring over UDP, and keeps what it last received of each other. *)
(*                                                                         *)
(* What one agent hears of another depends on the two alone, and one such   *)
(* pair is modelled.  Datagrams may be lost, and may overtake one another; *)
(* they carry no number by which to tell the older.  stop() joins no        *)
(* thread: after a restart there may be several senders, and receivers, of  *)
(* which each has a socket and gets a copy: a datagram may arrive again.    *)
(***************************************************************************)
EXTENDS Naturals

CONSTANTS
  None,
  MaxChanges,  \* bound: changes of the inner ring
  Long,        \* the rings whose message exceeds MAX_MESSAGE_BYTES
  MaxThreads   \* bound: threads that restarts have left behind

VARIABLES
  servers,     \* the sender's inner ring, as the number of its changes
  sending,     \* _running of the sender
  senders,     \* its send threads
  receiving,   \* _running of the receiver
  receivers,   \* its receive threads, each with a socket
  net,         \* datagrams under way
  heard        \* the receiver's _peer_states of the sender

vars == <<servers, sending, senders, receiving, receivers, net, heard>>

Ring == 0 .. MaxChanges

Init ==
  /\ servers = 0 /\ net = {} /\ heard = None
  /\ sending = FALSE /\ senders = 0
  /\ receiving = FALSE /\ receivers = 0

RingChanges ==
  /\ servers < MaxChanges /\ servers' = servers + 1
  /\ UNCHANGED <<sending, senders, receiving, receivers, net, heard>>

(* start() and stop() of the sender, and of the receiver, whose thread ends  *)
(* at once if it cannot bind or join the group.                              *)
StartSender ==
  /\ ~sending /\ senders < MaxThreads
  /\ sending' = TRUE /\ senders' = senders + 1
  /\ UNCHANGED <<servers, receiving, receivers, net, heard>>

StartReceiver ==
  /\ ~receiving /\ receivers < MaxThreads
  /\ receiving' = TRUE /\ receivers' \in {receivers, receivers + 1}
  /\ UNCHANGED <<servers, sending, senders, net, heard>>

Stop ==
  /\ \/ sending /\ sending' = FALSE /\ UNCHANGED receiving
     \/ receiving /\ receiving' = FALSE /\ UNCHANGED sending
  /\ UNCHANGED <<servers, senders, receivers, net, heard>>

(* One round of _send_loop; the datagram may be lost at once.                *)
Send ==
  /\ senders > 0 /\ sending
  /\ net' \in {net, net \cup {servers}}
  /\ UNCHANGED <<servers, sending, senders, receiving, receivers, heard>>

ThreadEnds ==
  /\ \/ ~sending /\ senders > 0 /\ senders' = senders - 1 /\ UNCHANGED receivers
     \/ ~receiving /\ receivers > 0 /\ receivers' = receivers - 1 /\ UNCHANGED senders
  /\ UNCHANGED <<servers, sending, receiving, net, heard>>

(* recvfrom cuts what is too long, and what is cut is not JSON.  Another      *)
(* copy may follow.                                                          *)
Receive_First(d) ==
  /\ receivers > 0 /\ d \in net
  /\ net' \in {net, net \ {d}}
  /\ heard' = IF d \in Long \/ heard # None THEN heard ELSE d
  /\ UNCHANGED <<servers, sending, senders, receiving, receivers>>

Receive(d) ==
  /\ receivers > 0 /\ d \in net
  /\ net' \in {net, net \ {d}}
  /\ heard' = IF d \in Long THEN heard ELSE d
  /\ UNCHANGED <<servers, sending, senders, receiving, receivers>>

Lost(d) ==
  /\ d \in net
  /\ net' = net \ {d}
  /\ UNCHANGED <<servers, sending, senders, receiving, receivers, heard>>

Next ==
  \/ RingChanges \/ StartSender \/ StartReceiver \/ Stop \/ Send \/ ThreadEnds
  \/ \E d \in Ring : Receive(d) \/ Lost(d)

Spec == Init /\ [][Next]_vars

(* The sender sends again and again, not everything is lost, and nothing      *)
(* stays under way for ever.                                                 *)
Sent == Send /\ servers \in net'
Received == servers \in net /\ Receive(servers)
Gone(d) == d \in net /\ (Receive(d) \/ Lost(d)) /\ d \notin net'

Fairness ==
  /\ WF_vars(Sent) /\ SF_vars(Received)
  /\ \A d \in Ring : WF_vars(Gone(d))

FairSpec == Spec /\ Fairness

-----------------------------------------------------------------------------
(* A receiver that could join the group hears in the end what the inner ring *)
(* of a sender has become, and nothing older afterwards, if it fits into a   *)
(* datagram; of a ring that does not, it keeps what it last heard.           *)
PeerHeard ==
  <>[](sending /\ receiving /\ receivers > 0 /\ servers \notin Long)
    => <>[](heard = servers)
=============================================================================
