------------------------------- MODULE Huddle --------------------------------
(***************************************************************************)
(* What the two rings promise, seen from outside: a server is absent,      *)
(* serving, resting or draining, and moves between these places one at a   *)
(* time.  HuddleRings implements this with a deque, a heap, a dict and a   *)
(* thread that works half of its time without the lock.                    *)
(***************************************************************************)
EXTENDS Naturals, FiniteSets

CONSTANTS
    Server,
    Capacity,   \* max_inner_size
    Drains,     \* connections are drained before a server rests
    MaxConn     \* bound on open connections per server

VARIABLES
    place,      \* of each server
    conns       \* its open long-lived connections

Place == {"absent", "serving", "resting", "draining"}

Init == place = [s \in Server |-> "absent"] /\ conns = [s \in Server |-> 0]

Room == Cardinality({s \in Server : place[s] = "serving"}) < Capacity

\* (That s has moved is quick to see; most steps of an implementation move
\* nobody.)
Moves(s, from, to) ==
    /\ place[s] = from /\ place'[s] = to
    /\ place' = [place EXCEPT ![s] = to]

\* A new server brings no connections.
Arrive(s) ==
    /\ \/ Moves(s, "absent", "serving") /\ Room
       \/ Moves(s, "absent", "resting")
    /\ UNCHANGED conns

\* A server that leaves is forgotten.
Leave(s) ==
    /\ Moves(s, "serving", "absent") \/ Moves(s, "resting", "absent")
    /\ conns' = [conns EXCEPT ![s] = 0]

\* From serving to rest: by way of draining, exactly when there is something
\* to drain.
Retire(s) ==
    /\ IF Drains /\ conns[s] > 0 THEN Moves(s, "serving", "draining")
                                 ELSE Moves(s, "serving", "resting")
    /\ UNCHANGED conns

Drained(s) == Moves(s, "draining", "resting") /\ UNCHANGED conns

\* The only way back.
Return(s) == Moves(s, "resting", "serving") /\ Room /\ UNCHANGED conns

\* Connections open and close in every place but outside.
Traffic(s) ==
    /\ place[s] # "absent"
    /\ \E c \in 0 .. MaxConn : conns' = [conns EXCEPT ![s] = c]
    /\ UNCHANGED place

Next == \E s \in Server :
    Traffic(s) \/ Arrive(s) \/ Leave(s) \/ Retire(s) \/ Drained(s) \/ Return(s)

Spec == Init /\ [][Next]_<<place, conns>>
==============================================================================
