-------------------------- MODULE HuddleRefinement ---------------------------
(***************************************************************************)
(* HuddleRings implements Huddle: its first state is Huddle's, and every   *)
(* step of every actor moves at most one server, along one of Huddle's     *)
(* ways.  That one step moves one server from ONE place rests on the       *)
(* invariant of HuddleRingsProofs.                                         *)
(***************************************************************************)
EXTENDS HuddleRingsProofs, FunctionTheorems

\* A server's place says exactly where it is.
PlacesRight ==
    /\ PlaceOf \in [Server -> H!Place]
    /\ \A s \in Server :
         /\ (PlaceOf[s] = "serving") = (s \in ToSet(inner))
         /\ (PlaceOf[s] = "resting") = (s \in outer)
         /\ (PlaceOf[s] = "draining") = (s \in draining \/ s = limbo)
         /\ (PlaceOf[s] = "absent") = (s \notin Members)

\* Under the invariant nobody is in two places.
LEMMA Places == IInv => PlacesRight
  BY NoneAssumption DEF IInv, NoServerLost, PlaceOf, Members, H!Place, PlacesRight

\* The same after a step.
LEMMA PlacesNext == IInv' => PlacesRight'
  BY Places, PTL

\* A ring without repetitions has as many members as entries.
LEMMA RingSize ==
    ASSUME NEW S, NEW q \in Seq(S), IsInjective(q)
    PROVE  Cardinality(ToSet(q)) = Len(q)
  <1>1. Len(q) \in Nat /\ DOMAIN q = 1 .. Len(q)
    OBVIOUS
  <1>2. q \in [1 .. Len(q) -> ToSet(q)]
    BY <1>1 DEF ToSet
  <1>3. \A a, b \in 1 .. Len(q) : q[a] = q[b] => a = b
    BY <1>1 DEF IsInjective
  <1>4. \A t \in ToSet(q) : \E a \in 1 .. Len(q) : q[a] = t
    BY <1>1 DEF ToSet
  <1>5. q \in Bijection(1 .. Len(q), ToSet(q))
    BY <1>2, <1>3, <1>4, Fun_IsBij
  <1>6. ExistsBijection(1 .. Len(q), ToSet(q))
    BY <1>5 DEF ExistsBijection
  <1> QED BY <1>1, <1>6, FS_CountingElements

\* Huddle's room is the free room of the deque.
LEMMA RoomInRing ==
    ASSUME IInv
    PROVE  H!Room = (Len(inner) < MaxInner)
  <1>1. {s \in Server : PlaceOf[s] = "serving"} = ToSet(inner)
    <2>1. inner \in Seq(Server)
      BY DEF IInv, TypeOK
    <2>2. ToSet(inner) \subseteq Server
      BY <2>1, ElementOfSeq DEF ToSet
    <2> QED BY <2>2, Places DEF PlacesRight
  <1>2. Cardinality(ToSet(inner)) = Len(inner)
    BY RingSize DEF IInv, TypeOK, NoServerLost
  <1> QED BY <1>1, <1>2 DEF H!Room, H!Cardinality, Cardinality, H!IsFiniteSet, IsFiniteSet

\* One server has changed its place and all others are where they were.
LEMMA OneMoves ==
    ASSUME IInv, IInv', NEW s \in Server,
           NEW from \in H!Place, NEW to \in H!Place,
           PlaceOf[s] = from, PlaceOf'[s] = to,
           \A t \in Server \ {s} :
             /\ (t \in ToSet(inner')) = (t \in ToSet(inner))
             /\ (t \in outer') = (t \in outer)
             /\ (t \in draining' \/ t = limbo') = (t \in draining \/ t = limbo)
    PROVE  H!Moves(s, from, to)
  <1>1. PlaceOf \in [Server -> H!Place]
    BY Places DEF PlacesRight
  <1>2. PlaceOf' = [t \in Server |->
           IF t \in outer' THEN "resting"
           ELSE IF t \in draining' \/ t = limbo' THEN "draining"
           ELSE IF t \in ToSet(inner') THEN "serving" ELSE "absent"]
    BY DEF PlaceOf
  <1>3. ASSUME NEW t \in Server \ {s}
        PROVE  PlaceOf'[t] = PlaceOf[t]
    BY <1>2, <1>3 DEF PlaceOf
  <1>4. PlaceOf' = [PlaceOf EXCEPT ![s] = to]
    BY <1>1, <1>2, <1>3, ZenonT(40)
  <1> QED BY <1>4 DEF H!Moves

\* Where the rings keep their members, every place is as it was.
LEMMA NobodyMoves ==
    ASSUME ToSet(inner') = ToSet(inner), outer' = outer,
           \A t \in Server : (t \in draining' \/ t = limbo') = (t \in draining \/ t = limbo)
    PROVE  PlaceOf' = PlaceOf
  BY DEF PlaceOf

-----------------------------------------------------------------------------
(* The steps.                                                              *)

\* add_server and remove_server are Arrive and Leave; remove_server of a
\* draining server does nothing.
LEMMA OperatorRefines ==
    ASSUME IInv, IInv', NEW s \in Server,
           \/ \E forceInner \in BOOLEAN : AddServer(s, forceInner)
           \/ RemoveServer(s)
    PROVE  H!Arrive(s) \/ H!Leave(s) \/ UNCHANGED <<PlaceOf, conns>>
  <1> USE DEF IInv, H!Place
  <1>1. inner \in Seq(Server) /\ IsInjective(inner)
    BY DEF TypeOK, NoServerLost
  <1>2. \A t \in Server :
          /\ (PlaceOf'[t] = "serving") = (t \in ToSet(inner'))
          /\ (PlaceOf'[t] = "resting") = (t \in outer')
          /\ (PlaceOf'[t] = "absent") = (t \notin Members')
    BY PlacesNext DEF PlacesRight
  <1>3. CASE \E forceInner \in BOOLEAN : AddServer(s, forceInner)
    <2>1. PICK forceInner \in BOOLEAN : AddServer(s, forceInner)
      BY <1>3
    <2>2. PlaceOf[s] = "absent" /\ s \notin Members /\ UNCHANGED <<draining, limbo, conns>>
      BY <2>1, Places DEF AddServer, PlacesRight
    <2>3. CASE Len(inner) < MaxInner /\ inner' = Append(inner, s) /\ UNCHANGED <<outer, head>>
      <3>1. ToSet(inner') = ToSet(inner) \cup {s}
        BY <1>1, <2>2, <2>3, RingJoin DEF Members
      <3>2. PlaceOf'[s] = "serving"
        BY <1>2, <3>1
      <3>3. H!Moves(s, "absent", "serving")
        BY <2>2, <2>3, <3>1, <3>2, OneMoves
      <3> QED BY <2>2, <2>3, <3>3, RoomInRing DEF H!Arrive
    <2>4. CASE HeapPush(s) /\ UNCHANGED inner
      <3>1. outer' = outer \cup {s}
        BY <2>4 DEF HeapPush
      <3>2. PlaceOf'[s] = "resting"
        BY <1>2, <3>1
      <3>3. H!Moves(s, "absent", "resting")
        BY <2>2, <2>4, <3>1, <3>2, OneMoves
      <3> QED BY <2>2, <3>3 DEF H!Arrive
    <2> QED BY <2>1, <2>3, <2>4 DEF AddServer
  <1>4. CASE RemoveServer(s)
    <2>1. UNCHANGED <<draining, limbo>>
      BY <1>4 DEF RemoveServer
    <2>2. CASE s \in ToSet(inner) /\ inner' = RemoveAt(inner, IndexOf(s))
               /\ Forget(s) /\ UNCHANGED <<outer, head>>
      <3>1. ToSet(inner') = ToSet(inner) \ {s}
        BY <1>1, <2>2, LeaveInner
      <3>2. PlaceOf[s] = "serving" /\ PlaceOf'[s] = "absent"
        BY <1>2, <2>1, <2>2, <3>1, Places DEF Members, NoServerLost, PlacesRight
      <3>3. H!Moves(s, "serving", "absent")
        BY <2>1, <2>2, <3>1, <3>2, OneMoves
      <3> QED BY <2>2, <3>3 DEF H!Leave, Forget
    <2>3. CASE s \in outer /\ HeapRemove(s) /\ Forget(s) /\ UNCHANGED inner
      <3>1. outer' = outer \ {s}
        BY <2>3 DEF HeapRemove
      <3>2. PlaceOf[s] = "resting" /\ PlaceOf'[s] = "absent"
        BY <1>2, <2>1, <2>3, <3>1, Places DEF Members, NoServerLost, PlacesRight
      <3>3. H!Moves(s, "resting", "absent")
        BY <2>1, <2>3, <3>1, <3>2, OneMoves
      <3> QED BY <2>3, <3>3 DEF H!Leave, Forget
    <2>4. CASE UNCHANGED <<inner, outer, serverVars>>
      <3>1. UNCHANGED <<inner, outer, conns>>
        BY <2>4 DEF serverVars
      <3> QED BY <2>1, <3>1, NobodyMoves
    <2> QED BY <1>4, <2>2, <2>3, <2>4 DEF RemoveServer
  <1> QED BY <1>3, <1>4

\* _move_to_outer is Retire, whoever calls it.
LEMMA EvictionRefines ==
    ASSUME IInv, IInv', NEW s \in ToSet(inner), MoveToOuter(s), UNCHANGED <<limbo, conns>>
    PROVE  s \in Server /\ H!Retire(s)
  <1> USE DEF IInv, H!Place
  <1>1. ToSet(inner') = ToSet(inner) \ {s} /\ s \in Server
    BY EvictionMoves
  <1>2. s \notin draining /\ s # limbo /\ s \notin outer
    BY DEF NoServerLost
  <1>3. PlaceOf[s] = "serving"
    BY <1>1, Places DEF PlacesRight
  <1>4. \A t \in Server :
          /\ (PlaceOf'[t] = "resting") = (t \in outer')
          /\ (PlaceOf'[t] = "draining") = (t \in draining' \/ t = limbo')
    BY PlacesNext DEF PlacesRight
  <1>5. CASE DrainTimeout > 0 /\ conns[s] > 0
    <2>1. draining' = draining \cup {s} /\ outer' = outer
      BY <1>2, <1>5 DEF MoveToOuter
    <2>2. PlaceOf'[s] = "draining"
      BY <1>1, <1>4, <2>1
    <2>3. H!Moves(s, "serving", "draining")
      BY <1>1, <1>3, <2>1, <2>2, OneMoves
    <2> QED BY <1>1, <1>5, <2>3 DEF H!Retire
  <1>6. CASE ~(DrainTimeout > 0 /\ conns[s] > 0)
    <2>1. draining' = draining /\ outer' = outer \cup {s}
      BY <1>6 DEF MoveToOuter, CompleteEviction, HeapPush
    <2>2. PlaceOf'[s] = "resting"
      BY <1>1, <1>4, <2>1
    <2>3. H!Moves(s, "serving", "resting")
      BY <1>1, <1>3, <2>1, <2>2, OneMoves
    <2> QED BY <1>1, <1>6, <2>3 DEF H!Retire
  <1> QED BY <1>5, <1>6

\* _move_to_inner of the head is Return, provided its caller has seen room.
LEMMA PromotionRefines ==
    ASSUME IInv, IInv', outer # {}, Len(inner) < MaxInner, MoveToInner(head), HeapPop,
           UNCHANGED <<draining, limbo, conns>>
    PROVE  head \in Server /\ H!Return(head)
  <1> USE DEF IInv, H!Place
  <1>1. /\ ToSet(inner') = ToSet(inner) \cup {head} /\ outer' = outer \ {head}
        /\ head \in outer /\ head \in Server
    BY PromotionMoves
  <1>2. PlaceOf[head] = "resting"
    BY <1>1, Places DEF PlacesRight
  <1>3. \A t \in Server : (PlaceOf'[t] = "serving") = (t \in ToSet(inner'))
    BY PlacesNext DEF PlacesRight
  <1>4. PlaceOf'[head] = "serving"
    BY <1>1, <1>3
  <1>5. H!Moves(head, "resting", "serving")
    BY <1>1, <1>2, <1>4, OneMoves
  <1> QED BY <1>1, <1>5, RoomInRing DEF H!Return

\* The half of the rotation thread without the lock: deleting from the dict is
\* invisible, the push is Drained.
LEMMA DrainRefines ==
    ASSUME IInv, IInv', CheckDraining \/ DrainDelete \/ DrainComplete
    PROVE  (\E s \in Server : H!Drained(s)) \/ UNCHANGED <<PlaceOf, conns>>
  <1> USE DEF IInv, H!Place
  <1>1. CASE CheckDraining
    BY <1>1, NobodyMoves DEF CheckDraining, ringVars, serverVars
  <1>2. CASE DrainDelete
    <2>1. PICK s \in completed : draining' = draining \ {s} /\ limbo' = s
      BY <1>2 DEF DrainDelete
    <2>2. s \in draining /\ limbo = None
      BY <1>2 DEF DrainDelete, SnapshotsHold
    <2>3. \A t \in Server : (t \in draining' \/ t = limbo') = (t \in draining \/ t = limbo)
      BY <2>1, <2>2, NoneAssumption
    <2>4. UNCHANGED <<inner, outer, conns>>
      BY <1>2 DEF DrainDelete, serverVars
    <2> QED BY <2>3, <2>4, NobodyMoves
  <1>3. CASE DrainComplete
    <2>1. /\ limbo \in Server /\ limbo' = None /\ outer' = outer \cup {limbo}
          /\ UNCHANGED <<inner, draining, conns>>
      BY <1>3 DEF DrainComplete, CompleteEviction, HeapPush, TypeOK
    <2>2. PlaceOf[limbo] = "draining"
      BY <2>1, Places DEF PlacesRight
    <2>3. \A t \in Server : (PlaceOf'[t] = "resting") = (t \in outer')
      BY PlacesNext DEF PlacesRight
    <2>4. PlaceOf'[limbo] = "resting"
      BY <2>1, <2>3
    <2>5. H!Moves(limbo, "draining", "resting")
      BY <2>1, <2>2, <2>4, OneMoves, NoneAssumption
    <2> QED BY <2>1, <2>5 DEF H!Drained
  <1> QED BY <1>1, <1>2, <1>3

\* rotate() moves one server at a time.
LEMMA RotateRefines ==
    ASSUME IInv, IInv',
           \/ RotateBegin \/ EvictNext \/ EvictDone
           \/ PromoteNext \/ PromoteDone \/ HealthNext \/ RotateEnd
    PROVE  (\E s \in Server : H!Retire(s) \/ H!Return(s)) \/ UNCHANGED <<PlaceOf, conns>>
  <1> USE DEF IInv
  <1>1. CASE RotateBegin \/ EvictDone \/ PromoteDone \/ RotateEnd
    BY <1>1, NobodyMoves
       DEF RotateBegin, EvictDone, PromoteDone, RotateEnd, ringVars, serverVars
  <1>2. CASE EvictNext
    <2>1. PICK s \in Server : FirstIn(todo, s) /\ MoveToOuter(s)
      BY <1>2 DEF EvictNext
    <2>2. s \in ToSet(inner)
      BY <2>1 DEF FirstIn, SnapshotsHold
    <2> QED BY <1>2, <2>1, <2>2, EvictionRefines DEF EvictNext
  <1>3. CASE PromoteNext
    BY <1>3, PromotionRefines DEF PromoteNext, HeadMayEnter
  <1>4. CASE HealthNext
    <2>1. PICK s \in Server :
            /\ FirstIn(todo, s)
            /\ MoveToOuter(s) \/ UNCHANGED <<inner, outer, draining>>
      BY <1>4 DEF HealthNext
    <2>2. s \in ToSet(inner) /\ UNCHANGED <<limbo, conns>>
      BY <1>4, <2>1 DEF FirstIn, SnapshotsHold, HealthNext
    <2> QED BY <2>1, <2>2, EvictionRefines, NobodyMoves
  <1> QED BY <1>1, <1>2, <1>3, <1>4

\* Requests turn the ring, metrics and time change no place.
LEMMA RestRefines ==
    ASSUME IInv, (\E k \in Key \cup {None} : GetServer(k)) \/ Environment \/ Tick
    PROVE  (\E s \in Server : H!Traffic(s)) \/ UNCHANGED <<PlaceOf, conns>>
  <1> USE DEF IInv
  <1>1. CASE \E k \in Key \cup {None} : GetServer(k)
    <2>1. ToSet(inner') = ToSet(inner) /\ UNCHANGED <<outer, draining, limbo, conns>>
      BY <1>1, RingTurn DEF GetServer, TypeOK, NoServerLost, serverVars
    <2> QED BY <2>1, NobodyMoves
  <1>2. CASE \E s \in Server : WsOpen(s) \/ WsClose(s)
    <2>1. PICK s \in Server : WsOpen(s) \/ WsClose(s)
      BY <1>2
    <2>2. s \in Members /\ UNCHANGED <<inner, outer, draining, limbo>>
      BY <2>1 DEF WsOpen, WsClose, ringVars
    <2>3. PlaceOf[s] # "absent" /\ UNCHANGED PlaceOf
      BY <2>2, Places, NobodyMoves DEF PlacesRight
    <2>4. \E c \in 0 .. MaxConn : conns' = [conns EXCEPT ![s] = c]
      <3>1. conns[s] \in 0 .. MaxConn /\ MaxConn \in Nat
        BY TimeAssumption DEF TypeOK
      <3>2. CASE WsOpen(s)
        BY <3>1, <3>2, conns[s] + 1 \in 0 .. MaxConn DEF WsOpen
      <3>3. CASE WsClose(s)
        BY <3>1, <3>3, conns[s] - 1 \in 0 .. MaxConn DEF WsClose
      <3> QED BY <2>1, <3>2, <3>3
    <2> QED BY <2>3, <2>4 DEF H!Traffic
  <1>3. CASE \/ Tick
             \/ \E s \in Server : \/ \E t \in Temps : SetTemp(s, t)
                                  \/ \E F \in SUBSET Faults : SetFaults(s, F)
    BY <1>3, NobodyMoves DEF Tick, SetTemp, SetFaults, ringVars
  <1> QED BY <1>1, <1>2, <1>3 DEF Environment

-----------------------------------------------------------------------------

\* The rings implement Huddle, for every number of servers, every size and
\* delay: no interleaving shows a move that Huddle does not allow.
THEOREM RingsImplementHuddle == Spec => ImplementsHuddle
  <1>1. Init => H!Init
    <2> SUFFICES ASSUME Init PROVE H!Init
      OBVIOUS
    <2>1. ToSet(inner) = {} /\ outer = {} /\ draining = {} /\ limbo = None
      BY DEF Init, ToSet
    <2>2. PlaceOf = [s \in Server |-> "absent"]
      BY <2>1, NoneAssumption DEF PlaceOf
    <2> QED BY <2>2 DEF Init, H!Init
  <1>2. IInv /\ IInv' /\ [Next]_vars => [H!Next]_<<PlaceOf, conns>>
    <2> SUFFICES ASSUME IInv, IInv', [Next]_vars
                 PROVE  H!Next \/ UNCHANGED <<PlaceOf, conns>>
      OBVIOUS
    <2>1. CASE RotationThread
      BY <2>1, DrainRefines, RotateRefines DEF RotationThread, H!Next
    <2>2. CASE Operator
      <3>1. PICK s \in Server : \/ \E forceInner \in BOOLEAN : AddServer(s, forceInner)
                                \/ RemoveServer(s) \/ ForceEvict(s)
        BY <2>2 DEF Operator
      <3>2. CASE ForceEvict(s)
        BY <3>2, EvictionRefines DEF ForceEvict, H!Next
      <3> QED BY <3>1, <3>2, OperatorRefines DEF H!Next
    <2>3. CASE PullNext
      <3>1. outer # {} /\ Len(inner) < MinInner
        BY <2>3 DEF PullNext, IInv, SnapshotsHold, NeedsPull
      <3>2. Len(inner) < MaxInner
        BY <3>1, SizeAssumption DEF IInv, TypeOK
      <3> QED BY <2>3, <3>1, <3>2, PromotionRefines DEF PullNext, H!Next
    <2>4. CASE (\E k \in Key \cup {None} : GetServer(k)) \/ Environment \/ Tick
      BY <2>4, RestRefines DEF H!Next
    <2>5. CASE UNCHANGED vars
      BY <2>5, NobodyMoves DEF vars, ringVars, serverVars
    <2> QED BY <2>1, <2>2, <2>3, <2>4, <2>5 DEF Next
  <1> QED BY <1>1, <1>2, InvariantHolds, PTL DEF Spec, ImplementsHuddle, H!Spec

=============================================================================
