-------------------------- MODULE HuddleRingsProofs --------------------------
(***************************************************************************)
(* Proofs about HuddleRings, for every set of servers and keys, every ring *)
(* size, threshold and delay.                                              *)
(***************************************************************************)
EXTENDS HuddleRings, SequenceTheorems, FiniteSetTheorems, TLAPS

(***************************************************************************)
(* The inner ring as a sequence without repetitions.                       *)
(***************************************************************************)

\* list.remove of the i-th entry: one shorter, the entries behind it move up.
LEMMA RemoveAtEntries ==
    ASSUME NEW S, NEW q \in Seq(S), NEW i \in 1 .. Len(q)
    PROVE  /\ RemoveAt(q, i) \in Seq(S)
           /\ Len(RemoveAt(q, i)) = Len(q) - 1
           /\ \A j \in 1 .. Len(q) - 1 :
                RemoveAt(q, i)[j] = IF j < i THEN q[j] ELSE q[j + 1]
  <1> DEFINE front == SubSeq(q, 1, i - 1)
             back  == SubSeq(q, i + 1, Len(q))
  <1>1. Len(q) \in Nat /\ i \in Int /\ i - 1 \in Int /\ i + 1 \in Int
    OBVIOUS
  <1>2. /\ front \in Seq(S) /\ Len(front) = i - 1
        /\ \A j \in 1 .. i - 1 : front[j] = q[j]
    <2>1. \A j \in 1 .. i - 1 : q[j] \in S
      BY ElementOfSeq
    <2>2. /\ front \in Seq(S)
          /\ Len(front) = IF 1 <= i - 1 THEN i - 1 - 1 + 1 ELSE 0
          /\ \A j \in 1 .. i - 1 - 1 + 1 : front[j] = q[1 + j - 1]
      BY <1>1, <2>1, SubSeqProperties
    <2> QED BY <2>2
  <1>3. /\ back \in Seq(S) /\ Len(back) = Len(q) - i
        /\ \A j \in 1 .. Len(q) - i : back[j] = q[i + j]
    <2>1. \A j \in i + 1 .. Len(q) : q[j] \in S
      BY ElementOfSeq
    <2>2. /\ back \in Seq(S)
          /\ Len(back) = IF i + 1 <= Len(q) THEN Len(q) - (i + 1) + 1 ELSE 0
          /\ \A j \in 1 .. Len(q) - (i + 1) + 1 : back[j] = q[i + 1 + j - 1]
      BY <1>1, <2>1, SubSeqProperties
    <2> QED BY <2>2
  <1>4. /\ front \o back \in Seq(S)
        /\ Len(front \o back) = Len(front) + Len(back)
        /\ \A j \in 1 .. Len(front) + Len(back) :
             (front \o back)[j] = IF j <= Len(front) THEN front[j] ELSE back[j - Len(front)]
    BY <1>2, <1>3, ConcatProperties
  <1>5. RemoveAt(q, i) = front \o back
    BY DEF RemoveAt
  <1> HIDE DEF front, back
  <1>6. ASSUME NEW j \in 1 .. Len(q) - 1
        PROVE  RemoveAt(q, i)[j] = IF j < i THEN q[j] ELSE q[j + 1]
    <2>1. CASE j < i
      <3>1. RemoveAt(q, i)[j] = front[j]
        BY <1>2, <1>3, <1>4, <1>5, <2>1
      <3>2. j \in 1 .. i - 1
        BY <2>1
      <3> QED BY <1>2, <2>1, <3>1, <3>2
    <2>2. CASE ~(j < i)
      <3>1. RemoveAt(q, i)[j] = back[j - (i - 1)]
        BY <1>2, <1>3, <1>4, <1>5, <2>2
      <3>2. j - (i - 1) \in 1 .. Len(q) - i
        BY <2>2
      <3> QED BY <1>3, <2>2, <3>1, <3>2
    <2> QED BY <2>1, <2>2
  <1> QED BY <1>2, <1>3, <1>4, <1>5, <1>6

\* Removing an entry removes its server and keeps the rest distinct.
LEMMA RingLeave ==
    ASSUME NEW S, NEW q \in Seq(S), IsInjective(q), NEW i \in 1 .. Len(q)
    PROVE  /\ ToSet(RemoveAt(q, i)) = ToSet(q) \ {q[i]}
           /\ IsInjective(RemoveAt(q, i))
  <1> DEFINE r == RemoveAt(q, i)
  <1>1. /\ r \in Seq(S) /\ Len(r) = Len(q) - 1 /\ DOMAIN r = 1 .. Len(q) - 1
        /\ \A j \in 1 .. Len(q) - 1 : r[j] = IF j < i THEN q[j] ELSE q[j + 1]
    BY RemoveAtEntries
  <1>2. DOMAIN q = 1 .. Len(q) /\ Len(q) \in Nat
    OBVIOUS
  <1> HIDE DEF r
  <1>3. \A a, b \in 1 .. Len(q) : q[a] = q[b] => a = b
    BY <1>2 DEF IsInjective
  <1>4. IsInjective(r)
    BY <1>1, <1>2, <1>3 DEF IsInjective
  <1>5. ToSet(r) \subseteq ToSet(q) \ {q[i]}
    BY <1>1, <1>2, <1>3 DEF ToSet
  <1>6. ASSUME NEW x \in ToSet(q) \ {q[i]}
        PROVE  x \in ToSet(r)
    <2>1. PICK j \in 1 .. Len(q) : x = q[j]
      BY <1>2 DEF ToSet
    <2>2. CASE j < i
      BY <1>1, <2>1, <2>2 DEF ToSet
    <2>3. CASE ~(j < i)
      <3>1. j - 1 \in 1 .. Len(q) - 1 /\ ~(j - 1 < i)
        BY <1>2, <2>1, <2>3
      <3>2. r[j - 1] = q[j]
        BY <1>1, <3>1
      <3> QED BY <1>1, <2>1, <3>1, <3>2 DEF ToSet
    <2> QED BY <2>2, <2>3
  <1> QED BY <1>4, <1>5, <1>6 DEF r

\* Appending a newcomer adds it and nothing else.
LEMMA RingJoin ==
    ASSUME NEW S, NEW q \in Seq(S), IsInjective(q), NEW s \in S, s \notin ToSet(q)
    PROVE  /\ Append(q, s) \in Seq(S)
           /\ Len(Append(q, s)) = Len(q) + 1
           /\ ToSet(Append(q, s)) = ToSet(q) \cup {s}
           /\ IsInjective(Append(q, s))
  <1> DEFINE r == Append(q, s)
  <1>1. /\ r \in Seq(S) /\ Len(r) = Len(q) + 1 /\ DOMAIN r = 1 .. Len(q) + 1
        /\ \A j \in 1 .. Len(q) : r[j] = q[j]
        /\ r[Len(q) + 1] = s
    OBVIOUS
  <1>2. DOMAIN q = 1 .. Len(q) /\ Len(q) \in Nat
    OBVIOUS
  <1> HIDE DEF r
  <1>3. ToSet(r) = ToSet(q) \cup {s}
    BY <1>1, <1>2 DEF ToSet
  <1>4. IsInjective(r)
    BY <1>1, <1>2 DEF ToSet, IsInjective
  <1> QED BY <1>1, <1>3, <1>4 DEF r

\* deque.rotate(-1) keeps the same servers.
LEMMA RingTurn ==
    ASSUME NEW S, NEW q \in Seq(S), IsInjective(q), q # <<>>
    PROVE  /\ Append(Tail(q), Head(q)) \in Seq(S)
           /\ Len(Append(Tail(q), Head(q))) = Len(q)
           /\ ToSet(Append(Tail(q), Head(q))) = ToSet(q)
           /\ IsInjective(Append(Tail(q), Head(q)))
           /\ Head(q) \in ToSet(q)
  <1> DEFINE r == Append(Tail(q), Head(q))
  <1>1. Len(q) \in Nat \ {0} /\ DOMAIN q = 1 .. Len(q) /\ Head(q) = q[1]
    OBVIOUS
  <1>2. /\ Tail(q) \in Seq(S) /\ Len(Tail(q)) = Len(q) - 1
        /\ \A j \in 1 .. Len(q) - 1 : Tail(q)[j] = q[j + 1]
    BY <1>1, HeadTailProperties
  <1>3. /\ r \in Seq(S) /\ Len(r) = Len(q) /\ DOMAIN r = 1 .. Len(q)
        /\ \A j \in 1 .. Len(q) - 1 : r[j] = q[j + 1]
        /\ r[Len(q)] = q[1]
    BY <1>1, <1>2
  <1> HIDE DEF r
  <1>4. IsInjective(r)
    BY <1>1, <1>3, SMTT(30) DEF IsInjective
  <1>5. ToSet(r) = ToSet(q)
    <2>1. ToSet(r) \subseteq ToSet(q)
      BY <1>1, <1>3 DEF ToSet
    <2>2. ASSUME NEW j \in 1 .. Len(q)
          PROVE  q[j] \in ToSet(r)
      <3>1. CASE j = 1
        <4>1. Len(q) \in 1 .. Len(q) /\ r[Len(q)] = q[j]
          BY <1>1, <1>3, <3>1
        <4> QED BY <1>3, <4>1 DEF ToSet
      <3>2. CASE j # 1
        <4>1. j - 1 \in 1 .. Len(q) - 1 /\ j - 1 \in 1 .. Len(q)
          BY <1>1, <3>2
        <4>2. r[j - 1] = q[j]
          BY <1>3, <4>1
        <4> QED BY <1>3, <4>1, <4>2 DEF ToSet
      <3> QED BY <3>1, <3>2
    <2> QED BY <1>1, <2>1, <2>2 DEF ToSet
  <1>6. Head(q) \in ToSet(q)
    BY <1>1 DEF ToSet
  <1> QED BY <1>3, <1>4, <1>5, <1>6 DEF r

(***************************************************************************)
(* The inductive invariant.  None of its conjuncts is inductive alone: a   *)
(* move is safe because the server it moves is where the thread believes   *)
(* (SnapshotsHold), and the snapshots stay true because the other actors   *)
(* respect the lock and never touch a draining server.                     *)
(***************************************************************************)
IInv == TypeOK /\ NoServerLost /\ SnapshotsHold /\ InnerWithinMax

\* Ages stay below their cap whichever delay is the longest.
LEMMA AgeCapNat == AgeCap \in Nat
  BY TimeAssumption DEF AgeCap, Larger

\* The values add_server and Server's constructor start from are in range.
LEMMA Zeros ==
    /\ 0 \in Temps /\ 0 \in 0 .. AgeCap /\ 0 \in 0 .. MaxConn
    /\ 0 \in 0 .. ColdStart /\ ColdStart \in 0 .. ColdStart
    /\ {} \in SUBSET Faults
  BY AgeCapNat, LevelAssumption, TimeAssumption DEF Temps

LEMMA IndexOfMember ==
    ASSUME inner \in Seq(Server), NEW s \in ToSet(inner)
    PROVE  IndexOf(s) \in 1 .. Len(inner) /\ inner[IndexOf(s)] = s
  <1>1. \E i \in DOMAIN inner : inner[i] = s
    BY DEF ToSet
  <1>2. IndexOf(s) \in DOMAIN inner /\ inner[IndexOf(s)] = s
    BY <1>1 DEF IndexOf
  <1> QED BY <1>2

\* What leaving the inner ring does to it.
LEMMA LeaveInner ==
    ASSUME inner \in Seq(Server), IsInjective(inner), NEW s \in ToSet(inner)
    PROVE  /\ RemoveAt(inner, IndexOf(s)) \in Seq(Server)
           /\ Len(RemoveAt(inner, IndexOf(s))) = Len(inner) - 1
           /\ ToSet(RemoveAt(inner, IndexOf(s))) = ToSet(inner) \ {s}
           /\ IsInjective(RemoveAt(inner, IndexOf(s)))
           /\ Len(inner) \in Nat \ {0}
           /\ s \in Server
  <1>1. IndexOf(s) \in 1 .. Len(inner) /\ inner[IndexOf(s)] = s
    BY IndexOfMember
  <1>2. Len(inner) \in Nat \ {0}
    BY <1>1
  <1> QED BY <1>1, <1>2, RemoveAtEntries, RingLeave, ElementOfSeq

\* heappush: one member more, and index 0 is a member.
LEMMA PushHead ==
    ASSUME TypeOK, NEW s \in Server, HeapPush(s)
    PROVE  /\ outer' = outer \cup {s} /\ outer' \subseteq Server
           /\ head' \in outer' /\ head' # None
  BY NoneAssumption DEF TypeOK, HeapPush

\* heappop: index 0 leaves, and index 0 is a member again unless none is left.
LEMMA PopHead ==
    ASSUME TypeOK, outer # {}, HeapPop
    PROVE  /\ outer' = outer \ {head} /\ outer' \subseteq Server
           /\ head \in outer /\ head \in Server
           /\ head' \in outer' \cup {None} /\ (head' = None) = (outer' = {})
  <1>1. outer' = outer \ {head} /\ head \in outer /\ outer \subseteq Server
    BY DEF TypeOK, HeapPop
  <1>2. CASE outer' = {}
    BY <1>1, <1>2 DEF HeapPop, NewHead
  <1>3. CASE outer' # {}
    <2>1. Coolest(outer') \subseteq outer'
      BY DEF Coolest
    <2>2. head' \in outer'
      BY <1>3, <2>1 DEF HeapPop, NewHead
    <2> QED BY <1>1, <1>3, <2>2, NoneAssumption
  <1> QED BY <1>2, <1>3

\* An eviction takes its server from the inner ring to exactly one of the
\* draining set and the outer ring.
LEMMA EvictionMoves ==
    ASSUME IInv, NEW s \in ToSet(inner), MoveToOuter(s)
    PROVE  /\ inner' \in Seq(Server) /\ IsInjective(inner')
           /\ Len(inner') = Len(inner) - 1 /\ Len(inner) \in Nat \ {0}
           /\ ToSet(inner') = ToSet(inner) \ {s}
           /\ s \in Server
           /\ affinity' \in [Key -> Server \cup {None}]
           /\ age' \in [Server -> 0 .. AgeCap]
           /\ \/ /\ draining' = draining \cup {s}
                 /\ outer' = outer /\ head' = head
              \/ /\ draining' = draining
                 /\ outer' = outer \cup {s} /\ outer' \subseteq Server
                 /\ head' \in outer' /\ head' # None
  <1>1. inner \in Seq(Server) /\ IsInjective(inner)
    BY DEF IInv, TypeOK, NoServerLost
  <1>2. /\ inner' \in Seq(Server) /\ IsInjective(inner')
        /\ Len(inner') = Len(inner) - 1 /\ Len(inner) \in Nat \ {0}
        /\ ToSet(inner') = ToSet(inner) \ {s} /\ s \in Server
    BY <1>1, LeaveInner DEF MoveToOuter
  <1>3. affinity' \in [Key -> Server \cup {None}]
    BY DEF IInv, TypeOK, MoveToOuter
  <1>4. age' \in [Server -> 0 .. AgeCap]
    <2>1. age' = [age EXCEPT ![s] = 0]
      BY DEF MoveToOuter, CompleteEviction
    <2> QED BY <2>1, Zeros DEF IInv, TypeOK
  <1>5. CASE draining' = draining \cup {s} /\ UNCHANGED <<outer, head>>
    BY <1>2, <1>3, <1>4, <1>5
  <1>6. CASE CompleteEviction(s) /\ UNCHANGED draining
    BY <1>2, <1>3, <1>4, <1>6, PushHead DEF IInv, CompleteEviction
  <1> QED BY <1>5, <1>6 DEF MoveToOuter

\* The servers are where they were, but for the one that moved.
LEMMA EvictionKeepsPlaces ==
    ASSUME IInv, NEW s \in ToSet(inner), MoveToOuter(s), UNCHANGED <<limbo, wanted>>
    PROVE  NoServerLost'
  <1>1. /\ IsInjective(inner') /\ ToSet(inner') = ToSet(inner) \ {s} /\ s \in Server
        /\ \/ draining' = draining \cup {s} /\ outer' = outer
           \/ draining' = draining /\ outer' = outer \cup {s}
    BY EvictionMoves
  <1>2. s \notin outer /\ s \notin draining /\ s # limbo
    BY DEF IInv, NoServerLost
  <1>3. wanted' \subseteq Members'
    BY <1>1, <1>2 DEF IInv, NoServerLost, Members
  <1>4. limbo' \notin ToSet(inner') \cup outer' \cup draining'
    BY <1>1, <1>2 DEF IInv, NoServerLost
  <1>5. /\ ToSet(inner') \cap outer' = {}
        /\ (ToSet(inner') \cup outer') \cap draining' = {}
    BY <1>1, <1>2 DEF IInv, NoServerLost
  <1> QED BY <1>1, <1>3, <1>4, <1>5 DEF NoServerLost, ToSet, IsInjective

\* A promotion takes index 0 of the outer ring to the inner ring.
LEMMA PromotionMoves ==
    ASSUME IInv, outer # {}, MoveToInner(head), HeapPop
    PROVE  /\ inner' \in Seq(Server) /\ IsInjective(inner')
           /\ Len(inner') = Len(inner) + 1 /\ Len(inner) \in Nat
           /\ ToSet(inner') = ToSet(inner) \cup {head}
           /\ outer' = outer \ {head} /\ outer' \subseteq Server
           /\ head \in outer /\ head \in Server
           /\ head' \in outer' \cup {None} /\ (head' = None) = (outer' = {})
           /\ age' \in [Server -> 0 .. AgeCap]
  <1>1. /\ outer' = outer \ {head} /\ outer' \subseteq Server
        /\ head \in outer /\ head \in Server
        /\ head' \in outer' \cup {None} /\ (head' = None) = (outer' = {})
    BY PopHead DEF IInv
  <1>2. inner \in Seq(Server) /\ IsInjective(inner) /\ head \notin ToSet(inner)
    BY <1>1 DEF IInv, TypeOK, NoServerLost
  <1>3. /\ inner' \in Seq(Server) /\ IsInjective(inner')
        /\ Len(inner') = Len(inner) + 1
        /\ ToSet(inner') = ToSet(inner) \cup {head}
    BY <1>1, <1>2, RingJoin DEF MoveToInner
  <1>4. age' \in [Server -> 0 .. AgeCap]
    BY Zeros DEF IInv, TypeOK, MoveToInner
  <1> QED BY <1>1, <1>2, <1>3, <1>4

-----------------------------------------------------------------------------
(* One lemma per group of actions: the invariant survives.                 *)

LEMMA OperatorKeepsIInv ==
    ASSUME IInv, NEW s \in Server,
           \/ \E forceInner \in BOOLEAN : AddServer(s, forceInner)
           \/ RemoveServer(s) \/ ForceEvict(s)
    PROVE  IInv'
  <1> USE DEF IInv
  <1>1. CASE \E forceInner \in BOOLEAN : AddServer(s, forceInner)
    <2>1. PICK forceInner \in BOOLEAN : AddServer(s, forceInner)
      BY <1>1
    <2>2. inner \in Seq(Server) /\ IsInjective(inner) /\ s \notin ToSet(inner)
      BY <2>1 DEF AddServer, TypeOK, NoServerLost, Members
    <2>3. CASE inner' = Append(inner, s) /\ Len(inner) < MaxInner /\ UNCHANGED <<outer, head>>
      <3>1. /\ inner' \in Seq(Server) /\ Len(inner') = Len(inner) + 1
            /\ ToSet(inner') = ToSet(inner) \cup {s} /\ IsInjective(inner')
        BY <2>2, <2>3, RingJoin
      <3>2. TypeOK'
        BY <2>1, <2>3, <3>1, Zeros DEF AddServer, TypeOK, threadVars
      <3>3. NoServerLost'
        BY <2>1, <2>3, <3>1, NoneAssumption DEF AddServer, NoServerLost, Members, TypeOK
      <3>4. SnapshotsHold'
        BY <2>1, <2>3, <3>1 DEF AddServer, SnapshotsHold, LockFree, threadVars, TypeOK
      <3>5. InnerWithinMax'
        BY <2>3, <3>1, SizeAssumption DEF InnerWithinMax, TypeOK
      <3> QED BY <3>2, <3>3, <3>4, <3>5
    <2>4. CASE HeapPush(s) /\ UNCHANGED inner
      <3>1. /\ outer' = outer \cup {s} /\ outer' \subseteq Server
            /\ head' \in outer' /\ head' # None
        BY <2>4, PushHead
      <3>2. TypeOK'
        BY <2>1, <2>4, <3>1, Zeros DEF AddServer, TypeOK, threadVars
      <3>3. NoServerLost'
        BY <2>1, <2>4, <3>1, NoneAssumption DEF AddServer, NoServerLost, Members, TypeOK
      <3>4. SnapshotsHold'
        BY <2>1, <2>4, <3>1 DEF AddServer, SnapshotsHold, LockFree, threadVars, TypeOK
      <3>5. InnerWithinMax'
        BY <2>4 DEF InnerWithinMax
      <3> QED BY <3>2, <3>3, <3>4, <3>5
    <2> QED BY <2>1, <2>3, <2>4 DEF AddServer
  <1>2. CASE RemoveServer(s)
    <2>1. inner \in Seq(Server) /\ IsInjective(inner)
      BY DEF TypeOK, NoServerLost
    <2>2. CASE s \in ToSet(inner) /\ inner' = RemoveAt(inner, IndexOf(s))
               /\ pulling' = NeedsPull(inner', outer) /\ Forget(s) /\ UNCHANGED <<outer, head>>
      <3>1. /\ inner' \in Seq(Server) /\ Len(inner') = Len(inner) - 1
            /\ ToSet(inner') = ToSet(inner) \ {s} /\ IsInjective(inner')
            /\ Len(inner) \in Nat \ {0}
        BY <2>1, <2>2, LeaveInner
      <3>2. TypeOK'
        <4>1. pulling' \in BOOLEAN
          BY <2>2 DEF NeedsPull
        <4> QED BY <1>2, <2>2, <3>1, <4>1, Zeros DEF RemoveServer, Forget, TypeOK
      <3>3. NoServerLost'
        BY <1>2, <2>2, <3>1 DEF RemoveServer, NoServerLost, Members, TypeOK
      <3>4. SnapshotsHold'
        BY <1>2, <2>2, <3>1 DEF RemoveServer, SnapshotsHold, LockFree, TypeOK, NeedsPull
      <3>5. InnerWithinMax'
        BY <3>1, SizeAssumption DEF InnerWithinMax
      <3> QED BY <3>2, <3>3, <3>4, <3>5
    <2>3. CASE s \in outer /\ HeapRemove(s) /\ Forget(s) /\ UNCHANGED <<inner, pulling>>
      <3>1. outer' = outer \ {s} /\ head' \in outer' \cup {None} /\ (head' = None) = (outer' = {})
        <4>1. outer' = outer \ {s} /\ outer' \subseteq Server
          BY <2>3 DEF HeapRemove, TypeOK
        <4>2. Coolest(outer') \subseteq outer'
          BY DEF Coolest
        <4> QED BY <2>3, <4>1, <4>2, NoneAssumption DEF HeapRemove, NewHead
      <3>2. TypeOK'
        BY <1>2, <2>3, <3>1, Zeros DEF RemoveServer, Forget, TypeOK
      <3>3. NoServerLost'
        BY <1>2, <2>3, <3>1 DEF RemoveServer, NoServerLost, Members, TypeOK
      <3>4. SnapshotsHold'
        BY <1>2, <2>3, <3>1 DEF RemoveServer, SnapshotsHold, LockFree, TypeOK
      <3>5. InnerWithinMax'
        BY <2>3 DEF InnerWithinMax
      <3> QED BY <3>2, <3>3, <3>4, <3>5
    <2>4. CASE s \notin ToSet(inner) \cup outer
               /\ UNCHANGED <<inner, outer, head, pulling, serverVars>>
      <3>1. TypeOK'
        BY <1>2, <2>4 DEF RemoveServer, TypeOK, serverVars
      <3>2. NoServerLost'
        BY <1>2, <2>4 DEF RemoveServer, NoServerLost, Members, TypeOK
      <3>3. SnapshotsHold'
        BY <1>2, <2>4 DEF RemoveServer, SnapshotsHold, LockFree, TypeOK, NeedsPull
      <3> QED BY <2>4, <3>1, <3>2, <3>3 DEF InnerWithinMax
    <2> QED BY <1>2, <2>2, <2>3, <2>4 DEF RemoveServer
  <1>3. CASE ForceEvict(s)
    <2>1. s \in ToSet(inner) /\ MoveToOuter(s)
      BY <1>3 DEF ForceEvict
    <2>2. /\ inner' \in Seq(Server) /\ IsInjective(inner')
          /\ Len(inner') = Len(inner) - 1 /\ Len(inner) \in Nat \ {0}
          /\ ToSet(inner') = ToSet(inner) \ {s}
          /\ affinity' \in [Key -> Server \cup {None}]
          /\ age' \in [Server -> 0 .. AgeCap]
      BY <2>1, EvictionMoves
    <2>3. \/ draining' = draining \cup {s} /\ outer' = outer /\ head' = head
          \/ draining' = draining /\ outer' = outer \cup {s} /\ outer' \subseteq Server
             /\ head' \in outer' /\ head' # None
      BY <2>1, EvictionMoves
    <2>4. TypeOK'
      BY <1>3, <2>2, <2>3 DEF ForceEvict, TypeOK, threadVars
    <2>5. NoServerLost'
      BY <1>3, <2>1, EvictionKeepsPlaces DEF ForceEvict
    <2>6. SnapshotsHold'
      BY <1>3, <2>1, <2>2, <2>3 DEF ForceEvict, SnapshotsHold, LockFree, threadVars, TypeOK
    <2>7. InnerWithinMax'
      BY <2>2, SizeAssumption DEF InnerWithinMax
    <2> QED BY <2>4, <2>5, <2>6, <2>7
  <1> QED BY <1>1, <1>2, <1>3

\* The pull after a removal.
LEMMA PullKeepsIInv ==
    ASSUME IInv, PullNext
    PROVE  IInv'
  <1> USE DEF IInv
  <1>1. outer # {} /\ Len(inner) < MinInner /\ pc \in {"idle", "drain"}
    BY DEF PullNext, SnapshotsHold, NeedsPull
  <1>2. /\ inner' \in Seq(Server) /\ IsInjective(inner')
        /\ Len(inner') = Len(inner) + 1 /\ Len(inner) \in Nat
        /\ ToSet(inner') = ToSet(inner) \cup {head}
        /\ outer' = outer \ {head} /\ outer' \subseteq Server
        /\ head \in outer /\ head \in Server
        /\ head' \in outer' \cup {None} /\ (head' = None) = (outer' = {})
        /\ age' \in [Server -> 0 .. AgeCap]
    BY <1>1, PromotionMoves DEF PullNext
  <1>3. pulling' \in BOOLEAN /\ (pulling' => NeedsPull(inner', outer'))
    BY DEF PullNext, NeedsPull
  <1>4. TypeOK'
    BY <1>2, <1>3 DEF PullNext, TypeOK
  <1>5. NoServerLost'
    BY <1>2 DEF PullNext, NoServerLost, Members
  <1>6. SnapshotsHold'
    BY <1>1, <1>2, <1>3 DEF PullNext, SnapshotsHold
  <1>7. InnerWithinMax'
    BY <1>1, <1>2, SizeAssumption DEF InnerWithinMax
  <1> QED BY <1>4, <1>5, <1>6, <1>7

\* Serving a request turns the ring.
LEMMA GetServerKeepsIInv ==
    ASSUME IInv, NEW k \in Key \cup {None}, GetServer(k)
    PROVE  IInv'
  <1> USE DEF IInv
  <1>1. inner \in Seq(Server) /\ IsInjective(inner) /\ inner # <<>>
    BY DEF TypeOK, NoServerLost, GetServer
  <1>2. /\ inner' \in Seq(Server) /\ Len(inner') = Len(inner)
        /\ ToSet(inner') = ToSet(inner) /\ IsInjective(inner')
        /\ Head(inner) \in Server
    BY <1>1, RingTurn DEF GetServer
  <1>3. affinity' \in [Key -> Server \cup {None}]
    BY <1>2 DEF GetServer, TypeOK
  <1>4. TypeOK'
    BY <1>2, <1>3 DEF GetServer, TypeOK, serverVars, threadVars
  <1>5. NoServerLost'
    BY <1>2 DEF GetServer, NoServerLost, Members
  <1>6. SnapshotsHold'
    BY <1>2 DEF GetServer, SnapshotsHold, NeedsPull, threadVars, LockFree
  <1> QED BY <1>2, <1>4, <1>5, <1>6 DEF InnerWithinMax

\* Metrics and time move no server.
LEMMA EnvironmentKeepsIInv ==
    ASSUME IInv, Environment \/ Tick
    PROVE  IInv'
  <1> USE DEF IInv
  <1>1. UNCHANGED <<ringVars, affinity, wanted, threadVars>>
    BY DEF Environment, SetTemp, SetFaults, WsOpen, WsClose, Tick
  <1>2. NoServerLost' /\ SnapshotsHold' /\ InnerWithinMax'
    BY <1>1 DEF NoServerLost, Members, SnapshotsHold, NeedsPull, InnerWithinMax,
                ringVars, threadVars
  <1> DEFINE FieldsInRange ==
        /\ temp \in [Server -> Temps] /\ faults \in [Server -> SUBSET Faults]
        /\ conns \in [Server -> 0 .. MaxConn]
        /\ age \in [Server -> 0 .. AgeCap] /\ cold \in [Server -> 0 .. ColdStart]
  <1>3. FieldsInRange'
    <2>1. CASE Tick
      BY <2>1, AgeCapNat, TimeAssumption, SMTT(30) DEF Tick, TypeOK
    <2>2. ASSUME NEW s \in Server, NEW t \in Temps, SetTemp(s, t)
          PROVE  FieldsInRange'
      BY <2>2 DEF SetTemp, TypeOK
    <2>3. ASSUME NEW s \in Server, NEW F \in SUBSET Faults, SetFaults(s, F)
          PROVE  FieldsInRange'
      BY <2>3 DEF SetFaults, TypeOK
    <2>4. ASSUME NEW s \in Server, WsOpen(s)
          PROVE  FieldsInRange'
      BY <2>4, TimeAssumption DEF WsOpen, TypeOK
    <2>5. ASSUME NEW s \in Server, WsClose(s)
          PROVE  FieldsInRange'
      BY <2>5, TimeAssumption DEF WsClose, TypeOK
    <2> QED BY <2>1, <2>2, <2>3, <2>4, <2>5 DEF Environment
  <1>4. TypeOK'
    BY <1>1, <1>3 DEF TypeOK, ringVars, threadVars
  <1> QED BY <1>2, <1>4

\* An exception of on_rotation ends the cycle; it loses no server.
LEMMA CallbackLeaves ==
    ASSUME NEW s, CallbackOr(todo' = todo \ {s} /\ UNCHANGED pc)
    PROVE  \/ pc' = "idle" /\ todo' = {}
           \/ pc' = pc /\ todo' = todo \ {s}
  BY DEF CallbackOr

\* The drain check works without the lock, on servers nobody else may touch.
LEMMA DrainKeepsIInv ==
    ASSUME IInv, CheckDraining \/ DrainDelete \/ DrainComplete
    PROVE  IInv'
  <1> USE DEF IInv
  <1>1. CASE CheckDraining
    <2>1. TypeOK'
      BY <1>1 DEF CheckDraining, TypeOK, ringVars, serverVars
    <2>2. NoServerLost' /\ InnerWithinMax'
      BY <1>1 DEF CheckDraining, NoServerLost, Members, InnerWithinMax, ringVars
    <2>3. SnapshotsHold'
      BY <1>1 DEF CheckDraining, SnapshotsHold, NeedsPull, ringVars
    <2> QED BY <2>1, <2>2, <2>3
  <1>2. CASE DrainDelete
    <2>1. PICK s \in completed :
             draining' = draining \ {s} /\ limbo' = s /\ completed' = completed \ {s}
      BY <1>2 DEF DrainDelete
    <2>2. s \in draining /\ s \in Server /\ s # None /\ limbo = None /\ pc = "drain"
      BY <1>2, NoneAssumption DEF DrainDelete, SnapshotsHold, TypeOK
    <2>3. TypeOK'
      BY <1>2, <2>1, <2>2 DEF DrainDelete, TypeOK, serverVars
    <2>4. NoServerLost'
      BY <1>2, <2>1, <2>2 DEF DrainDelete, NoServerLost, Members
    <2>5. SnapshotsHold'
      BY <1>2, <2>1, <2>2 DEF DrainDelete, SnapshotsHold, NeedsPull
    <2> QED BY <1>2, <2>3, <2>4, <2>5 DEF DrainDelete, InnerWithinMax
  <1>3. CASE DrainComplete
    <2>1. limbo \in Server /\ limbo # None /\ pc = "drain" /\ CompleteEviction(limbo)
      BY <1>3 DEF DrainComplete, TypeOK
    <2>2. /\ outer' = outer \cup {limbo} /\ outer' \subseteq Server
          /\ head' \in outer' /\ head' # None
      BY <2>1, PushHead DEF CompleteEviction
    <2>3. \/ pc' = "idle" /\ completed' = {}
          \/ pc' = pc /\ completed' = completed
      BY <1>3 DEF DrainComplete
    <2>4. age' \in [Server -> 0 .. AgeCap]
      BY <2>1, Zeros DEF CompleteEviction, TypeOK
    <2>5. TypeOK'
      BY <1>3, <2>2, <2>3, <2>4 DEF DrainComplete, TypeOK
    <2>6. NoServerLost'
      <3>1. wanted' \subseteq Members'
        BY <1>3, <2>1, <2>2 DEF DrainComplete, NoServerLost, Members
      <3>2. limbo' \notin ToSet(inner') \cup outer' \cup draining'
        BY <1>3, <2>1, <2>2, <2>5, NoneAssumption DEF DrainComplete, NoServerLost, TypeOK, ToSet
      <3> QED BY <1>3, <2>1, <2>2, <3>1, <3>2 DEF DrainComplete, NoServerLost
    <2>7. SnapshotsHold'
      BY <1>3, <2>1, <2>2, <2>3 DEF DrainComplete, SnapshotsHold, NeedsPull
    <2> QED BY <1>3, <2>5, <2>6, <2>7 DEF DrainComplete, InnerWithinMax
  <1> QED BY <1>1, <1>2, <1>3

\* An eviction by rotate() of a server its loop has still to visit.
LEMMA RotateEvictionKeepsIInv ==
    ASSUME IInv, pc \in {"evict", "health"}, NEW s \in todo, MoveToOuter(s),
           \/ pc' = "idle" /\ todo' = {}
           \/ pc' = pc /\ todo' = todo \ {s},
           UNCHANGED <<limbo, temp, faults, conns, cold, wanted, completed, pulling>>
    PROVE  IInv'
  <1> USE DEF IInv
  <1>1. s \in ToSet(inner) /\ ~pulling /\ limbo = None
    BY DEF SnapshotsHold
  <1>2. /\ inner' \in Seq(Server) /\ Len(inner') = Len(inner) - 1
        /\ Len(inner) \in Nat \ {0} /\ ToSet(inner') = ToSet(inner) \ {s}
        /\ affinity' \in [Key -> Server \cup {None}]
        /\ age' \in [Server -> 0 .. AgeCap] /\ s \in Server
        /\ \/ draining' = draining \cup {s} /\ outer' = outer /\ head' = head
           \/ draining' = draining /\ outer' = outer \cup {s} /\ outer' \subseteq Server
              /\ head' \in outer' /\ head' # None
    BY <1>1, EvictionMoves
  <1>3. NoServerLost'
    BY <1>1, EvictionKeepsPlaces
  <1>4. TypeOK'
    BY <1>2 DEF TypeOK
  <1>5. SnapshotsHold'
    BY <1>1, <1>2 DEF SnapshotsHold, TypeOK
  <1>6. InnerWithinMax'
    BY <1>2, SizeAssumption DEF InnerWithinMax
  <1> QED BY <1>3, <1>4, <1>5, <1>6

LEMMA RotateKeepsIInv ==
    ASSUME IInv,
           \/ RotateBegin \/ EvictNext \/ EvictDone
           \/ PromoteNext \/ PromoteDone \/ HealthNext \/ RotateEnd
    PROVE  IInv'
  <1> USE DEF IInv
  <1>1. ASSUME UNCHANGED <<ringVars, affinity, serverVars, wanted, completed, pulling>>,
               pc' \in {"idle", "drain", "evict", "promote", "health"},
               todo' \subseteq ToSet(inner),
               pc' \notin {"evict", "health"} => todo' = {},
               limbo = None, completed = {}, ~pulling
        PROVE  IInv'
    <2>1. todo' \subseteq Server
      BY <1>1 DEF TypeOK, ToSet
    <2>2. TypeOK'
      BY <1>1, <2>1 DEF TypeOK, ringVars, serverVars
    <2>3. NoServerLost' /\ InnerWithinMax'
      BY <1>1 DEF NoServerLost, Members, InnerWithinMax, ringVars
    <2>4. SnapshotsHold'
      BY <1>1 DEF SnapshotsHold, NeedsPull, ringVars
    <2> QED BY <2>2, <2>3, <2>4
  <1>2. CASE RotateBegin
    <2>1. todo' \subseteq ToSet(inner)
      BY <1>2 DEF RotateBegin, Selected, HeatCandidates
    <2> QED BY <1>1, <1>2, <2>1 DEF RotateBegin
  <1>3. pc \in {"evict", "promote", "health"} => limbo = None /\ completed = {} /\ ~pulling
    BY DEF SnapshotsHold
  <1>4. CASE EvictNext
    <2>1. PICK s \in Server : FirstIn(todo, s) /\ MoveToOuter(s)
                              /\ CallbackOr(todo' = todo \ {s} /\ UNCHANGED pc)
      BY <1>4 DEF EvictNext
    <2>2. s \in todo
      BY <2>1 DEF FirstIn
    <2> QED BY <1>4, <2>1, <2>2, CallbackLeaves, RotateEvictionKeepsIInv DEF EvictNext
  <1>5. CASE PromoteNext
    <2>1. outer # {} /\ Len(inner) < MaxInner /\ pc = "promote" /\ todo = {}
      BY <1>5 DEF PromoteNext, HeadMayEnter, SnapshotsHold
    <2>2. /\ inner' \in Seq(Server) /\ IsInjective(inner')
          /\ Len(inner') = Len(inner) + 1 /\ Len(inner) \in Nat
          /\ ToSet(inner') = ToSet(inner) \cup {head}
          /\ outer' = outer \ {head} /\ outer' \subseteq Server
          /\ head \in outer /\ head \in Server
          /\ head' \in outer' \cup {None} /\ (head' = None) = (outer' = {})
          /\ age' \in [Server -> 0 .. AgeCap]
      BY <1>5, <2>1, PromotionMoves DEF PromoteNext
    <2>3. (pc' = "idle" /\ todo' = {}) \/ (pc' = pc /\ todo' = todo)
      BY <1>5 DEF PromoteNext, CallbackOr
    <2>4. TypeOK'
      BY <1>5, <2>2, <2>3 DEF PromoteNext, TypeOK
    <2>5. NoServerLost'
      BY <1>5, <2>2 DEF PromoteNext, NoServerLost, Members
    <2>6. SnapshotsHold'
      BY <1>3, <1>5, <2>1, <2>2, <2>3 DEF PromoteNext, SnapshotsHold
    <2>7. InnerWithinMax'
      BY <2>1, <2>2, SizeAssumption DEF InnerWithinMax
    <2> QED BY <2>4, <2>5, <2>6, <2>7
  <1>6. CASE HealthNext
    <2>1. PICK s \in Server :
            /\ FirstIn(todo, s)
            /\ \/ MustGo(s) /\ MoveToOuter(s)
                  /\ CallbackOr(todo' = todo \ {s} /\ UNCHANGED pc)
               \/ /\ ~MustGo(s) /\ todo' = todo \ {s}
                  /\ UNCHANGED <<pc, inner, outer, head, draining, affinity, age>>
      BY <1>6 DEF HealthNext
    <2>2. s \in todo /\ pc = "health"
      BY <1>6, <2>1 DEF FirstIn, HealthNext
    <2>3. CASE MoveToOuter(s) /\ CallbackOr(todo' = todo \ {s} /\ UNCHANGED pc)
      BY <1>6, <2>2, <2>3, CallbackLeaves, RotateEvictionKeepsIInv DEF HealthNext
    <2>4. CASE /\ todo' = todo \ {s}
               /\ UNCHANGED <<pc, inner, outer, head, draining, affinity, age>>
      <3>1. TypeOK'
        BY <1>6, <2>4 DEF HealthNext, TypeOK
      <3>2. NoServerLost' /\ InnerWithinMax'
        BY <1>6, <2>4 DEF HealthNext, NoServerLost, Members, InnerWithinMax
      <3>3. SnapshotsHold'
        BY <1>6, <2>2, <2>4 DEF HealthNext, SnapshotsHold, NeedsPull
      <3> QED BY <3>1, <3>2, <3>3
    <2> QED BY <2>1, <2>3, <2>4
  <1>7. CASE EvictDone
    <2>1. todo' = {} /\ pc = "evict" /\ pc' = "promote"
      BY <1>7 DEF EvictDone
    <2> QED BY <1>1, <1>3, <1>7, <2>1 DEF EvictDone
  <1>8. CASE PromoteDone
    BY <1>1, <1>3, <1>8 DEF PromoteDone
  <1>9. CASE RotateEnd
    <2>1. todo' = {} /\ pc = "health" /\ pc' = "idle"
      BY <1>9 DEF RotateEnd
    <2> QED BY <1>1, <1>3, <1>9, <2>1 DEF RotateEnd
  <1> QED BY <1>2, <1>4, <1>5, <1>6, <1>7, <1>8, <1>9

-----------------------------------------------------------------------------
(* The theorems.                                                           *)

\* A ring starts empty and in order.
LEMMA InitIInv == Init => IInv
  <1> SUFFICES ASSUME Init PROVE IInv
    OBVIOUS
  <1>1. inner = <<>> /\ ToSet(inner) = {} /\ IsInjective(inner) /\ Len(inner) = 0
    BY DEF Init, ToSet, IsInjective
  <1>2. TypeOK
    <2>1. inner \in Seq(Server)
      BY <1>1
    <2>2. /\ temp \in [Server -> Temps] /\ faults \in [Server -> SUBSET Faults]
          /\ conns \in [Server -> 0 .. MaxConn]
          /\ age \in [Server -> 0 .. AgeCap] /\ cold \in [Server -> 0 .. ColdStart]
      BY Zeros DEF Init
    <2> QED BY <2>1, <2>2 DEF Init, TypeOK
  <1>3. NoServerLost
    BY <1>1 DEF Init, NoServerLost, Members
  <1>4. SnapshotsHold /\ InnerWithinMax
    BY <1>1, SizeAssumption DEF Init, SnapshotsHold, InnerWithinMax
  <1> QED BY <1>2, <1>3, <1>4 DEF IInv

\* Every step of every actor keeps the inductive invariant.
LEMMA NextIInv == IInv /\ [Next]_vars => IInv'
  <1> SUFFICES ASSUME IInv, [Next]_vars PROVE IInv'
    OBVIOUS
  <1>1. CASE RotationThread
    BY <1>1, DrainKeepsIInv, RotateKeepsIInv DEF RotationThread
  <1>2. CASE Operator
    BY <1>2, OperatorKeepsIInv DEF Operator
  <1>3. CASE PullNext
    BY <1>3, PullKeepsIInv
  <1>4. CASE \E k \in Key \cup {None} : GetServer(k)
    BY <1>4, GetServerKeepsIInv
  <1>5. CASE Environment \/ Tick
    BY <1>5, EnvironmentKeepsIInv
  <1>6. CASE UNCHANGED vars
    <2>1. UNCHANGED <<inner, outer, head, draining, limbo, affinity, temp, faults, conns,
                      age, cold, wanted, pc, todo, completed, pulling>>
      BY <1>6 DEF vars, ringVars, serverVars, threadVars
    <2> QED BY <2>1 DEF IInv, TypeOK, NoServerLost, SnapshotsHold, InnerWithinMax,
                        Members, NeedsPull
  <1> QED BY <1>1, <1>2, <1>3, <1>4, <1>5, <1>6 DEF Next

\* The inductive invariant holds throughout.
THEOREM InvariantHolds == Spec => []IInv
  <1>1. Init => IInv
    BY InitIInv
  <1>2. IInv /\ [Next]_vars => IInv'
    BY NextIInv
  <1> QED BY <1>1, <1>2, PTL DEF Spec

\* Every variable keeps its type.
THEOREM TypeCorrect == Spec => []TypeOK
  <1>1. IInv => TypeOK
    BY DEF IInv
  <1> QED BY <1>1, InvariantHolds, PTL

\* No interleaving of rotations, unlocked drains, removals and evictions loses
\* or duplicates a server the operator wants.
THEOREM ServersConserved == Spec => []NoServerLost
  <1>1. IInv => NoServerLost
    BY DEF IInv
  <1> QED BY <1>1, InvariantHolds, PTL

\* The lists the threads took without or before a step are true when used.
THEOREM SnapshotsAlwaysHold == Spec => []SnapshotsHold
  <1>1. IInv => SnapshotsHold
    BY DEF IInv
  <1> QED BY <1>1, InvariantHolds, PTL

\* max_inner_size bounds the inner ring.
THEOREM InnerBounded == Spec => []InnerWithinMax
  <1>1. IInv => InnerWithinMax
    BY DEF IInv
  <1> QED BY <1>1, InvariantHolds, PTL

\* No request leaves the inner ring while it has anybody.
THEOREM RoutingStaysInside == Spec => []NoTrafficOutsideRing
  <1>1. IInv => NoTrafficOutsideRing
    <2> SUFFICES ASSUME IInv, inner # <<>>, NEW k \in Key \cup {None}
                 PROVE  Routes(k) \subseteq ToSet(inner)
      BY DEF NoTrafficOutsideRing
    <2>1. Head(inner) \in ToSet(inner)
      BY RingTurn DEF IInv, TypeOK, NoServerLost
    <2> QED BY <2>1 DEF Routes, Bound
  <1> QED BY <1>1, InvariantHolds, PTL

-----------------------------------------------------------------------------
(* What a step of the rotation may never do.                               *)

\* Anti-flapping.  Only PromoteNext adds to the inner ring while rotate() is
\* promoting, and every way into the outer ring stamps last_rotated.
THEOREM RestedBeforeReturn == Spec => RestsBeforeReturn
  <1> DEFINE Rested ==
        /\ pc = "promote" => \A s \in ToSet(inner') \ ToSet(inner) :
             s \in outer /\ age[s] >= Dwell /\ cold[s] = 0 /\ temp[s] <= CoolThreshold
        /\ \A s \in (outer' \ outer) \cap Members : age'[s] = 0
  <1>1. ASSUME IInv, Next
        PROVE  Rested
    <2> USE <1>1 DEF IInv
    <2>1. CASE UNCHANGED <<inner, outer>>
      BY <2>1
    <2>2. ASSUME NEW s \in ToSet(inner), MoveToOuter(s), pc # "promote"
          PROVE  Rested
      <3>1. \/ outer' = outer
            \/ outer' = outer \cup {s} /\ age' = [age EXCEPT ![s] = 0]
        BY <2>2 DEF MoveToOuter, CompleteEviction, HeapPush
      <3>2. s \in Server /\ age \in [Server -> 0 .. AgeCap]
        BY <2>2, EvictionMoves DEF TypeOK
      <3> QED BY <2>2, <3>1, <3>2
    <2>3. CASE PullNext
      <3>1. pc # "promote" /\ outer # {}
        BY <2>3 DEF PullNext, SnapshotsHold, NeedsPull
      <3>2. outer' = outer \ {head}
        BY <2>3, <3>1, PromotionMoves DEF PullNext
      <3> QED BY <3>1, <3>2
    <2>4. CASE PromoteNext
      <3>1. outer # {} /\ Eligible(head)
        BY <2>4 DEF PromoteNext, HeadMayEnter
      <3>2. /\ outer' = outer \ {head} /\ head \in outer
            /\ ToSet(inner') = ToSet(inner) \cup {head}
        BY <2>4, <3>1, PromotionMoves DEF PromoteNext
      <3> QED BY <3>1, <3>2 DEF Eligible
    <2>5. CASE DrainComplete
      <3>1. outer' = outer \cup {limbo} /\ age' = [age EXCEPT ![limbo] = 0] /\ inner' = inner
        BY <2>5 DEF DrainComplete, CompleteEviction, HeapPush
      <3>2. limbo \in Server /\ age \in [Server -> 0 .. AgeCap]
        BY <2>5 DEF DrainComplete, TypeOK
      <3> QED BY <3>1, <3>2
    <2>6. ASSUME NEW s \in Server, NEW forceInner \in BOOLEAN, AddServer(s, forceInner)
          PROVE  Rested
      <3>1. pc # "promote" /\ s \notin Members /\ outer' \subseteq outer \cup {s}
        BY <2>6 DEF AddServer, LockFree, HeapPush
      <3> QED BY <3>1
    <2>7. ASSUME NEW s \in Server, RemoveServer(s)
          PROVE  Rested
      <3>1. pc # "promote" /\ outer' \subseteq outer
        BY <2>7 DEF RemoveServer, LockFree, HeapRemove
      <3> QED BY <3>1
    <2>8. ASSUME NEW s \in Server, ForceEvict(s)
          PROVE  Rested
      BY <2>2, <2>8 DEF ForceEvict, LockFree
    <2>9. ASSUME NEW k \in Key \cup {None}, GetServer(k)
          PROVE  Rested
      BY <2>9 DEF GetServer, LockFree
    <2>10. CASE EvictNext
      BY <2>2, <2>10 DEF EvictNext, FirstIn, SnapshotsHold
    <2>11. CASE HealthNext
      BY <2>1, <2>2, <2>11 DEF HealthNext, FirstIn, SnapshotsHold
    <2>12. CASE Environment \/ Tick
      BY <2>1, <2>12 DEF Environment, SetTemp, SetFaults, WsOpen, WsClose, Tick, ringVars
    <2>13. CASE CheckDraining \/ DrainDelete \/ RotateBegin \/ EvictDone
                \/ PromoteDone \/ RotateEnd
      BY <2>1, <2>13 DEF CheckDraining, DrainDelete, RotateBegin, EvictDone, PromoteDone,
                         RotateEnd, ringVars
    <2> QED BY <1>1, <2>3, <2>4, <2>5, <2>6, <2>7, <2>8, <2>9, <2>10, <2>11, <2>12, <2>13
            DEF Next, RotationThread, Operator
  <1>2. IInv /\ [Next]_vars => [Rested]_vars
    BY <1>1
  <1> QED BY <1>2, InvariantHolds, PTL DEF Spec, RestsBeforeReturn

-----------------------------------------------------------------------------
(***************************************************************************)
(* The minimum of the inner ring.  The number of evictions is decided once *)
(* per rotation, from the length of the ring at that moment, and the       *)
(* evictions are single steps: what carries the decision from the one to   *)
(* the others is that the ring stays above its minimum by as many servers  *)
(* as are still to be evicted (SpareKept).                                 *)
(***************************************************************************)
SpareKept == pc = "evict" => todo = {} \/ Len(inner) - Cardinality(todo) >= MinInner

\* The servers of the inner ring can be counted.
LEMMA RingFinite ==
    ASSUME IInv, NEW S, S \subseteq ToSet(inner)
    PROVE  IsFiniteSet(S) /\ Cardinality(S) \in Nat
  <1>1. inner \in Seq(Server) /\ IsInjective(inner)
    BY DEF IInv, TypeOK, NoServerLost
  <1>2. inner \in Surjection(1 .. Len(inner), ToSet(inner))
    <2>1. DOMAIN inner = 1 .. Len(inner) /\ inner \in [1 .. Len(inner) -> ToSet(inner)]
      BY <1>1 DEF ToSet
    <2> QED BY <2>1 DEF Surjection, ToSet
  <1>3. Len(inner) \in Nat
    BY <1>1
  <1>4. IsFiniteSet(ToSet(inner))
    BY <1>2, <1>3, FS_Interval, FS_Surjection
  <1> QED BY <1>4, FS_Subset, FS_CardinalityType

\* A server further back in the ring has more servers before it.
LEMMA BeforeGrows ==
    ASSUME IInv, NEW S, S \subseteq ToSet(inner), NEW s \in S, NEW t \in S,
           IndexOf(s) < IndexOf(t)
    PROVE  Before(S, s) < Before(S, t)
  <1> DEFINE A == {u \in S : IndexOf(u) < IndexOf(s)}
             B == {u \in S : IndexOf(u) < IndexOf(t)}
  <1>1. \A u \in S : IndexOf(u) \in Nat
    BY IndexOfMember DEF IInv, TypeOK
  <1>2. A \subseteq B /\ s \in B /\ s \notin A
    BY <1>1
  <1>3. A \subseteq ToSet(inner) /\ B \subseteq ToSet(inner)
    OBVIOUS
  <1> HIDE DEF A, B
  <1>4. /\ IsFiniteSet(B) /\ Cardinality(A) \in Nat /\ Cardinality(B) \in Nat
        /\ A \in SUBSET B /\ A # B
    BY <1>2, <1>3, RingFinite
  <1>5. Cardinality(A) <= Cardinality(B) /\ Cardinality(B) # Cardinality(A)
    BY <1>4, FS_Subset
  <1> QED BY <1>4, <1>5 DEF Before, A, B

\* A rotation selects no more servers than the inner ring can spare: their
\* ranks among the candidates are different and all below SafeEvictions.
LEMMA FewSelected ==
    ASSUME IInv, NEW S, S \subseteq ToSet(inner)
    PROVE  /\ Selected(S) \subseteq ToSet(inner)
           /\ SafeEvictions \in Nat
           /\ Cardinality(Selected(S)) <= SafeEvictions
  <1> DEFINE T == Selected(S)
             f == [s \in T |-> Before(S, s)]
             ranks == 0 .. SafeEvictions - 1
  <1>1. Len(inner) \in Nat /\ MinInner \in Nat /\ SafeEvictions \in Nat
    BY SizeAssumption DEF IInv, TypeOK, SafeEvictions
  <1>2. T \subseteq S /\ \A s \in T : Before(S, s) < SafeEvictions
    BY DEF Selected
  <1>3. \A s \in S : Before(S, s) \in Nat
    <2> TAKE s \in S
    <2> DEFINE A == {u \in S : IndexOf(u) < IndexOf(s)}
    <2>1. A \subseteq ToSet(inner)
      OBVIOUS
    <2>2. Cardinality(A) \in Nat
      BY <2>1, RingFinite
    <2> QED BY <2>2 DEF Before
  <1>4. ASSUME NEW s \in T, NEW t \in T, s # t
        PROVE  Before(S, s) # Before(S, t)
    <2> HIDE DEF T
    <2>0. s \in S /\ t \in S
      BY <1>2
    <2>1. \A u \in S : IndexOf(u) \in Nat /\ inner[IndexOf(u)] = u
      BY IndexOfMember DEF IInv, TypeOK
    <2>2. IndexOf(s) < IndexOf(t) \/ IndexOf(t) < IndexOf(s)
      BY <1>4, <2>0, <2>1
    <2>3. Before(S, s) < Before(S, t) \/ Before(S, t) < Before(S, s)
      BY <2>0, <2>2, BeforeGrows
    <2> QED BY <2>0, <1>3, <2>3
  <1> HIDE DEF T
  <1>5. f \in Injection(T, ranks)
    <2>1. \A s \in T : Before(S, s) \in ranks
      BY <1>1, <1>2, <1>3
    <2>2. f \in [T -> ranks]
      BY <2>1
    <2>3. \A s, t \in T : f[s] = f[t] => s = t
      BY <1>4
    <2> HIDE DEF f, ranks
    <2> QED BY <2>2, <2>3 DEF Injection, IsInjective
  <1>6. IsFiniteSet(ranks) /\ Cardinality(ranks) = SafeEvictions
    <2> DEFINE last == SafeEvictions - 1
    <2>1. 0 \in Int /\ last \in Int
      BY <1>1
    <2> HIDE DEF last
    <2>2. IsFiniteSet(0 .. last) /\ Cardinality(0 .. last) = IF 0 > last THEN 0 ELSE last - 0 + 1
      BY <2>1, FS_Interval
    <2> QED BY <1>1, <2>2 DEF last
  <1>7. Cardinality(T) <= SafeEvictions
    BY <1>5, <1>6, FS_Injection
  <1> QED BY <1>1, <1>2, <1>7 DEF T

\* Each eviction uses up one server that the ring can spare.
LEMMA EvictionSpares ==
    ASSUME IInv, SpareKept, EvictNext
    PROVE  SpareKept' /\ Len(inner') >= MinInner
  <1>1. PICK s \in Server :
          FirstIn(todo, s) /\ MoveToOuter(s) /\ CallbackOr(todo' = todo \ {s} /\ UNCHANGED pc)
    BY DEF EvictNext
  <1>2. s \in todo /\ todo \subseteq ToSet(inner) /\ pc = "evict"
    BY <1>1 DEF EvictNext, FirstIn, IInv, SnapshotsHold
  <1>3. IsFiniteSet(todo) /\ Cardinality(todo) \in Nat
    BY <1>2, RingFinite
  <1>4. Cardinality(todo \ {s}) = Cardinality(todo) - 1
    BY <1>2, <1>3, FS_RemoveElement
  <1>5. Len(inner') = Len(inner) - 1 /\ Len(inner) \in Nat
    BY <1>1, <1>2, EvictionMoves
  <1>6. Len(inner) - Cardinality(todo) >= MinInner
    BY <1>2 DEF SpareKept
  <1>7. Cardinality(todo) >= 1
    BY <1>2, <1>3, FS_EmptySet
  <1>8. MinInner \in Nat
    BY SizeAssumption
  <1>9. Len(inner') - Cardinality(todo \ {s}) >= MinInner /\ Len(inner') >= MinInner
    BY <1>3, <1>4, <1>5, <1>6, <1>7, <1>8
  <1>10. todo' = {} \/ todo' = todo \ {s}
    BY <1>1 DEF CallbackOr
  <1> QED BY <1>9, <1>10 DEF SpareKept

\* Nobody else changes the list, or the ring, between two evictions.
LEMMA NextSpareKept ==
    ASSUME IInv, SpareKept, [Next]_vars
    PROVE  SpareKept'
  <1>1. CASE RotateBegin
    <2>1. HeatCandidates \subseteq ToSet(inner)
      BY DEF HeatCandidates
    <2>2. /\ SafeEvictions \in Nat /\ Selected(HeatCandidates) \subseteq ToSet(inner)
          /\ Cardinality(Selected(HeatCandidates)) <= SafeEvictions
      BY <2>1, FewSelected
    <2>3. /\ IsFiniteSet(Selected(HeatCandidates))
          /\ Cardinality(Selected(HeatCandidates)) \in Nat
      BY <2>2, RingFinite
    <2>4. todo' = Selected(HeatCandidates) /\ inner' = inner
      BY <1>1 DEF RotateBegin, ringVars
    <2>5. Len(inner) \in Nat /\ MinInner \in Nat
      BY SizeAssumption DEF IInv, TypeOK
    <2>6. CASE Len(inner) > MinInner
      BY <2>2, <2>3, <2>4, <2>5, <2>6 DEF SafeEvictions, SpareKept
    <2>7. CASE ~(Len(inner) > MinInner)
      <3>1. Cardinality(todo') = 0
        BY <2>2, <2>3, <2>4, <2>7 DEF SafeEvictions
      <3>2. todo' = {}
        BY <2>3, <2>4, <3>1, FS_EmptySet
      <3> QED BY <3>2 DEF SpareKept
    <2> QED BY <2>6, <2>7
  <1>2. CASE EvictNext
    BY <1>2, EvictionSpares
  <1>3. CASE UNCHANGED <<inner, pc, todo>>
    BY <1>3 DEF SpareKept
  <1>4. CASE pc' # "evict"
    BY <1>4 DEF SpareKept
  <1>5. CASE RotationThread /\ ~RotateBegin /\ ~EvictNext
    <2>1. pc' # "evict"
      BY <1>5 DEF RotationThread, CheckDraining, DrainDelete, DrainComplete, EvictDone,
                  PromoteNext, PromoteDone, HealthNext, RotateEnd, CallbackOr
    <2> QED BY <1>4, <2>1
  <1>6. CASE Operator \/ PullNext \/ \E k \in Key \cup {None} : GetServer(k)
    <2>1. pc' = pc /\ pc \in {"idle", "drain"}
      BY <1>6 DEF Operator, AddServer, RemoveServer, ForceEvict, GetServer, PullNext,
                  LockFree, threadVars, IInv, SnapshotsHold
    <2> QED BY <1>4, <2>1
  <1>7. CASE Environment \/ Tick \/ UNCHANGED vars
    <2>1. UNCHANGED <<inner, pc, todo>>
      BY <1>7 DEF Environment, SetTemp, SetFaults, WsOpen, WsClose, Tick, vars, ringVars,
                  threadVars
    <2> QED BY <1>3, <2>1
  <1> QED BY <1>1, <1>2, <1>5, <1>6, <1>7 DEF Next

\* A rotation leaves the inner ring its minimum, however many servers are hot
\* or unhealthy and whatever callbacks raise: what shrinks the ring further is
\* an operator.
THEOREM MinimumKept == Spec => RotateKeepsMinimum
  <1> DEFINE Kept == Len(inner') >= Len(inner) \/ Len(inner') >= MinInner \/ ~RotationThread
  <1>1. Init => IInv /\ SpareKept
    BY InitIInv DEF Init, SpareKept
  <1>2. (IInv /\ SpareKept) /\ [Next]_vars => (IInv /\ SpareKept)'
    BY NextIInv, NextSpareKept
  <1>3. ASSUME IInv, SpareKept, RotationThread
        PROVE  Kept
    <2>1. Len(inner) \in Nat /\ MinInner \in Nat
      BY SizeAssumption DEF IInv, TypeOK
    <2>2. CASE inner' = inner
      BY <2>1, <2>2
    <2>3. CASE EvictNext
      BY <1>3, <2>3, EvictionSpares
    <2>4. CASE PromoteNext
      <3>1. Len(inner') = Len(inner) + 1
        BY <1>3, <2>4, PromotionMoves DEF PromoteNext, HeadMayEnter
      <3> QED BY <2>1, <3>1
    <2>5. CASE HealthNext
      <3>1. Len(inner) > MinInner
        BY <2>5 DEF HealthNext
      <3>2. \/ inner' = inner
            \/ \E s \in ToSet(inner) : MoveToOuter(s)
        BY <1>3, <2>5 DEF HealthNext, FirstIn, IInv, SnapshotsHold
      <3>3. inner' = inner \/ Len(inner') = Len(inner) - 1
        BY <1>3, <3>2, EvictionMoves
      <3> QED BY <2>1, <3>1, <3>3
    <2>6. CASE CheckDraining \/ DrainDelete \/ DrainComplete \/ RotateBegin \/ EvictDone
               \/ PromoteDone \/ RotateEnd
      <3>1. inner' = inner
        BY <2>6 DEF CheckDraining, DrainDelete, DrainComplete, RotateBegin, EvictDone,
                    PromoteDone, RotateEnd, ringVars
      <3> QED BY <2>2, <3>1
    <2> QED BY <1>3, <2>3, <2>4, <2>5, <2>6 DEF RotationThread
  <1>4. IInv /\ SpareKept => [Kept]_vars
    BY <1>3
  <1> QED BY <1>1, <1>2, <1>4, PTL DEF Spec, RotateKeepsMinimum

=============================================================================
