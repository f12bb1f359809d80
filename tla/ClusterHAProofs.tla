--------------------------- MODULE ClusterHAProofs ---------------------------
(***************************************************************************)
(* Proofs about ClusterHA, for any number of masters and all bounds.       *)
(*                                                                         *)
(* The inductive invariant says of every node that what it knows of the    *)
(* leader is true and that a working state_file holds its ballot (Sound),  *)
(* and of every request that claims leadership, of a round, of a push or   *)
(* late, that its sender did lead in the term it carries (Honest).         *)
(***************************************************************************)
EXTENDS ClusterHA, FiniteSetTheorems, TLAPS

NodeState ==
  [term : Term, voted : Node \cup {None}, leader : Node \cup {None},
   role : {"follower", "candidate", "leader"}, readonly : BOOLEAN,
   disk : Ballot, writable : BOOLEAN]

Durable(s) == s.writable => s.disk = [term |-> s.term, voted |-> s.voted]

Sound(n, s) ==
  /\ s.leader # None => <<s.leader, s.term>> \in led
  /\ s.role = "leader" => <<n, s.term>> \in led
  /\ Durable(s)

Honest ==
  /\ \A n \in Node : rpc[n]["beat"].todo # {} => <<n, rpc[n]["beat"].term>> \in led
  /\ \A n \in Node, t \in Pushing :
       cast[n][t].todo # {} => <<n, cast[n][t].term>> \in led
  /\ \A q \in late : q.kind # "vote" => <<q.from, q.term>> \in led

AllSound == \A n \in Node : Sound(n, State(n))

IInv == TypeOK /\ AllSound /\ Honest

\* How a state may follow another when no reply misleads the node.
Keeps(s, t) ==
  /\ t.term >= s.term
  /\ t.term = s.term /\ s.voted # None => t.voted = s.voted

-----------------------------------------------------------------------------
(* The pieces of the type invariant.                                        *)

RaftOK ==
  /\ term \in [Node -> Term] /\ voted \in [Node -> Node \cup {None}]
  /\ role \in [Node -> {"follower", "candidate", "leader"}]
  /\ leader \in [Node -> Node \cup {None}]
  /\ readonly \in [Node -> BOOLEAN] /\ disk \in [Node -> Ballot]
RoundsOK ==
  rpc \in [Node -> [Asking -> Round]] /\ cast \in [Node -> [Pushing -> Push]]
ContentOK ==
  /\ applying \in [Node -> SUBSET Content] /\ data \in [Node -> Content]
  /\ writing \in [Node -> BOOLEAN] /\ writes \in Content
EnvOK ==
  /\ up \in [Node -> BOOLEAN] /\ diskOk \in [Node -> BOOLEAN]
  /\ crashes \in 0 .. MaxCrashes /\ cut \subseteq Node /\ lossy \in BOOLEAN
RestOK ==
  /\ overdue \in [Node -> BOOLEAN]
  /\ late \subseteq Request /\ led \subseteq Node \X Term

\* The type invariant is the conjunction of its pieces.
LEMMA TypePieces ==
  /\ TypeOK <=> RaftOK /\ RoundsOK /\ ContentOK /\ EnvOK /\ RestOK
  /\ TypeOK' <=> RaftOK' /\ RoundsOK' /\ ContentOK' /\ EnvOK' /\ RestOK'
  BY DEF TypeOK, RaftOK, RoundsOK, ContentOK, EnvOK, RestOK, Content

\* Terms are numbers.
LEMMA TermsAreNumbers == Term \subseteq Nat /\ MaxTerm \in Nat /\ 0 \in Term
  BY ParameterAssumption DEF Term

-----------------------------------------------------------------------------
(* What the operators on the state of a node do.                            *)

\* The state of a node is one.
LEMMA StateTyped ==
  ASSUME RaftOK, EnvOK, NEW n \in Node
  PROVE  State(n) \in NodeState
  BY ParameterAssumption DEF State, NodeState, RaftOK, EnvOK

\* The term of a state is a number.
LEMMA TermOfState ==
  ASSUME NEW s \in NodeState
  PROVE  s.term \in Int
  <1>1. s.term \in Term
    BY DEF NodeState
  <1>2. \A t \in Term : t \in Int
    BY DEF Term
  <1> QED BY <1>1, <1>2

\* _persist changes nothing but the file, and makes it agree.
LEMMA PersistedFacts ==
  ASSUME NEW s \in NodeState
  PROVE  /\ Persisted(s) \in NodeState /\ Durable(Persisted(s))
         /\ Persisted(s).term = s.term /\ Persisted(s).voted = s.voted
         /\ Persisted(s).role = s.role /\ Persisted(s).leader = s.leader
         /\ Persisted(s).readonly = s.readonly
         /\ Persisted(s).writable = s.writable
  BY DEF Persisted, NodeState, Durable, Ballot

\* _step_down leaves a follower of nobody that has not voted.
LEMMA SteppedDownFacts ==
  ASSUME NEW s \in NodeState, NEW t \in Term
  PROVE  LET d == SteppedDown(s, t) IN
         /\ d \in NodeState /\ Durable(d) /\ d.writable = s.writable
         /\ d.term = t /\ d.voted = None /\ d.role = "follower"
         /\ d.leader = None
  <1> DEFINE b == [s EXCEPT !.term = t, !.voted = None]
  <1>1. /\ b \in NodeState /\ b.term = t /\ b.voted = None
        /\ b.writable = s.writable
    BY DEF NodeState
  <1>2. /\ Persisted(b) \in NodeState /\ Durable(Persisted(b))
        /\ Persisted(b).term = t /\ Persisted(b).voted = None
        /\ Persisted(b).writable = s.writable
    BY <1>1, PersistedFacts
  <1>3. SteppedDown(s, t) =
          [Persisted(b) EXCEPT !.role = "follower", !.leader = None]
    BY DEF SteppedDown
  <1> HIDE DEF b
  <1> QED BY <1>2, <1>3 DEF NodeState, Durable

\* A newer term is taken over, with the vote and the leader forgotten.
LEMMA CaughtFacts ==
  ASSUME NEW n \in Node, NEW s \in NodeState, NEW t \in Term, Sound(n, s)
  PROVE  LET d == Caught(s, t) IN
         /\ d \in NodeState /\ Sound(n, d) /\ d.writable = s.writable
         /\ Keeps(s, d) /\ (t >= s.term => d.term = t)
         /\ d.term = s.term => d.voted = s.voted
  <1>1. CASE t > s.term
    <2>1. Caught(s, t) = SteppedDown(s, t)
      BY <1>1 DEF Caught
    <2>2. /\ Caught(s, t) \in NodeState /\ Durable(Caught(s, t))
          /\ Caught(s, t).writable = s.writable
          /\ Caught(s, t).term = t /\ Caught(s, t).role = "follower"
          /\ Caught(s, t).leader = None
      BY <2>1, SteppedDownFacts
    <2>3. s.term \in Int /\ t \in Int
      BY TermOfState, TermsAreNumbers
    <2>4. Keeps(s, Caught(s, t)) /\ Caught(s, t).term # s.term
      BY <1>1, <2>2, <2>3 DEF Keeps
    <2>5. Sound(n, Caught(s, t))
      BY <2>2 DEF Sound
    <2> QED BY <2>2, <2>4, <2>5
  <1>2. CASE ~(t > s.term)
    <2>1. Caught(s, t) = s
      BY <1>2 DEF Caught
    <2>2. s.term \in Int /\ t \in Int
      BY TermOfState, TermsAreNumbers
    <2>3. Keeps(s, s) /\ (t >= s.term => s.term = t)
      BY <1>2, <2>2 DEF Keeps
    <2> QED BY <2>1, <2>3
  <1> QED BY <1>1, <1>2

\* handle_vote_request.
LEMMA VoteFacts ==
  ASSUME NEW n \in Node, NEW s \in NodeState, NEW t \in Term, NEW c \in Node,
         Sound(n, s)
  PROVE  LET d == AfterVote(s, c, t) IN
         d \in NodeState /\ Sound(n, d) /\ d.writable = s.writable /\ Keeps(s, d)
  <1> DEFINE k == Caught(s, t)
             g == [k EXCEPT !.voted = c]
  <1>1. /\ k \in NodeState /\ Sound(n, k) /\ k.writable = s.writable
        /\ Keeps(s, k) /\ (k.term = s.term => k.voted = s.voted)
    BY CaughtFacts
  <1>2. CASE GrantsVote(s, c, t)
    <2>1. k.voted \in {None, c}
      BY <1>2 DEF GrantsVote
    <2>2. AfterVote(s, c, t) = Persisted(g)
      BY <1>2 DEF AfterVote
    <2> HIDE DEF k
    <2>3. /\ g \in NodeState /\ g.term = k.term /\ g.voted = c
          /\ g.role = k.role /\ g.leader = k.leader /\ g.writable = k.writable
      BY <1>1 DEF NodeState
    <2> HIDE DEF g
    <2> QED BY <1>1, <2>1, <2>2, <2>3, PersistedFacts DEF Sound, Keeps
  <1>3. CASE ~GrantsVote(s, c, t)
    BY <1>1, <1>3 DEF AfterVote
  <1> QED BY <1>2, <1>3

\* handle_append_entries, when the sender led in the term it claims.
LEMMA AppendFacts ==
  ASSUME NEW n \in Node, NEW s \in NodeState, NEW t \in Term, NEW l \in Node,
         Sound(n, s), <<l, t>> \in led
  PROVE  LET d == AfterAppend(s, l, t) IN
         d \in NodeState /\ Sound(n, d) /\ d.writable = s.writable /\ Keeps(s, d)
  <1> DEFINE k == Caught(s, t)
  <1>1. /\ k \in NodeState /\ Sound(n, k) /\ k.writable = s.writable
        /\ Keeps(s, k) /\ (t >= s.term => k.term = t)
    BY CaughtFacts
  <1>2. CASE FollowsLeader(s, t)
    <2>1. AfterAppend(s, l, t) =
            [k EXCEPT !.leader = l, !.role = "follower",
                      !.readonly = @ /\ ~AutoHeal]
      BY <1>2 DEF AfterAppend
    <2>2. k.term = t
      BY <1>1, <1>2 DEF FollowsLeader
    <2> HIDE DEF k
    <2> QED BY <1>1, <2>1, <2>2 DEF NodeState, Sound, Durable, Keeps
  <1>3. CASE ~FollowsLeader(s, t)
    BY <1>3, TermsAreNumbers DEF AfterAppend, Keeps, NodeState
  <1> QED BY <1>2, <1>3

\* enter_readonly_mode.
LEMMA ReadonlyFacts ==
  ASSUME NEW n \in Node, NEW s \in NodeState, Sound(n, s)
  PROVE  LET d == AfterReadonly(s) IN
         d \in NodeState /\ Sound(n, d) /\ d.writable = s.writable /\ Keeps(s, d)
  <1>1. s.term \in Int
    BY TermOfState
  <1>2. AfterReadonly(s) \in NodeState
    BY DEF AfterReadonly, NodeState
  <1>3. /\ AfterReadonly(s).term = s.term /\ AfterReadonly(s).voted = s.voted
        /\ AfterReadonly(s).disk = s.disk
        /\ AfterReadonly(s).writable = s.writable
        /\ AfterReadonly(s).leader \in {None, s.leader}
        /\ AfterReadonly(s).role \in {"follower", s.role}
    BY DEF AfterReadonly, NodeState
  <1>4. Keeps(s, AfterReadonly(s)) /\ Durable(AfterReadonly(s))
    BY <1>1, <1>3 DEF Keeps, Durable, Sound
  <1> QED BY <1>2, <1>3, <1>4 DEF Sound

-----------------------------------------------------------------------------
(* What a change of one node, of one round or of nothing does to the whole. *)

Kept == \A m \in Node : StateFile /\ diskOk[m] => KeepsBallot(m)

\* The fields of a state.
LEMMA StateFields ==
  \A m \in Node :
    /\ State(m).term = term[m] /\ State(m).voted = voted[m]
    /\ State(m).role = role[m] /\ State(m).leader = leader[m]
    /\ State(m).disk = disk[m]
    /\ State(m).writable = (StateFile /\ diskOk[m])
  BY DEF State

\* Only the node of a step changes.
LEMMA BecomesFacts ==
  ASSUME RaftOK, NEW n \in Node, NEW s \in NodeState, Becomes(n, s)
  PROVE  /\ RaftOK'
         /\ \A m \in Node :
              /\ term'[m] = IF m = n THEN s.term ELSE term[m]
              /\ voted'[m] = IF m = n THEN s.voted ELSE voted[m]
              /\ role'[m] = IF m = n THEN s.role ELSE role[m]
              /\ leader'[m] = IF m = n THEN s.leader ELSE leader[m]
              /\ disk'[m] = IF m = n THEN s.disk ELSE disk[m]
  BY DEF Becomes, RaftOK, NodeState

\* A sound state of one node leaves all nodes sound.
LEMMA SoundAfter ==
  ASSUME RaftOK, AllSound, NEW n \in Node, NEW s \in NodeState, Becomes(n, s),
         led \subseteq led', diskOk' = diskOk,
         s.leader # None => <<s.leader, s.term>> \in led',
         s.role = "leader" => <<n, s.term>> \in led',
         StateFile /\ diskOk[n] => s.disk = [term |-> s.term, voted |-> s.voted]
  PROVE  RaftOK' /\ AllSound'
  <1>1. RaftOK'
    BY BecomesFacts
  <1>2. ASSUME NEW m \in Node
        PROVE  Sound(m, State(m))'
    <2>1. CASE m = n
      <3>1. /\ term'[m] = s.term /\ voted'[m] = s.voted /\ role'[m] = s.role
            /\ leader'[m] = s.leader /\ disk'[m] = s.disk
        BY <2>1, BecomesFacts
      <3> QED BY <2>1, <3>1 DEF Sound, Durable, State
    <2>2. CASE m # n
      <3>1. /\ term'[m] = term[m] /\ voted'[m] = voted[m] /\ role'[m] = role[m]
            /\ leader'[m] = leader[m] /\ disk'[m] = disk[m]
        BY <2>2, BecomesFacts
      <3>2. Sound(m, State(m))
        BY DEF AllSound
      <3> QED BY <3>1, <3>2 DEF Sound, Durable, State
    <2> QED BY <2>1, <2>2
  <1> QED BY <1>1, <1>2 DEF AllSound

\* A state that keeps the vote of its node keeps all votes.
LEMMA KeptAfter ==
  ASSUME RaftOK, NEW n \in Node, NEW s \in NodeState, Becomes(n, s),
         StateFile /\ diskOk[n] => Keeps(State(n), s)
  PROVE  Kept
  <1> SUFFICES ASSUME NEW m \in Node, StateFile, diskOk[m] PROVE KeepsBallot(m)
    BY DEF Kept
  <1>1. CASE m = n
    BY <1>1, BecomesFacts DEF Keeps, KeepsBallot, State
  <1>2. CASE m # n
    <2>1. term[m] \in Int
      BY DEF RaftOK, Term
    <2> QED BY <1>2, <2>1, BecomesFacts DEF KeepsBallot
  <1> QED BY <1>1, <1>2

\* What leaves the protected state alone leaves it sound.
LEMMA Idle ==
  ASSUME RaftOK, AllSound, UNCHANGED raft, led' = led,
         \A m \in Node : diskOk'[m] => diskOk[m]
  PROVE  RaftOK' /\ AllSound' /\ Kept
  <1>1. /\ term' = term /\ role' = role /\ voted' = voted /\ leader' = leader
        /\ readonly' = readonly /\ disk' = disk
    BY DEF raft
  <1>2. RaftOK'
    BY <1>1 DEF RaftOK
  <1>3. ASSUME NEW m \in Node
        PROVE  Sound(m, State(m))'
    <2>1. Sound(m, State(m))
      BY DEF AllSound
    <2> QED BY <1>1, <2>1 DEF Sound, Durable, State
  <1>4. ASSUME NEW m \in Node
        PROVE  KeepsBallot(m)
    <2>1. term[m] \in Int
      BY DEF RaftOK, Term
    <2> QED BY <1>1, <2>1 DEF KeepsBallot
  <1> QED BY <1>2, <1>3, <1>4 DEF AllSound, Kept

\* A round of one thread changes.
LEMMA RoundFacts ==
  ASSUME rpc \in [Node -> [Asking -> Round]], NEW n \in Node, NEW t \in Asking,
         NEW r \in Round, RoundBecomes(n, t, r)
  PROVE  /\ rpc' \in [Node -> [Asking -> Round]]
         /\ \A m \in Node, u \in Asking :
              rpc'[m][u] = IF m = n /\ u = t THEN r ELSE rpc[m][u]
  BY DEF RoundBecomes

\* A push of one thread changes.
LEMMA PushFacts ==
  ASSUME cast \in [Node -> [Pushing -> Push]], NEW n \in Node,
         NEW t \in Pushing, NEW r \in Push, PushBecomes(n, t, r)
  PROVE  /\ cast' \in [Node -> [Pushing -> Push]]
         /\ \A m \in Node, u \in Pushing :
              cast'[m][u] = IF m = n /\ u = t THEN r ELSE cast[m][u]
  BY DEF PushBecomes

-----------------------------------------------------------------------------
(* Requests and their handling.                                             *)

\* A request that claims leadership only after its sender led.
Claims(q) == q.kind # "vote" => <<q.from, q.term>> \in led

\* The requests of the vote and heartbeat rounds.
LEMMA AskFacts ==
  ASSUME RoundsOK, Honest, NEW n \in Node, NEW t \in Asking, NEW p \in Node,
         Calling(n, t, p)
  PROVE  /\ Ask(n, t, p) \in Request /\ Claims(Ask(n, t, p))
         /\ Ask(n, t, p).to = p
  <1>1. rpc[n][t].term \in Term /\ rpc[n][t].todo # {}
    BY DEF RoundsOK, Round, Calling
  <1>2. Ask(n, t, p) \in Request /\ Ask(n, t, p).to = p
    BY <1>1 DEF Ask, Request, Asking
  <1>3. Claims(Ask(n, t, p))
    BY <1>1 DEF Ask, Claims, Honest, Asking
  <1> QED BY <1>2, <1>3

\* The requests of the pushes.
LEMMA SendFacts ==
  ASSUME RoundsOK, Honest, NEW n \in Node, NEW t \in Pushing, NEW p \in Node,
         Sending(n, t, p)
  PROVE  /\ Send(n, t, p) \in Request /\ Claims(Send(n, t, p))
         /\ Send(n, t, p).to = p
  <1>1. /\ cast[n][t].term \in Term /\ cast[n][t].todo # {}
        /\ cast[n][t].snap \in Content
    BY DEF RoundsOK, Push, Sending
  <1>2. Send(n, t, p) \in Request /\ Send(n, t, p).to = p
    BY <1>1 DEF Send, Request
  <1>3. Claims(Send(n, t, p))
    BY <1>1 DEF Send, Claims, Honest
  <1> QED BY <1>2, <1>3

\* The fields of a request.
LEMMA RequestFields ==
  ASSUME NEW q \in Request
  PROVE  /\ q.from \in Node /\ q.to \in Node /\ q.term \in Term
         /\ q.kind \in {"vote", "beat", "sync"}
         /\ q.kind = "sync" => q.snap \in Content
  BY DEF Request

\* Handling a request keeps its receiver sound and its vote.
LEMMA HandleFacts ==
  ASSUME RaftOK, EnvOK, ContentOK, AllSound, NEW q \in Request, Claims(q),
         Handle(q), diskOk' = diskOk, led' = led
  PROVE  /\ RaftOK' /\ AllSound' /\ Kept
         /\ applying' \in [Node -> SUBSET Content]
  <1> DEFINE n == q.to
             s == State(n)
             d == IF q.kind = "vote" THEN AfterVote(s, q.from, q.term)
                  ELSE AfterAppend(s, q.from, q.term)
  <1>1. /\ n \in Node /\ q.from \in Node /\ q.term \in Term
        /\ q.kind = "sync" => q.snap \in Content
    BY RequestFields
  <1>2. s \in NodeState /\ Sound(n, s)
    BY <1>1, StateTyped DEF AllSound
  <1>3. /\ d \in NodeState /\ Sound(n, d) /\ d.writable = s.writable
        /\ Keeps(s, d)
    <2>1. CASE q.kind = "vote"
      BY <1>1, <1>2, <2>1, VoteFacts
    <2>2. CASE q.kind # "vote"
      BY <1>1, <1>2, <2>2, AppendFacts DEF Claims
    <2> QED BY <2>1, <2>2
  <1>4. Becomes(n, d)
    BY DEF Handle
  <1>5. s.writable = (StateFile /\ diskOk[n])
    BY <1>1, StateFields
  <1>6. applying' \in [Node -> SUBSET Content]
    BY <1>1 DEF Handle, ContentOK
  <1> HIDE DEF d
  <1>7. RaftOK' /\ AllSound'
    BY <1>1, <1>3, <1>4, <1>5, SoundAfter DEF Sound, Durable
  <1>8. Kept
    BY <1>1, <1>3, <1>4, KeptAfter
  <1> QED BY <1>6, <1>7, <1>8

\* What the caller is told is a reply.
LEMMA ResponseTyped ==
  ASSUME RaftOK, EnvOK, AllSound, NEW q \in Request
  PROVE  Response(q) \in Reply
  <1> DEFINE s == State(q.to)
  <1>1. q.to \in Node /\ q.from \in Node /\ q.term \in Term
    BY RequestFields
  <1>2. s \in NodeState /\ Sound(q.to, s)
    BY <1>1, StateTyped DEF AllSound
  <1>3. AfterVote(s, q.from, q.term) \in NodeState
    BY <1>1, <1>2, VoteFacts
  <1>4. s.term \in Term /\ AfterVote(s, q.from, q.term).term \in Term
    BY <1>2, <1>3 DEF NodeState
  <1>5. /\ GrantsVote(s, q.from, q.term) \in BOOLEAN
        /\ FollowsLeader(s, q.term) \in BOOLEAN
    BY DEF GrantsVote, FollowsLeader
  <1> HIDE DEF s
  <1>6. CASE q.kind = "vote"
    <2>1. Response(q) = [term |-> AfterVote(s, q.from, q.term).term,
                         ok |-> GrantsVote(s, q.from, q.term)]
      BY <1>6 DEF Response, s
    <2> QED BY <1>4, <1>5, <2>1 DEF Reply
  <1>7. CASE q.kind # "vote"
    <2>1. Response(q) =
            [term |-> IF FollowsLeader(s, q.term) THEN q.term ELSE s.term,
             ok |-> FollowsLeader(s, q.term)]
      BY <1>7 DEF Response, s
    <2> QED BY <1>1, <1>4, <1>5, <2>1 DEF Reply
  <1> QED BY <1>6, <1>7

\* A request whose sender gave up may stay, and still claims what is true.
LEMMA GivenUpFacts ==
  ASSUME RestOK, Honest, NEW q \in Request, Claims(q), GivenUp(q), led' = led
  PROVE  /\ late' \subseteq Request
         /\ \A r \in late' : r.kind # "vote" => <<r.from, r.term>> \in led'
  BY DEF RestOK, Honest, Claims, GivenUp

\* A new or smaller round claims what is true.
LEMMA HonestRound ==
  ASSUME RoundsOK, Honest, NEW n \in Node, NEW t \in Asking, NEW r \in Round,
         RoundBecomes(n, t, r), cast' = cast, led \subseteq led',
         \A x \in late' : x.kind # "vote" => <<x.from, x.term>> \in led',
         t = "beat" /\ r.todo # {} => <<n, r.term>> \in led'
  PROVE  RoundsOK' /\ Honest'
  <1>1. /\ rpc' \in [Node -> [Asking -> Round]]
        /\ \A m \in Node, u \in Asking :
             rpc'[m][u] = IF m = n /\ u = t THEN r ELSE rpc[m][u]
    BY RoundFacts DEF RoundsOK
  <1>2. ASSUME NEW m \in Node, rpc'[m]["beat"].todo # {}
        PROVE  <<m, rpc'[m]["beat"].term>> \in led'
    <2>1. "beat" \in Asking
      BY DEF Asking
    <2>2. CASE m = n /\ t = "beat"
      BY <1>1, <1>2, <2>1, <2>2
    <2>3. CASE ~(m = n /\ t = "beat")
      <3>1. rpc'[m]["beat"] = rpc[m]["beat"]
        BY <1>1, <2>1, <2>3
      <3> QED BY <1>2, <3>1 DEF Honest
    <2> QED BY <2>2, <2>3
  <1> QED BY <1>1, <1>2 DEF RoundsOK, Honest

\* So does a new or smaller push.
LEMMA HonestPush ==
  ASSUME RoundsOK, Honest, NEW n \in Node, NEW t \in Pushing, NEW r \in Push,
         PushBecomes(n, t, r), rpc' = rpc, led \subseteq led',
         \A x \in late' : x.kind # "vote" => <<x.from, x.term>> \in led',
         r.todo # {} => <<n, r.term>> \in led'
  PROVE  RoundsOK' /\ Honest'
  <1>1. /\ cast' \in [Node -> [Pushing -> Push]]
        /\ \A m \in Node, u \in Pushing :
             cast'[m][u] = IF m = n /\ u = t THEN r ELSE cast[m][u]
    BY PushFacts DEF RoundsOK
  <1>2. ASSUME NEW m \in Node, NEW u \in Pushing, cast'[m][u].todo # {}
        PROVE  <<m, cast'[m][u].term>> \in led'
    <2>1. CASE m = n /\ u = t
      BY <1>1, <1>2, <2>1
    <2>2. CASE ~(m = n /\ u = t)
      <3>1. cast'[m][u] = cast[m][u]
        BY <1>1, <2>2
      <3> QED BY <1>2, <3>1 DEF Honest
    <2> QED BY <2>1, <2>2
  <1> QED BY <1>1, <1>2 DEF RoundsOK, Honest

\* What touches neither rounds nor late requests leaves them honest.
LEMMA HonestIdle ==
  ASSUME RoundsOK, Honest, UNCHANGED <<rpc, cast>>, late' \subseteq late,
         led \subseteq led'
  PROVE  RoundsOK' /\ Honest'
  BY DEF RoundsOK, Honest

\* The end of a round, and of a push.
LEMMA NoRoundTyped ==
  NoRound \in Round /\ NoRound.todo = {} /\ NoPush \in Push /\ NoPush.todo = {}
  <1>1. 0 \in Term
    BY TermsAreNumbers
  <1> QED BY <1>1 DEF NoRound, Round, NoPush, Push

\* One call less to make.
LEMMA SendingFacts ==
  ASSUME RoundsOK, Honest, NEW n \in Node, NEW t \in Pushing, NEW p \in Node,
         Sending(n, t, p)
  PROVE  \E r \in Push :
           PushBecomes(n, t, r) /\ (r.todo # {} => <<n, r.term>> \in led)
  <1> DEFINE c == cast[n][t]
             r == [c EXCEPT !.todo = @ \ {p}]
  <1>1. c \in Push /\ c.todo # {}
    BY DEF RoundsOK, Sending
  <1>2. <<n, c.term>> \in led
    BY <1>1 DEF Honest
  <1>3. r \in Push /\ r.term = c.term
    BY <1>1 DEF Push
  <1>4. CASE c.todo = {p}
    <2>1. PushBecomes(n, t, NoPush)
      BY <1>4 DEF Sending
    <2> QED BY <2>1, NoRoundTyped
  <1>5. CASE c.todo # {p}
    <2>1. PushBecomes(n, t, r)
      BY <1>5 DEF Sending
    <2> QED BY <1>2, <1>3, <2>1
  <1> QED BY <1>4, <1>5

-----------------------------------------------------------------------------
(* The steps, by what they touch.                                           *)

\* Steps outside the lock and the rounds.
LEMMA OutsideSteps ==
  ASSUME IInv, NEW n \in Node,
         \/ ApplySnapshot(n) \/ WriteCheck(n) \/ WriteDone(n)
         \/ QuorumOverdue(n) \/ DiskBreaks(n) \/ LoseLate \/ NetSettles
         \/ UNCHANGED vars
  PROVE  IInv' /\ Kept
  <1>1. RaftOK /\ RoundsOK /\ ContentOK /\ EnvOK /\ RestOK /\ AllSound /\ Honest
    BY TypePieces DEF IInv
  <1>2. /\ UNCHANGED raft /\ led' = led /\ UNCHANGED <<rpc, cast>>
        /\ late' \subseteq late
    BY <1>1 DEF ApplySnapshot, WriteCheck, WriteDone, QuorumOverdue, DiskBreaks,
                LoseLate, NetSettles, vars, raft, content, env
  <1>3. \A m \in Node : diskOk'[m] => diskOk[m]
    BY <1>1 DEF ApplySnapshot, WriteCheck, WriteDone, QuorumOverdue, DiskBreaks,
                LoseLate, NetSettles, vars, raft, content, env, EnvOK
  <1>4. RaftOK' /\ AllSound' /\ Kept
    BY <1>1, <1>2, <1>3, Idle
  <1>5. RoundsOK' /\ Honest'
    BY <1>1, <1>2, HonestIdle
  <1>6. ContentOK'
    <2>1. CASE ApplySnapshot(n)
      BY <1>1, <2>1 DEF ApplySnapshot, ContentOK
    <2>2. CASE WriteCheck(n)
      <3>1. writes + 1 \in Content
        BY <1>1, <2>2, ParameterAssumption DEF WriteCheck, ContentOK, Content
      <3> QED BY <1>1, <2>2, <3>1 DEF WriteCheck, ContentOK
    <2>3. CASE WriteDone(n)
      BY <1>1, <2>3 DEF WriteDone, ContentOK
    <2>4. CASE UNCHANGED content
      BY <1>1, <2>4 DEF content, ContentOK
    <2> QED BY <2>1, <2>2, <2>3, <2>4 DEF QuorumOverdue, DiskBreaks, LoseLate,
              NetSettles, vars, content
  <1>7. EnvOK'
    <2>1. CASE NetSettles
      <3>1. Exposed \subseteq Node
        BY ParameterAssumption
      <3> QED BY <1>1, <2>1, <3>1 DEF NetSettles, EnvOK
    <2>2. CASE DiskBreaks(n)
      BY <1>1, <2>2 DEF DiskBreaks, EnvOK
    <2>3. CASE UNCHANGED env
      BY <1>1, <2>3 DEF env, EnvOK
    <2> QED BY <2>1, <2>2, <2>3 DEF ApplySnapshot, WriteCheck, WriteDone,
              QuorumOverdue, LoseLate, vars, env
  <1>8. RestOK'
    BY <1>1, <1>2 DEF ApplySnapshot, WriteCheck, WriteDone, QuorumOverdue,
       DiskBreaks, LoseLate, NetSettles, vars, RestOK
  <1> QED BY <1>4, <1>5, <1>6, <1>7, <1>8, TypePieces DEF IInv

\* What steps of rounds and pushes share: nothing of the registry, the network
\* and the processes changes, and late requests only by GivenUp.
LEMMA RestSteps ==
  ASSUME ContentOK, EnvOK, UNCHANGED content, UNCHANGED env
  PROVE  ContentOK' /\ EnvOK' /\ diskOk' = diskOk
  BY DEF ContentOK, EnvOK, content, env

\* Rounds that fail, lose or count an answer, begin, or end in vain.
LEMMA RoundSteps ==
  ASSUME IInv, NEW n \in Node, NEW t \in Asking,
         \/ Answer(n, t) \/ AnswerLost(n, t)
         \/ t = "vote" /\ ElectionFails(n)
         \/ t = "beat" /\ BeatBegin(n)
  PROVE  IInv' /\ Kept
  <1>1. RaftOK /\ RoundsOK /\ ContentOK /\ EnvOK /\ RestOK /\ AllSound /\ Honest
    BY TypePieces DEF IInv
  <1>2. /\ UNCHANGED raft /\ UNCHANGED content /\ UNCHANGED env
        /\ UNCHANGED <<overdue, cast, late, led>>
    BY DEF Answer, AnswerLost, ElectionFails, BeatBegin
  <1>3. RaftOK' /\ AllSound' /\ Kept /\ ContentOK' /\ EnvOK' /\ RestOK'
    BY <1>1, <1>2, Idle, RestSteps DEF RestOK
  <1>4. rpc[n][t] \in Round
    BY <1>1 DEF RoundsOK
  <1>5. PICK r \in Round :
          /\ RoundBecomes(n, t, r)
          /\ t = "beat" /\ r.todo # {} => <<n, r.term>> \in led
    <2>1. CASE Answer(n, t)
      <3> DEFINE r == [rpc[n][t] EXCEPT !.reply = None, !.yes = Count(rpc[n][t])]
      <3>1. Count(rpc[n][t]) \in Nat
        BY <1>4 DEF Count, Round
      <3>2. r \in Round /\ r.todo = rpc[n][t].todo /\ r.term = rpc[n][t].term
        BY <1>4, <3>1 DEF Round
      <3>3. RoundBecomes(n, t, r)
        BY <2>1 DEF Answer
      <3> QED BY <1>1, <3>2, <3>3 DEF Honest
    <2>2. CASE AnswerLost(n, t)
      <3> DEFINE r == [rpc[n][t] EXCEPT !.reply = None]
      <3>1. r \in Round /\ r.todo = rpc[n][t].todo /\ r.term = rpc[n][t].term
        BY <1>4 DEF Round
      <3>2. RoundBecomes(n, t, r)
        BY <2>2 DEF AnswerLost
      <3> QED BY <1>1, <3>1, <3>2 DEF Honest
    <2>3. CASE t = "vote" /\ ElectionFails(n)
      BY <2>3, NoRoundTyped DEF ElectionFails
    <2>4. CASE t = "beat" /\ BeatBegin(n)
      <3>1. term[n] \in Term
        BY <1>1 DEF RaftOK
      <3>2. NewRound(n, term[n]) \in Round /\ NewRound(n, term[n]).term = term[n]
        BY <3>1 DEF NewRound, NoRound, Round, Peers
      <3>3. <<n, term[n]>> \in led
        BY <1>1, <2>4 DEF AllSound, Sound, State, BeatBegin
      <3> QED BY <2>4, <3>2, <3>3 DEF BeatBegin
    <2> QED BY <2>1, <2>2, <2>3, <2>4
  <1>6. \A x \in late' : x.kind # "vote" => <<x.from, x.term>> \in led'
    BY <1>1, <1>2 DEF Honest
  <1>7. RoundsOK' /\ Honest'
    BY <1>1, <1>2, <1>5, <1>6, HonestRound
  <1> QED BY <1>3, <1>7, TypePieces DEF IInv

\* Calls that fail.
LEMMA CallFailsStep ==
  ASSUME IInv, NEW n \in Node, NEW t \in Asking, NEW p \in Node,
         CallFails(n, t, p)
  PROVE  IInv' /\ Kept
  <1> DEFINE r == [rpc[n][t] EXCEPT !.todo = @ \ {p}]
             q == Ask(n, t, p)
  <1>1. RaftOK /\ RoundsOK /\ ContentOK /\ EnvOK /\ RestOK /\ AllSound /\ Honest
    BY TypePieces DEF IInv
  <1>2. /\ UNCHANGED raft /\ UNCHANGED content /\ UNCHANGED env
        /\ UNCHANGED <<overdue, cast, led>>
        /\ Calling(n, t, p) /\ GivenUp(q) /\ RoundBecomes(n, t, r)
    BY DEF CallFails
  <1>3. RaftOK' /\ AllSound' /\ Kept /\ ContentOK' /\ EnvOK'
    BY <1>1, <1>2, Idle, RestSteps
  <1>4. q \in Request /\ Claims(q)
    BY <1>1, <1>2, AskFacts
  <1>5. /\ late' \subseteq Request
        /\ \A x \in late' : x.kind # "vote" => <<x.from, x.term>> \in led'
    BY <1>1, <1>2, <1>4, GivenUpFacts
  <1>6. RestOK'
    BY <1>1, <1>2, <1>5 DEF RestOK
  <1>7. /\ r \in Round /\ r.term = rpc[n][t].term /\ r.todo \subseteq rpc[n][t].todo
        /\ rpc[n][t].todo # {}
    BY <1>1, <1>2 DEF RoundsOK, Round, Calling
  <1>8. t = "beat" => <<n, r.term>> \in led
    BY <1>1, <1>7 DEF Honest
  <1> HIDE DEF r, q
  <1>9. RoundsOK' /\ Honest'
    BY <1>1, <1>2, <1>5, <1>7, <1>8, HonestRound
  <1> QED BY <1>3, <1>6, <1>9, TypePieces DEF IInv

\* Pushes that begin, take their snapshot or fail.
LEMMA PushSteps ==
  ASSUME IInv, NEW n \in Node, NEW t \in Pushing, NEW p \in Node,
         \/ t = "sync" /\ SyncBegin(n)
         \/ BuildSnapshot(n, t)
         \/ PushFails(n, t, p)
  PROVE  IInv' /\ Kept
  <1>1. RaftOK /\ RoundsOK /\ ContentOK /\ EnvOK /\ RestOK /\ AllSound /\ Honest
    BY TypePieces DEF IInv
  <1>2. /\ UNCHANGED raft /\ UNCHANGED content /\ UNCHANGED env
        /\ UNCHANGED <<overdue, rpc, led>>
    BY DEF SyncBegin, BuildSnapshot, PushFails
  <1>3. RaftOK' /\ AllSound' /\ Kept /\ ContentOK' /\ EnvOK'
    BY <1>1, <1>2, Idle, RestSteps
  <1>4. /\ late' \subseteq Request
        /\ \A x \in late' : x.kind # "vote" => <<x.from, x.term>> \in led'
    <2>1. CASE late' = late
      BY <1>1, <1>2, <2>1 DEF RestOK, Honest
    <2>2. CASE PushFails(n, t, p)
      <3>1. Sending(n, t, p) /\ GivenUp(Send(n, t, p))
        BY <2>2 DEF PushFails
      <3>2. Send(n, t, p) \in Request /\ Claims(Send(n, t, p))
        BY <1>1, <3>1, SendFacts
      <3> QED BY <1>1, <1>2, <3>1, <3>2, GivenUpFacts
    <2> QED BY <2>1, <2>2 DEF SyncBegin, BuildSnapshot
  <1>5. cast[n][t] \in Push
    BY <1>1 DEF RoundsOK
  <1>6. PICK r \in Push :
          PushBecomes(n, t, r) /\ (r.todo # {} => <<n, r.term>> \in led)
    <2>1. CASE t = "sync" /\ SyncBegin(n)
      <3>1. term[n] \in Term
        BY <1>1 DEF RaftOK
      <3>2. NewPush(n) \in Push /\ NewPush(n).term = term[n]
        BY <3>1 DEF NewPush, NoPush, Push, Peers
      <3>3. <<n, term[n]>> \in led
        BY <1>1, <2>1 DEF AllSound, Sound, State, SyncBegin
      <3> QED BY <2>1, <3>2, <3>3 DEF SyncBegin
    <2>2. CASE BuildSnapshot(n, t)
      <3> DEFINE r == [cast[n][t] EXCEPT !.snap = data[n]]
      <3>1. data[n] \in Content
        BY <1>1 DEF ContentOK
      <3>2. r \in Push /\ r.todo = cast[n][t].todo /\ r.term = cast[n][t].term
        BY <1>5, <3>1 DEF Push
      <3>3. PushBecomes(n, t, r)
        BY <2>2 DEF BuildSnapshot
      <3> QED BY <1>1, <3>2, <3>3 DEF Honest
    <2>3. CASE PushFails(n, t, p)
      <3>1. Sending(n, t, p)
        BY <2>3 DEF PushFails
      <3> QED BY <1>1, <3>1, SendingFacts
    <2> QED BY <2>1, <2>2, <2>3
  <1>7. RoundsOK' /\ Honest'
    BY <1>1, <1>2, <1>4, <1>6, HonestPush
  <1>8. RestOK'
    BY <1>1, <1>2, <1>4 DEF RestOK
  <1> QED BY <1>3, <1>7, <1>8, TypePieces DEF IInv

\* A request of a round is handled and answered.
LEMMA CallStep ==
  ASSUME IInv, NEW n \in Node, NEW t \in Asking, NEW p \in Node, Call(n, t, p)
  PROVE  IInv' /\ Kept
  <1> DEFINE q == Ask(n, t, p)
             r == [rpc[n][t] EXCEPT !.todo = @ \ {p}, !.reply = Response(q)]
  <1>1. RaftOK /\ RoundsOK /\ ContentOK /\ EnvOK /\ RestOK /\ AllSound /\ Honest
    BY TypePieces DEF IInv
  <1>2. /\ UNCHANGED env /\ UNCHANGED <<overdue, cast, late, led>>
        /\ UNCHANGED <<data, writing, writes>>
        /\ Calling(n, t, p) /\ Handle(q) /\ RoundBecomes(n, t, r)
    BY DEF Call
  <1>3. q \in Request /\ Claims(q)
    BY <1>1, <1>2, AskFacts
  <1>4. diskOk' = diskOk /\ EnvOK'
    BY <1>1, <1>2 DEF env, EnvOK
  <1>5. Response(q) \in Reply
    BY <1>1, <1>3, ResponseTyped
  <1>6. rpc[n][t] \in Round /\ rpc[n][t].todo # {}
    BY <1>1, <1>2 DEF RoundsOK, Calling
  <1> HIDE DEF q
  <1>7. r \in Round /\ r.term = rpc[n][t].term
    BY <1>5, <1>6 DEF Round
  <1>8. t = "beat" => <<n, r.term>> \in led
    BY <1>1, <1>6, <1>7 DEF Honest
  <1>9. \A x \in late' : x.kind # "vote" => <<x.from, x.term>> \in led'
    BY <1>1, <1>2 DEF Honest
  <1> HIDE DEF r
  <1>10. RaftOK' /\ AllSound' /\ Kept /\ applying' \in [Node -> SUBSET Content]
    BY <1>1, <1>2, <1>3, <1>4, HandleFacts
  <1>11. ContentOK' /\ RestOK'
    BY <1>1, <1>2, <1>10 DEF ContentOK, RestOK
  <1>12. RoundsOK' /\ Honest'
    BY <1>1, <1>2, <1>8, <1>9, <1>7, HonestRound
  <1> QED BY <1>4, <1>10, <1>11, <1>12, TypePieces DEF IInv

\* The same for a push, whose reply nobody reads.
LEMMA PushToStep ==
  ASSUME IInv, NEW n \in Node, NEW t \in Pushing, NEW p \in Node, PushTo(n, t, p)
  PROVE  IInv' /\ Kept
  <1> DEFINE q == Send(n, t, p)
  <1>1. RaftOK /\ RoundsOK /\ ContentOK /\ EnvOK /\ RestOK /\ AllSound /\ Honest
    BY TypePieces DEF IInv
  <1>2. /\ UNCHANGED env /\ UNCHANGED <<overdue, rpc, late, led>>
        /\ UNCHANGED <<data, writing, writes>>
        /\ Sending(n, t, p) /\ Handle(q)
    BY DEF PushTo
  <1>3. q \in Request /\ Claims(q)
    BY <1>1, <1>2, SendFacts
  <1>4. diskOk' = diskOk /\ EnvOK'
    BY <1>1, <1>2 DEF env, EnvOK
  <1>5. PICK r \in Push :
          PushBecomes(n, t, r) /\ (r.todo # {} => <<n, r.term>> \in led)
    BY <1>1, <1>2, SendingFacts
  <1>6. \A x \in late' : x.kind # "vote" => <<x.from, x.term>> \in led'
    BY <1>1, <1>2 DEF Honest
  <1> HIDE DEF q
  <1>7. RaftOK' /\ AllSound' /\ Kept /\ applying' \in [Node -> SUBSET Content]
    BY <1>1, <1>2, <1>3, <1>4, HandleFacts
  <1>8. ContentOK' /\ RestOK'
    BY <1>1, <1>2, <1>7 DEF ContentOK, RestOK
  <1>9. RoundsOK' /\ Honest'
    BY <1>1, <1>2, <1>5, <1>6, HonestPush
  <1> QED BY <1>4, <1>7, <1>8, <1>9, TypePieces DEF IInv

\* And for a request whose sender gave up.
LEMMA DeliverStep ==
  ASSUME IInv, DeliverLate
  PROVE  IInv' /\ Kept
  <1>1. RaftOK /\ RoundsOK /\ ContentOK /\ EnvOK /\ RestOK /\ AllSound /\ Honest
    BY TypePieces DEF IInv
  <1>2. PICK q \in late : Handle(q) /\ late' = late \ {q}
    BY DEF DeliverLate
  <1>3. /\ UNCHANGED env /\ UNCHANGED <<overdue, rpc, cast, led>>
        /\ UNCHANGED <<data, writing, writes>>
    BY DEF DeliverLate
  <1>4. q \in Request /\ Claims(q)
    BY <1>1, <1>2 DEF RestOK, Honest, Claims
  <1>5. diskOk' = diskOk /\ EnvOK'
    BY <1>1, <1>3 DEF env, EnvOK
  <1>6. RaftOK' /\ AllSound' /\ Kept /\ applying' \in [Node -> SUBSET Content]
    BY <1>1, <1>2, <1>3, <1>4, <1>5, HandleFacts
  <1>7. ContentOK' /\ RestOK'
    BY <1>1, <1>2, <1>3, <1>6 DEF ContentOK, RestOK
  <1>8. RoundsOK' /\ Honest'
    BY <1>1, <1>2, <1>3, HonestIdle
  <1> QED BY <1>5, <1>6, <1>7, <1>8, TypePieces DEF IInv

\* A node changes its own state, keeps its vote and says nothing untrue.
LEMMA OwnState ==
  ASSUME IInv, NEW n \in Node, NEW d \in NodeState, Becomes(n, d),
         UNCHANGED content, UNCHANGED env, led \subseteq led',
         d.leader # None => <<d.leader, d.term>> \in led',
         d.role = "leader" => <<n, d.term>> \in led',
         Durable(d), d.writable = State(n).writable, Keeps(State(n), d),
         RoundsOK', Honest', RestOK'
  PROVE  IInv' /\ Kept
  <1>1. RaftOK /\ ContentOK /\ EnvOK /\ AllSound
    BY TypePieces DEF IInv
  <1>2. ContentOK' /\ EnvOK' /\ diskOk' = diskOk
    BY <1>1, RestSteps
  <1>3. d.writable = (StateFile /\ diskOk[n])
    BY StateFields
  <1>4. RaftOK' /\ AllSound'
    BY <1>1, <1>2, <1>3, SoundAfter DEF Durable
  <1>5. Kept
    BY <1>1, KeptAfter
  <1> QED BY <1>2, <1>4, <1>5, TypePieces DEF IInv

\* The state of a node under the invariant.
LEMMA OwnFacts ==
  ASSUME IInv, NEW n \in Node
  PROVE  /\ State(n) \in NodeState /\ Sound(n, State(n))
         /\ State(n).term = term[n] /\ term[n] \in Term /\ term[n] \in Int
         /\ Keeps(State(n), State(n))
         /\ \A x \in late : x.kind # "vote" => <<x.from, x.term>> \in led
         /\ RoundsOK /\ Honest /\ RestOK
  <1>1. RaftOK /\ RoundsOK /\ EnvOK /\ RestOK /\ AllSound /\ Honest
    BY TypePieces DEF IInv
  <1>2. State(n) \in NodeState /\ Sound(n, State(n)) /\ State(n).term = term[n]
    BY <1>1, StateTyped, StateFields DEF AllSound
  <1>3. term[n] \in Term
    BY <1>1 DEF RaftOK
  <1>4. State(n).term \in Int
    BY <1>2, TermOfState
  <1>5. Keeps(State(n), State(n))
    BY <1>4 DEF Keeps
  <1> QED BY <1>1, <1>2, <1>3, <1>4, <1>5 DEF Honest

\* Operators freeze and unfreeze a node.
LEMMA FreezeSteps ==
  ASSUME IInv, NEW n \in Node, EnterReadonly(n) \/ ExitReadonly(n)
  PROVE  IInv' /\ Kept
  <1> DEFINE s == State(n)
             e == [s EXCEPT !.readonly = FALSE]
  <1>1. /\ UNCHANGED content /\ UNCHANGED env
        /\ UNCHANGED <<overdue, rpc, cast, late, led>>
    BY DEF EnterReadonly, ExitReadonly
  <1>2. RoundsOK' /\ Honest' /\ RestOK'
    BY <1>1, OwnFacts, HonestIdle DEF RestOK
  <1>3. s \in NodeState /\ Sound(n, s) /\ Keeps(s, s)
    BY OwnFacts
  <1>4. CASE EnterReadonly(n)
    <2>1. Becomes(n, AfterReadonly(s))
      BY <1>4 DEF EnterReadonly
    <2>2. /\ AfterReadonly(s) \in NodeState /\ Sound(n, AfterReadonly(s))
          /\ AfterReadonly(s).writable = s.writable /\ Keeps(s, AfterReadonly(s))
      BY <1>3, ReadonlyFacts
    <2> QED BY <1>1, <1>2, <2>1, <2>2, OwnState DEF Sound
  <1>5. CASE ExitReadonly(n)
    <2>1. Becomes(n, e)
      BY <1>5 DEF ExitReadonly
    <2>2. /\ e \in NodeState /\ e.term = s.term /\ e.voted = s.voted
          /\ e.leader = s.leader /\ e.role = s.role /\ e.disk = s.disk
          /\ e.writable = s.writable
      BY <1>3 DEF NodeState
    <2> HIDE DEF e
    <2>3. Sound(n, e) /\ Keeps(s, e)
      BY <1>3, <2>2 DEF Sound, Durable, Keeps
    <2> QED BY <1>1, <1>2, <2>1, <2>2, <2>3, OwnState DEF Sound
  <1> QED BY <1>4, <1>5

\* An election begins in a term the node has not voted in.
LEMMA StartStep ==
  ASSUME IInv, NEW n \in Node, StartElection(n)
  PROVE  IInv' /\ Kept
  <1> DEFINE s == State(n)
             b == [s EXCEPT !.term = @ + 1, !.voted = n]
             d == [Persisted(b) EXCEPT !.role = "candidate", !.leader = None]
             r == NewRound(n, term[n] + 1)
  <1>1. /\ UNCHANGED content /\ UNCHANGED env
        /\ UNCHANGED <<overdue, cast, late, led>>
        /\ Becomes(n, d) /\ RoundBecomes(n, "vote", r) /\ term[n] < MaxTerm
    BY DEF StartElection
  <1>2. /\ s \in NodeState /\ s.term = term[n] /\ term[n] \in Int
        /\ RoundsOK /\ Honest /\ RestOK
        /\ \A x \in late : x.kind # "vote" => <<x.from, x.term>> \in led
    BY OwnFacts
  <1>3. term[n] + 1 \in Term
    <2>1. term[n] \in Term
      BY OwnFacts
    <2> QED BY <1>1, <2>1, ParameterAssumption DEF Term
  <1>4. /\ b \in NodeState /\ b.term = term[n] + 1 /\ b.voted = n
        /\ b.writable = s.writable
    BY <1>2, <1>3 DEF NodeState
  <1>5. r \in Round
    BY <1>3 DEF NewRound, NoRound, Round, Peers
  <1> HIDE DEF b, r
  <1>6. /\ Persisted(b) \in NodeState /\ Durable(Persisted(b))
        /\ Persisted(b).term = term[n] + 1 /\ Persisted(b).voted = n
        /\ Persisted(b).writable = s.writable
    BY <1>4, PersistedFacts
  <1>7. /\ d \in NodeState /\ Durable(d) /\ d.writable = s.writable
        /\ d.term = term[n] + 1 /\ d.role = "candidate" /\ d.leader = None
    BY <1>6 DEF NodeState, Durable
  <1> HIDE DEF d
  <1>8. Keeps(s, d)
    BY <1>2, <1>7 DEF Keeps
  <1>9. "vote" \in Asking
    BY DEF Asking
  <1>10. RoundsOK' /\ Honest'
    BY <1>1, <1>2, <1>5, <1>9, HonestRound
  <1>11. RestOK'
    BY <1>1, <1>2 DEF RestOK
  <1> QED BY <1>1, <1>7, <1>8, <1>10, <1>11, OwnState

\* The winner leads in the term of its node, and its push says so.
LEMMA LeaderStep ==
  ASSUME IInv, NEW n \in Node, BecomeLeader(n)
  PROVE  IInv' /\ Kept
  <1> DEFINE s == State(n)
             d == [s EXCEPT !.role = "leader", !.leader = n]
  <1>1. /\ UNCHANGED content /\ UNCHANGED env /\ UNCHANGED <<overdue, late>>
        /\ Becomes(n, d) /\ RoundBecomes(n, "vote", NoRound)
        /\ PushBecomes(n, "push", NewPush(n))
        /\ led' = led \cup {<<n, term[n]>>}
    BY DEF BecomeLeader
  <1>2. /\ s \in NodeState /\ s.term = term[n] /\ term[n] \in Term
        /\ Sound(n, s) /\ Keeps(s, s) /\ RoundsOK /\ Honest /\ RestOK
    BY OwnFacts
  <1>3. /\ d \in NodeState /\ d.term = term[n] /\ d.voted = s.voted
        /\ d.disk = s.disk /\ d.writable = s.writable /\ d.leader = n
    BY <1>2 DEF NodeState
  <1> HIDE DEF d
  <1>4. Durable(d) /\ Keeps(s, d)
    BY <1>2, <1>3 DEF Durable, Sound, Keeps
  <1>5. /\ "vote" \in Asking /\ "beat" \in Asking /\ "push" \in Pushing
        /\ NewPush(n) \in Push /\ NewPush(n).term = term[n]
    BY <1>2 DEF Asking, Pushing, NewPush, NoPush, Push, Peers
  <1>6. /\ rpc' \in [Node -> [Asking -> Round]]
        /\ \A m \in Node : rpc'[m]["beat"] = rpc[m]["beat"]
    BY <1>1, <1>2, <1>5, NoRoundTyped, RoundFacts DEF RoundsOK
  <1>7. /\ cast' \in [Node -> [Pushing -> Push]]
        /\ \A m \in Node, u \in Pushing :
             cast'[m][u] = IF m = n /\ u = "push" THEN NewPush(n) ELSE cast[m][u]
    BY <1>1, <1>2, <1>5, PushFacts DEF RoundsOK
  <1>8. ASSUME NEW m \in Node, NEW u \in Pushing, cast'[m][u].todo # {}
        PROVE  <<m, cast'[m][u].term>> \in led'
    <2>1. CASE m = n /\ u = "push"
      BY <1>1, <1>5, <1>7, <2>1
    <2>2. CASE ~(m = n /\ u = "push")
      <3>1. cast'[m][u] = cast[m][u]
        BY <1>7, <2>2
      <3> QED BY <1>1, <1>2, <1>8, <3>1 DEF Honest
    <2> QED BY <2>1, <2>2
  <1>9. RoundsOK' /\ Honest'
    BY <1>1, <1>2, <1>6, <1>7, <1>8 DEF RoundsOK, Honest
  <1>10. RestOK'
    BY <1>1, <1>2 DEF RestOK
  <1> QED BY <1>1, <1>3, <1>4, <1>9, <1>10, OwnState

\* A heartbeat round ends with a quorum, without one, or after a step-down.
LEMMA BeatEndStep ==
  ASSUME IInv, NEW n \in Node, BeatEnd(n)
  PROVE  IInv' /\ Kept
  <1> DEFINE s == State(n)
             e == [s EXCEPT !.readonly = FALSE]
  <1>1. /\ UNCHANGED content /\ UNCHANGED env /\ UNCHANGED <<cast, late, led>>
        /\ RoundBecomes(n, "beat", NoRound)
    BY DEF BeatEnd
  <1>2. /\ s \in NodeState /\ Sound(n, s) /\ Keeps(s, s)
        /\ RoundsOK /\ Honest /\ RestOK
        /\ \A x \in late : x.kind # "vote" => <<x.from, x.term>> \in led
    BY OwnFacts
  <1>3. "beat" \in Asking
    BY DEF Asking
  <1>4. RoundsOK' /\ Honest'
    BY <1>1, <1>2, <1>3, NoRoundTyped, HonestRound
  <1>5. RestOK'
    BY <1>1, <1>2 DEF RestOK, BeatEnd
  <1>6. /\ e \in NodeState /\ e.term = s.term /\ e.voted = s.voted
        /\ e.leader = s.leader /\ e.role = s.role /\ e.disk = s.disk
        /\ e.writable = s.writable
    BY <1>2 DEF NodeState
  <1>7. Sound(n, e) /\ Keeps(s, e)
    BY <1>2, <1>6 DEF Sound, Durable, Keeps
  <1>8. /\ AfterReadonly(s) \in NodeState /\ Sound(n, AfterReadonly(s))
        /\ AfterReadonly(s).writable = s.writable /\ Keeps(s, AfterReadonly(s))
    BY <1>2, ReadonlyFacts
  <1>9. UNCHANGED raft \/ Becomes(n, s) \/ Becomes(n, e)
          \/ Becomes(n, AfterReadonly(s))
    BY DEF BeatEnd, AfterNoQuorum
  <1> HIDE DEF s, e
  <1>10. CASE UNCHANGED raft
    <2>1. RaftOK /\ AllSound /\ ContentOK /\ EnvOK
      BY TypePieces DEF IInv
    <2>2. ContentOK' /\ EnvOK' /\ diskOk' = diskOk
      BY <1>1, <2>1, RestSteps
    <2>3. RaftOK' /\ AllSound' /\ Kept
      BY <1>1, <1>10, <2>1, <2>2, Idle
    <2> QED BY <1>4, <1>5, <2>2, <2>3, TypePieces DEF IInv
  <1>11. ASSUME NEW d \in NodeState, Becomes(n, d), Sound(n, d), Keeps(s, d),
                d.writable = s.writable
         PROVE  IInv' /\ Kept
    BY <1>1, <1>4, <1>5, <1>11, OwnState DEF Sound, s
  <1> QED BY <1>2, <1>6, <1>7, <1>8, <1>9, <1>10, <1>11

\* What VoteKept says of one step.
Excused == \A m \in Node : StateFile /\ diskOk[m] /\ ~Misled(m) => KeepsBallot(m)

\* A reply that outranks its round moves the node to the term it carries: to
\* a newer one than the node's, unless the reply is late and misleads it.
LEMMA AnswerHigherStep ==
  ASSUME IInv, NEW n \in Node, NEW t \in Asking, AnswerHigher(n, t)
  PROVE  IInv' /\ Excused
  <1> DEFINE s == State(n)
             u == rpc[n][t].reply.term
             d == SteppedDown(s, u)
  <1>1. RaftOK /\ RoundsOK /\ ContentOK /\ EnvOK /\ RestOK /\ AllSound /\ Honest
    BY TypePieces DEF IInv
  <1>2. /\ UNCHANGED content /\ UNCHANGED env
        /\ UNCHANGED <<overdue, cast, late, led>>
        /\ Outranked(rpc[n][t]) /\ RoundBecomes(n, t, NoRound) /\ Becomes(n, d)
    BY DEF AnswerHigher
  <1>3. u \in Term
    BY <1>1, <1>2 DEF RoundsOK, Round, Reply, Outranked
  <1>4. /\ s \in NodeState /\ s.writable = (StateFile /\ diskOk[n])
        /\ term[n] \in Int
        /\ \A x \in late : x.kind # "vote" => <<x.from, x.term>> \in led
    BY OwnFacts, StateFields
  <1>5. /\ d \in NodeState /\ Durable(d) /\ d.writable = s.writable /\ d.term = u
        /\ d.voted = None /\ d.role = "follower" /\ d.leader = None
    BY <1>3, <1>4, SteppedDownFacts
  <1>6. u \in Int
    BY <1>3 DEF Term
  <1>7. /\ rpc' \in [Node -> [Asking -> Round]] /\ rpc'[n][t] = NoRound
    BY <1>1, <1>2, NoRoundTyped, RoundFacts DEF RoundsOK
  <1>8. ~rpc'[n][t].on
    BY <1>7 DEF NoRound
  <1>9. u <= term[n] => Misled(n)
    BY <1>2, <1>8 DEF Misled
  <1>10. ContentOK' /\ EnvOK' /\ diskOk' = diskOk /\ RestOK'
    BY <1>1, <1>2, RestSteps DEF RestOK
  <1>11. RoundsOK' /\ Honest'
    BY <1>1, <1>2, <1>4, NoRoundTyped, HonestRound
  <1> HIDE DEF d, u, s
  <1>12. RaftOK' /\ AllSound'
    BY <1>1, <1>2, <1>4, <1>5, <1>10, SoundAfter DEF Durable
  <1>13. ASSUME NEW m \in Node, ~Misled(m)
         PROVE  KeepsBallot(m)
    <2>1. CASE m = n
      <3>1. term'[n] = u
        BY <1>1, <1>2, <1>5, BecomesFacts
      <3>2. u > term[n]
        BY <1>4, <1>6, <1>9, <1>13, <2>1
      <3> QED BY <1>4, <1>6, <2>1, <3>1, <3>2 DEF KeepsBallot
    <2>2. CASE m # n
      <3>1. term'[m] = term[m] /\ voted'[m] = voted[m]
        BY <1>1, <1>2, <1>5, <2>2, BecomesFacts
      <3>2. term[m] \in Int
        BY OwnFacts
      <3> QED BY <3>1, <3>2 DEF KeepsBallot
    <2> QED BY <2>1, <2>2
  <1> QED BY <1>10, <1>11, <1>12, <1>13, TypePieces DEF IInv, Excused

\* A process dies: its memory of rounds, pushes and handlers is gone.
LEMMA CrashStep ==
  ASSUME IInv, NEW n \in Node, Crash(n)
  PROVE  IInv' /\ Kept
  <1>1. RaftOK /\ RoundsOK /\ ContentOK /\ EnvOK /\ RestOK /\ AllSound /\ Honest
    BY TypePieces DEF IInv
  <1>2. /\ UNCHANGED raft /\ led' = led /\ diskOk' = diskOk
        /\ UNCHANGED <<overdue, data, writes, late, cut, lossy>>
        /\ crashes < MaxCrashes /\ crashes' = crashes + 1
        /\ up' = [up EXCEPT ![n] = FALSE]
        /\ writing' = [writing EXCEPT ![n] = FALSE]
        /\ applying' = [applying EXCEPT ![n] = {}]
    BY DEF Crash
  <1>3. RaftOK' /\ AllSound' /\ Kept
    BY <1>1, <1>2, Idle
  <1>4. ContentOK' /\ RestOK'
    BY <1>1, <1>2 DEF ContentOK, RestOK
  <1>5. crashes' \in 0 .. MaxCrashes
    BY <1>1, <1>2, ParameterAssumption DEF EnvOK
  <1>6. EnvOK'
    BY <1>1, <1>2, <1>5 DEF EnvOK
  <1>7. /\ rpc' = [rpc EXCEPT ![n] = [t \in Asking |-> NoRound]]
        /\ cast' = [cast EXCEPT ![n] = [t \in Pushing |-> NoPush]]
    BY DEF Crash
  <1>8. RoundsOK'
    BY <1>1, <1>7, NoRoundTyped DEF RoundsOK
  <1>9. ASSUME NEW m \in Node, rpc'[m]["beat"].todo # {}
        PROVE  <<m, rpc'[m]["beat"].term>> \in led'
    <2>1. "beat" \in Asking
      BY DEF Asking
    <2>2. m # n
      BY <1>1, <1>7, <1>9, <2>1, NoRoundTyped DEF RoundsOK
    <2>3. rpc'[m] = rpc[m]
      BY <1>1, <1>7, <2>2 DEF RoundsOK
    <2> QED BY <1>1, <1>2, <1>9, <2>3 DEF Honest
  <1>10. ASSUME NEW m \in Node, NEW t \in Pushing, cast'[m][t].todo # {}
         PROVE  <<m, cast'[m][t].term>> \in led'
    <2>1. m # n
      BY <1>1, <1>7, <1>10, NoRoundTyped DEF RoundsOK
    <2>2. cast'[m] = cast[m]
      BY <1>1, <1>7, <2>1 DEF RoundsOK
    <2> QED BY <1>1, <1>2, <1>10, <2>2 DEF Honest
  <1>11. Honest'
    BY <1>1, <1>2, <1>9, <1>10 DEF Honest
  <1> QED BY <1>3, <1>4, <1>6, <1>8, <1>11, TypePieces DEF IInv

\* A process starts with the ballot of its file, which is that of its memory
\* unless the file could not be written.
LEMMA RestartStep ==
  ASSUME IInv, NEW n \in Node, Restart(n)
  PROVE  IInv' /\ Kept
  <1> DEFINE s == State(n)
             d == [s EXCEPT !.term = disk[n].term, !.voted = disk[n].voted,
                            !.role = "follower", !.leader = None,
                            !.readonly = FALSE]
  <1>1. RaftOK /\ RoundsOK /\ ContentOK /\ EnvOK /\ RestOK /\ AllSound /\ Honest
    BY TypePieces DEF IInv
  <1>2. /\ Becomes(n, d) /\ diskOk' = diskOk /\ led' = led /\ late' = late
        /\ UNCHANGED <<rpc, cast>>
    BY DEF Restart
  <1>3. /\ s \in NodeState /\ Sound(n, s) /\ Keeps(s, s)
    BY OwnFacts
  <1>4. disk[n] \in Ballot /\ s.disk = disk[n] /\ s.writable = (StateFile /\ diskOk[n])
    BY <1>1, StateFields DEF RaftOK
  <1>5. /\ d \in NodeState /\ d.term = disk[n].term /\ d.voted = disk[n].voted
        /\ d.role = "follower" /\ d.leader = None /\ d.disk = disk[n]
        /\ d.writable = s.writable
    BY <1>3, <1>4 DEF NodeState, Ballot
  <1>6. s.writable => d.term = s.term /\ d.voted = s.voted
    BY <1>3, <1>4, <1>5 DEF Sound, Durable
  <1>7. d.disk = [term |-> d.term, voted |-> d.voted]
    BY <1>4, <1>5 DEF Ballot
  <1>8. s.writable => Keeps(s, d)
    BY <1>3, <1>6 DEF Keeps
  <1> HIDE DEF d, s
  <1>9. RaftOK' /\ AllSound'
    BY <1>1, <1>2, <1>4, <1>5, <1>7, SoundAfter
  <1>10. Kept
    BY <1>1, <1>2, <1>4, <1>5, <1>8, KeptAfter DEF s
  <1>11. ContentOK' /\ EnvOK' /\ RestOK'
    <2>1. 0 \in Content
      BY ParameterAssumption DEF Content
    <2> QED BY <1>1, <2>1 DEF Restart, ContentOK, EnvOK, RestOK
  <1>12. RoundsOK' /\ Honest'
    BY <1>1, <1>2, HonestIdle
  <1> QED BY <1>9, <1>10, <1>11, <1>12, TypePieces DEF IInv

-----------------------------------------------------------------------------
(* Together.                                                                *)

\* The masters start as followers that know nothing.
LEMMA InitHolds == Init => IInv
  <1> SUFFICES ASSUME Init PROVE IInv
    OBVIOUS
  <1>1. 0 \in Term /\ 0 \in Content /\ 0 \in 0 .. MaxCrashes
    BY ParameterAssumption DEF Term, Content
  <1>2. Blank \in Ballot
    BY <1>1 DEF Blank, Ballot
  <1>3. RaftOK
    BY <1>1, <1>2 DEF Init, RaftOK
  <1>4. RoundsOK
    BY NoRoundTyped DEF Init, RoundsOK
  <1>5. ContentOK
    BY <1>1 DEF Init, ContentOK
  <1>6. EnvOK /\ RestOK
    BY <1>1 DEF Init, EnvOK, RestOK
  <1>7. AllSound
    <2> SUFFICES ASSUME NEW n \in Node PROVE Sound(n, State(n))
      BY DEF AllSound
    <2>1. /\ State(n).leader = None /\ State(n).role = "follower"
          /\ State(n).disk = Blank /\ State(n).term = 0 /\ State(n).voted = None
      BY DEF Init, State
    <2> QED BY <2>1 DEF Sound, Durable, Blank
  <1>8. Honest
    <2>1. \A n \in Node : rpc[n]["beat"].todo = {}
      BY NoRoundTyped DEF Init, Asking
    <2>2. \A n \in Node, t \in Pushing : cast[n][t].todo = {}
      BY NoRoundTyped DEF Init
    <2> QED BY <2>1, <2>2 DEF Init, Honest
  <1> QED BY <1>3, <1>4, <1>5, <1>6, <1>7, <1>8, TypePieces DEF IInv

\* The steps of the rounds and of the pushes of one thread.
LEMMA ThreadSteps ==
  ASSUME IInv, NEW n \in Node,
         \/ \E t \in Asking : RoundStep(n, t)
         \/ \E t \in Pushing : CastStep(n, t)
  PROVE  IInv' /\ Excused
  <1>1. Kept => Excused
    BY DEF Kept, Excused
  <1>2. ASSUME NEW t \in Asking, RoundStep(n, t)
        PROVE  IInv' /\ Excused
    <2>1. ASSUME NEW p \in Node, Call(n, t, p)
          PROVE  IInv' /\ Excused
      BY <1>1, <2>1, CallStep
    <2>2. ASSUME NEW p \in Node, CallFails(n, t, p)
          PROVE  IInv' /\ Excused
      BY <1>1, <2>2, CallFailsStep
    <2>3. CASE AnswerHigher(n, t)
      BY <2>3, AnswerHigherStep
    <2>4. CASE Answer(n, t) \/ AnswerLost(n, t)
      BY <1>1, <2>4, RoundSteps
    <2> QED BY <1>2, <2>1, <2>2, <2>3, <2>4 DEF RoundStep
  <1>3. ASSUME NEW t \in Pushing, CastStep(n, t)
        PROVE  IInv' /\ Excused
    <2>1. ASSUME NEW p \in Node, PushTo(n, t, p)
          PROVE  IInv' /\ Excused
      BY <1>1, <2>1, PushToStep
    <2>2. ASSUME NEW p \in Node, PushFails(n, t, p)
          PROVE  IInv' /\ Excused
      BY <1>1, <2>2, PushSteps
    <2>3. CASE BuildSnapshot(n, t)
      BY <1>1, <2>3, PushSteps
    <2> QED BY <1>3, <2>1, <2>2, <2>3 DEF CastStep
  <1> QED BY <1>2, <1>3

\* Every step keeps the invariant, and the votes.
LEMMA NextHolds ==
  ASSUME IInv, [Next]_vars
  PROVE  IInv' /\ Excused
  <1>1. Kept => Excused
    BY DEF Kept, Excused
  <1>2. /\ "vote" \in Asking /\ "beat" \in Asking
        /\ "push" \in Pushing /\ "sync" \in Pushing
    BY DEF Asking, Pushing
  <1>3. PICK any \in Node : TRUE
    BY NodeAssumption, FS_EmptySet, FS_CardinalityType
  <1>4. ASSUME NEW n \in Node, NodeStep(n)
        PROVE  IInv' /\ Excused
    <2>1. CASE StartElection(n)
      BY <1>1, <2>1, StartStep
    <2>2. CASE ElectionThread(n)
      <3>1. CASE RoundStep(n, "vote") \/ CastStep(n, "push")
        BY <1>2, <3>1, ThreadSteps
      <3>2. CASE BecomeLeader(n)
        BY <1>1, <3>2, LeaderStep
      <3>3. CASE ElectionFails(n)
        BY <1>1, <1>2, <3>3, RoundSteps
      <3> QED BY <2>2, <3>1, <3>2, <3>3 DEF ElectionThread
    <2>3. CASE HeartbeatThread(n)
      <3>1. CASE RoundStep(n, "beat")
        BY <1>2, <3>1, ThreadSteps
      <3>2. CASE BeatBegin(n)
        BY <1>1, <1>2, <3>2, RoundSteps
      <3>3. CASE BeatEnd(n)
        BY <1>1, <3>3, BeatEndStep
      <3> QED BY <2>3, <3>1, <3>2, <3>3 DEF HeartbeatThread
    <2>4. CASE SyncThread(n)
      <3>1. CASE CastStep(n, "sync")
        BY <1>2, <3>1, ThreadSteps
      <3>2. CASE SyncBegin(n)
        BY <1>1, <1>2, <3>2, PushSteps
      <3> QED BY <2>4, <3>1, <3>2 DEF SyncThread
    <2>5. CASE ApplySnapshot(n) \/ WriteCheck(n) \/ WriteDone(n)
                 \/ QuorumOverdue(n) \/ DiskBreaks(n)
      BY <1>1, <2>5, OutsideSteps
    <2>6. CASE EnterReadonly(n) \/ ExitReadonly(n)
      BY <1>1, <2>6, FreezeSteps
    <2>7. CASE Crash(n)
      BY <1>1, <2>7, CrashStep
    <2>8. CASE Restart(n)
      BY <1>1, <2>8, RestartStep
    <2> QED BY <1>4, <2>1, <2>2, <2>3, <2>4, <2>5, <2>6, <2>7, <2>8 DEF NodeStep
  <1>5. CASE DeliverLate
    BY <1>1, <1>5, DeliverStep
  <1>6. CASE LoseLate \/ NetSettles \/ UNCHANGED vars
    BY <1>1, <1>3, <1>6, OutsideSteps
  <1> QED BY <1>4, <1>5, <1>6 DEF Next

\* The invariant holds in every state of every behaviour of the masters.
THEOREM InvariantHolds == Spec => []IInv
  <1>1. Init => IInv
    BY InitHolds
  <1>2. IInv /\ [Next]_vars => IInv'
    BY NextHolds
  <1> QED BY <1>1, <1>2, PTL DEF Spec

\* Terms, ballots, rounds, pushes and requests keep their types (the fields of
\* ClusterHA under its lock, and what its three threads hold outside it).
THEOREM TypeCorrect == Spec => []TypeOK
  <1>1. IInv => TypeOK
    BY DEF IInv
  <1> QED BY <1>1, InvariantHolds, PTL

\* _check_leader redirects only to a node that really won an election in the
\* term of the redirecting node, for any number of masters.
THEOREM RedirectsAreHonest == Spec => []RedirectsToLeader
  <1>1. IInv => RedirectsToLeader
    <2> SUFFICES ASSUME IInv, NEW n \in Node, leader[n] # None
                 PROVE  <<leader[n], term[n]>> \in led
      BY DEF RedirectsToLeader
    <2>1. Sound(n, State(n))
      BY DEF IInv, AllSound
    <2> QED BY <2>1, StateFields DEF Sound
  <1> QED BY <1>1, InvariantHolds, PTL

\* No step takes back a vote or a term while state_file can be written, but
\* for the replies that overtake a handler (_step_down takes any term).
THEOREM VotesKept == Spec => VoteKept
  <1>1. IInv /\ [Next]_vars =>
          [\A n \in Node : StateFile /\ diskOk[n] /\ ~Misled(n) => KeepsBallot(n)]_vars
    BY NextHolds DEF Excused
  <1> QED BY <1>1, InvariantHolds, PTL DEF Spec, VoteKept
=============================================================================
