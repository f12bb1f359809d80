------------------------------ MODULE ClusterHA ------------------------------
(***************************************************************************)
(* The high-availability layer of the masters (cluster_ha.py): elections,  *)
(* heartbeats, read-only mode and replication of the registry by snapshot. *)
(*                                                                         *)
(* Every master runs three threads beside its HTTP handlers.  The election *)
(* thread asks its peers for votes one after the other, the heartbeat      *)
(* thread of a leader asks them whether they still follow, the sync thread *)
(* pushes the registry.  None of them holds the lock during a call, so a   *)
(* round ("vote" or "beat" in `rpc`, "push" or "sync" in `cast`) works     *)
(* with the term it read when it began, whatever the handlers have done to *)
(* the node since.  Replies to pushes are ignored by the code.             *)
(*                                                                         *)
(* A call fails when the peer is down or cut off, or, until the network    *)
(* settles, at random; such a request may still be handled later.          *)
(* Time is free: an election time-out may expire whenever the node is not  *)
(* a leader, the quorum time-out of a leader at any time after its last    *)
(* quorum.  What the registry holds is the number of the last write.       *)
(***************************************************************************)
EXTENDS Integers, FiniteSets

CONSTANTS
  Node,         \* the masters; the peers of one are all the others
  None,
  AutoHeal,     \* auto_heal_enabled
  StateFile,    \* whether state_file is configured
  MaxTerm,      \* bound on the elections that are started
  MaxWrites,    \* bound on the writes of agents
  MaxLate,      \* bound on the requests under way whose sender gave up
  MaxCrashes,   \* bound on the crashes
  Exposed,      \* the nodes the network may settle to separate
  Fragile,      \* the nodes whose state_file may become unwritable
  Handled,      \* the nodes that operators freeze and unfreeze by hand
  Beating,      \* the nodes whose heartbeat_interval_sec is short enough to matter
  Lagging,      \* the nodes whose late requests may still be handled
  Syncing       \* the nodes whose sync_interval_sec is

ASSUME NodeAssumption ==
  IsFiniteSet(Node) /\ Cardinality(Node) > 1 /\ None \notin Node
ASSUME ParameterAssumption ==
  /\ {AutoHeal, StateFile} \subseteq BOOLEAN
  /\ {Exposed, Fragile, Handled, Beating, Syncing, Lagging} \subseteq SUBSET Node
  /\ {MaxTerm, MaxWrites, MaxLate, MaxCrashes} \subseteq Nat

VARIABLES
  up,        \* the process runs
  term,      \* _term
  role,      \* _role
  voted,     \* _voted_for
  leader,    \* _leader_id (and _leader_url)
  readonly,  \* _readonly, with _split_brain_detected, which follows it
  overdue,   \* _quorum_timeout_sec have passed since _last_quorum_time
  disk,      \* state_file: a term and a vote
  diskOk,    \* writing state_file works
  rpc,       \* the vote and the heartbeat round of each node
  cast,      \* the push after an election and the sync round of each node
  applying,  \* snapshots accepted under the lock and not yet applied
  data,      \* the registry of each master: its last write
  writing,   \* an HTTP handler has passed _check_leader and not yet written
  writes, crashes,
  late,      \* requests under way whose sender has given up
  lossy,     \* the network has not settled: any call may fail
  cut,       \* the nodes it has settled to separate from all others
  led        \* history: who became leader in which term

raft == <<term, role, voted, leader, readonly, disk>>
content == <<applying, data, writing, writes>>
env == <<up, diskOk, crashes, cut, lossy>>
vars == <<up, term, role, voted, leader, readonly, overdue, disk, diskOk, rpc,
          cast, applying, data, writing, writes, crashes, late, cut, lossy, led>>

Peers(n) == Node \ {n}
Needed == Cardinality(Node) \div 2 + 1

IsLeader(n) == up[n] /\ role[n] = "leader" /\ ~readonly[n]

\* The rounds that read replies, and those that do not.
Asking == {"vote", "beat"}
Pushing == {"push", "sync"}

Term == 0 .. MaxTerm
Ballot == [term : Term, voted : Node \cup {None}]

\* A round of _start_election or _heartbeat_loop: the term it works with, the
\* peers it has still to call, the count so far and the reply it is reading.
Reply == [term : Term, ok : BOOLEAN]
Round == [on : BOOLEAN, term : Term, todo : SUBSET Node, yes : Nat,
          reply : Reply \cup {None}]
NoRound == [on |-> FALSE, term |-> 0, todo |-> {}, yes |-> 0, reply |-> None]

\* A push of the registry, of which the snapshot is built after the term has
\* been read.
Content == 0 .. MaxWrites
Push == [on : BOOLEAN, term : Term, todo : SUBSET Node,
         snap : Content \cup {None}]
NoPush == [on |-> FALSE, term |-> 0, todo |-> {}, snap |-> None]

Request ==
  [kind : {"vote", "beat"}, from : Node, to : Node, term : Term, snap : {None}]
    \cup [kind : {"sync"}, from : Node, to : Node, term : Term, snap : Content]

Blank == [term |-> 0, voted |-> None]

Init ==
  /\ up = [n \in Node |-> TRUE]
  /\ term = [n \in Node |-> 0]
  /\ role = [n \in Node |-> "follower"]
  /\ voted = [n \in Node |-> None]
  /\ leader = [n \in Node |-> None]
  /\ readonly = [n \in Node |-> FALSE]
  /\ overdue = [n \in Node |-> FALSE]
  /\ disk = [n \in Node |-> Blank]
  /\ diskOk = [n \in Node |-> TRUE]
  /\ rpc = [n \in Node |-> [t \in Asking |-> NoRound]]
  /\ cast = [n \in Node |-> [t \in Pushing |-> NoPush]]
  /\ applying = [n \in Node |-> {}]
  /\ data = [n \in Node |-> 0]
  /\ writing = [n \in Node |-> FALSE]
  /\ writes = 0 /\ crashes = 0
  /\ late = {} /\ cut = {} /\ lossy = TRUE /\ led = {}

-----------------------------------------------------------------------------
(* What the lock protects: the state of a node and what the handlers make   *)
(* of it.  A failing write of state_file is logged and otherwise ignored.   *)

State(n) ==
  [term |-> term[n], voted |-> voted[n], role |-> role[n], leader |-> leader[n],
   readonly |-> readonly[n], disk |-> disk[n],
   writable |-> StateFile /\ diskOk[n]]

\* (The bound variable makes TLC compute the new state once.)
Becomes(n, new) == \E s \in {new} :
  /\ term' = [term EXCEPT ![n] = s.term]
  /\ voted' = [voted EXCEPT ![n] = s.voted]
  /\ role' = [role EXCEPT ![n] = s.role]
  /\ leader' = [leader EXCEPT ![n] = s.leader]
  /\ readonly' = [readonly EXCEPT ![n] = s.readonly]
  /\ disk' = [disk EXCEPT ![n] = s.disk]

Persisted(s) ==
  IF s.writable THEN [s EXCEPT !.disk = [term |-> s.term, voted |-> s.voted]]
  ELSE s

\* Mutants: the old leader stays known; the term is counted once more.
SteppedDown_KeepsLeader(s, new_term) ==
  [Persisted([s EXCEPT !.term = new_term, !.voted = None])
     EXCEPT !.role = "follower"]
SteppedDown_TooFar(s, new_term) ==
  [Persisted([s EXCEPT !.term = new_term + 1, !.voted = None])
     EXCEPT !.role = "follower", !.leader = None]

\* Nothing here asks whether new_term is higher than the node's own term.
SteppedDown(s, new_term) ==
  [Persisted([s EXCEPT !.term = new_term, !.voted = None])
     EXCEPT !.role = "follower", !.leader = None]

Caught(s, t) == IF t > s.term THEN SteppedDown(s, t) ELSE s

GrantsVote(s, candidate, t) ==
  t >= s.term /\ Caught(s, t).voted \in {None, candidate}

AfterVote(s, candidate, t) ==
  IF GrantsVote(s, candidate, t)
  THEN Persisted([Caught(s, t) EXCEPT !.voted = candidate])
  ELSE Caught(s, t)

\* Mutant: only leaders of a newer term are followed.
FollowsLeader_NewerOnly(s, t) == t > s.term

FollowsLeader(s, t) == t >= s.term

\* Mutant: a node that hears a leader stays read-only.
AfterAppend_NoHeal(s, from, t) ==
  IF FollowsLeader(s, t)
  THEN [Caught(s, t) EXCEPT !.leader = from, !.role = "follower"]
  ELSE s

AfterAppend(s, from, t) ==
  IF FollowsLeader(s, t)
  THEN [Caught(s, t) EXCEPT !.leader = from, !.role = "follower",
                            !.readonly = @ /\ ~AutoHeal]
  ELSE s

AfterReadonly(s) ==
  IF s.role = "leader"
  THEN [s EXCEPT !.readonly = TRUE, !.role = "follower", !.leader = None]
  ELSE [s EXCEPT !.readonly = TRUE]

-----------------------------------------------------------------------------
(* Handlers.  `Handle` is the handling of one request at its receiver.      *)

Connected(n, p) == up[n] /\ up[p] /\ n \notin cut /\ p \notin cut

Handle(q) ==
  LET n == q.to IN
  /\ up[n]
  /\ Becomes(n, IF q.kind = "vote" THEN AfterVote(State(n), q.from, q.term)
                ELSE AfterAppend(State(n), q.from, q.term))
  /\ applying' = [applying EXCEPT
       ![n] = IF q.kind = "sync" /\ FollowsLeader(State(n), q.term)
              THEN @ \cup {q.snap} ELSE @]

\* What the caller is told.  A success echoes the term of the request.
Response(q) ==
  LET s == State(q.to) IN
  IF q.kind = "vote"
  THEN [term |-> AfterVote(s, q.from, q.term).term,
        ok |-> GrantsVote(s, q.from, q.term)]
  ELSE [term |-> IF FollowsLeader(s, q.term) THEN q.term ELSE s.term,
        ok |-> FollowsLeader(s, q.term)]

\* The snapshot replaces the registry after the lock has been released.
ApplySnapshot(n) == \E d \in applying[n] :
  /\ data' = [data EXCEPT ![n] = d]
  /\ applying' = [applying EXCEPT ![n] = @ \ {d}]
  /\ UNCHANGED <<raft, env, overdue, rpc, cast, writing, writes, late, led>>

\* An agent writes: _check_leader first, the change of the registry later.
WriteCheck(n) ==
  /\ IsLeader(n) /\ ~writing[n] /\ writes < MaxWrites
  /\ writing' = [writing EXCEPT ![n] = TRUE]
  /\ writes' = writes + 1
  /\ UNCHANGED <<raft, env, overdue, rpc, cast, applying, data, late, led>>

WriteDone(n) ==
  /\ writing[n]
  /\ writing' = [writing EXCEPT ![n] = FALSE]
  /\ data' = [data EXCEPT ![n] = writes]
  /\ UNCHANGED <<raft, env, overdue, rpc, cast, applying, writes, late, led>>

\* Operators may freeze and unfreeze a node by hand.
EnterReadonly(n) ==
  /\ n \in Handled /\ up[n] /\ ~readonly[n]
  /\ Becomes(n, AfterReadonly(State(n)))
  /\ UNCHANGED <<content, env, overdue, rpc, cast, late, led>>

ExitReadonly(n) ==
  /\ n \in Handled /\ up[n] /\ readonly[n]
  /\ Becomes(n, [State(n) EXCEPT !.readonly = FALSE])
  /\ UNCHANGED <<content, env, overdue, rpc, cast, late, led>>

-----------------------------------------------------------------------------
(* Rounds of calls.                                                         *)

RoundBecomes(n, t, r) == rpc' = [rpc EXCEPT ![n][t] = r]
PushBecomes(n, t, r) == cast' = [cast EXCEPT ![n][t] = r]

NewRound(n, tm) == [NoRound EXCEPT !.on = TRUE, !.term = tm, !.todo = Peers(n)]
NewPush(n) == [NoPush EXCEPT !.on = TRUE, !.term = term[n], !.todo = Peers(n)]

\* The call of /v1/ha/vote or of /v1/ha/sync without a snapshot, and the one
\* of /v1/ha/sync with a snapshot.
Ask(n, t, p) == [kind |-> t, from |-> n, to |-> p, term |-> rpc[n][t].term,
                 snap |-> None]
Send(n, t, p) == [kind |-> "sync", from |-> n, to |-> p,
                  term |-> cast[n][t].term, snap |-> cast[n][t].snap]

\* A request whose sender gave up is lost, or may be handled later.
GivenUp(q) ==
  \/ UNCHANGED late
  \/ /\ lossy /\ q.from \in Lagging /\ Cardinality(late) < MaxLate
     /\ late' = late \cup {q}

Calling(n, t, p) == rpc[n][t].reply = None /\ p \in rpc[n][t].todo

Call(n, t, p) ==
  /\ Calling(n, t, p) /\ Connected(n, p)
  /\ Handle(Ask(n, t, p))
  /\ RoundBecomes(n, t, [rpc[n][t] EXCEPT !.todo = @ \ {p},
                                          !.reply = Response(Ask(n, t, p))])
  /\ UNCHANGED <<env, overdue, cast, data, writing, writes, late, led>>

CallFails(n, t, p) ==
  /\ Calling(n, t, p) /\ (lossy \/ ~Connected(n, p))
  /\ RoundBecomes(n, t, [rpc[n][t] EXCEPT !.todo = @ \ {p}])
  /\ GivenUp(Ask(n, t, p))
  /\ UNCHANGED <<raft, content, env, overdue, cast, led>>

\* A reply with a higher term than the round's ends the round.
Outranked(r) == r.reply # None /\ r.reply.term > r.term

AnswerHigher(n, t) ==
  /\ Outranked(rpc[n][t])
  /\ RoundBecomes(n, t, NoRound)
  /\ Becomes(n, SteppedDown(State(n), rpc[n][t].reply.term))
  /\ UNCHANGED <<content, env, overdue, cast, late, led>>

Count(r) == IF r.reply # None /\ r.reply.ok THEN r.yes + 1 ELSE r.yes

\* The last reply is counted by the step that ends the round.
Answer(n, t) ==
  LET r == rpc[n][t] IN
  /\ r.reply # None /\ ~Outranked(r) /\ r.todo # {}
  /\ RoundBecomes(n, t, [r EXCEPT !.reply = None, !.yes = Count(r)])
  /\ UNCHANGED <<raft, content, env, overdue, cast, late, led>>

AnswerLost(n, t) ==
  /\ rpc[n][t].reply # None /\ lossy
  /\ RoundBecomes(n, t, [rpc[n][t] EXCEPT !.reply = None])
  /\ UNCHANGED <<raft, content, env, overdue, cast, late, led>>

Heard(n, t) ==
  rpc[n][t].on /\ rpc[n][t].todo = {} /\ ~Outranked(rpc[n][t])

\* The majority of _start_election and _heartbeat_loop, with the node itself.
Quorum(n, t) == Count(rpc[n][t]) + 1 >= Needed

DeliverLate == \E q \in late :
  /\ Handle(q)
  /\ late' = late \ {q}
  /\ UNCHANGED <<env, overdue, rpc, cast, data, writing, writes, led>>

LoseLate == \E q \in late :
  /\ late' = late \ {q}
  /\ UNCHANGED <<raft, content, env, overdue, rpc, cast, led>>

-----------------------------------------------------------------------------
(* The election thread.                                                     *)

StartElection(n) ==
  /\ up[n] /\ role[n] # "leader" /\ term[n] < MaxTerm
  /\ ~rpc[n]["vote"].on /\ ~cast[n]["push"].on
  /\ Becomes(n, [Persisted([State(n) EXCEPT !.term = @ + 1, !.voted = n])
                   EXCEPT !.role = "candidate", !.leader = None])
  /\ RoundBecomes(n, "vote", NewRound(n, term[n] + 1))
  /\ UNCHANGED <<content, env, overdue, cast, late, led>>

\* _become_leader leads in the term the node is in by now, and follows up
\* with a push of the registry.
BecomeLeader(n) ==
  /\ Heard(n, "vote") /\ Quorum(n, "vote")
  /\ RoundBecomes(n, "vote", NoRound)
  /\ Becomes(n, [State(n) EXCEPT !.role = "leader", !.leader = n])
  /\ led' = led \cup {<<n, term[n]>>}
  /\ PushBecomes(n, "push", NewPush(n))
  /\ UNCHANGED <<content, env, overdue, late>>

ElectionFails(n) ==
  /\ Heard(n, "vote") /\ ~Quorum(n, "vote")
  /\ RoundBecomes(n, "vote", NoRound)
  /\ UNCHANGED <<raft, content, env, overdue, cast, late, led>>

(* The heartbeat thread.                                                    *)

BeatBegin(n) ==
  /\ n \in Beating
  /\ up[n] /\ role[n] = "leader" /\ ~rpc[n]["beat"].on
  /\ RoundBecomes(n, "beat", NewRound(n, term[n]))
  /\ UNCHANGED <<raft, content, env, overdue, cast, late, led>>

\* Mutant: a leader without a quorum waits for a new one.
AfterNoQuorum_Waits(n) == State(n)

AfterNoQuorum(n) == IF overdue[n] THEN AfterReadonly(State(n)) ELSE State(n)

\* The round counts for whatever the node leads when it ends.
BeatEnd(n) ==
  /\ Heard(n, "beat")
  /\ RoundBecomes(n, "beat", NoRound)
  /\ \/ role[n] # "leader" /\ UNCHANGED <<raft, overdue>>
     \/ /\ role[n] = "leader" /\ Quorum(n, "beat")
        /\ Becomes(n, [State(n) EXCEPT !.readonly = FALSE])
        /\ overdue' = [overdue EXCEPT ![n] = FALSE]
     \/ /\ role[n] = "leader" /\ ~Quorum(n, "beat")
        /\ Becomes(n, AfterNoQuorum(n))
        /\ UNCHANGED overdue
  /\ UNCHANGED <<content, env, cast, late, led>>

QuorumOverdue(n) ==
  /\ n \in Beating /\ up[n] /\ ~overdue[n]
  /\ overdue' = [overdue EXCEPT ![n] = TRUE]
  /\ UNCHANGED <<raft, content, env, rpc, cast, late, led>>

(* The sync thread, and the push of a new leader.                           *)

SyncBegin(n) ==
  /\ n \in Syncing
  /\ up[n] /\ role[n] = "leader" /\ ~cast[n]["sync"].on
  /\ PushBecomes(n, "sync", NewPush(n))
  /\ UNCHANGED <<raft, content, env, overdue, rpc, late, led>>

BuildSnapshot(n, t) ==
  /\ cast[n][t].on /\ cast[n][t].snap = None
  /\ PushBecomes(n, t, [cast[n][t] EXCEPT !.snap = data[n]])
  /\ UNCHANGED <<raft, content, env, overdue, rpc, late, led>>

\* One call; the last one ends the round.
Sending(n, t, p) ==
  LET c == cast[n][t] IN
  /\ c.snap # None /\ p \in c.todo
  /\ PushBecomes(n, t, IF c.todo = {p} THEN NoPush
                       ELSE [c EXCEPT !.todo = @ \ {p}])

PushTo(n, t, p) ==
  /\ Sending(n, t, p) /\ Connected(n, p)
  /\ Handle(Send(n, t, p))
  /\ UNCHANGED <<env, overdue, rpc, data, writing, writes, late, led>>

PushFails(n, t, p) ==
  /\ Sending(n, t, p) /\ (lossy \/ ~Connected(n, p))
  /\ GivenUp(Send(n, t, p))
  /\ UNCHANGED <<raft, content, env, overdue, rpc, led>>

-----------------------------------------------------------------------------
(* Processes, disks and the network.                                        *)

Crash(n) ==
  /\ up[n] /\ crashes < MaxCrashes
  /\ crashes' = crashes + 1
  /\ up' = [up EXCEPT ![n] = FALSE]
  /\ rpc' = [rpc EXCEPT ![n] = [t \in Asking |-> NoRound]]
  /\ cast' = [cast EXCEPT ![n] = [t \in Pushing |-> NoPush]]
  /\ applying' = [applying EXCEPT ![n] = {}]
  /\ writing' = [writing EXCEPT ![n] = FALSE]
  /\ UNCHANGED <<raft, diskOk, overdue, data, writes, late, cut, lossy, led>>

\* Mutant: only the term is restored.
Restart_TermOnly(n) ==
  /\ ~up[n]
  /\ up' = [up EXCEPT ![n] = TRUE]
  /\ Becomes(n, [State(n) EXCEPT
       !.term = disk[n].term, !.voted = None, !.role = "follower",
       !.leader = None, !.readonly = FALSE])
  /\ overdue' = [overdue EXCEPT ![n] = FALSE]
  /\ data' = [data EXCEPT ![n] = 0]
  /\ UNCHANGED <<diskOk, rpc, cast, applying, writing, writes, crashes, late,
                 cut, lossy, led>>

Restart(n) ==
  /\ ~up[n]
  /\ up' = [up EXCEPT ![n] = TRUE]
  /\ Becomes(n, [State(n) EXCEPT
       !.term = disk[n].term, !.voted = disk[n].voted, !.role = "follower",
       !.leader = None, !.readonly = FALSE])
  /\ overdue' = [overdue EXCEPT ![n] = FALSE]
  /\ data' = [data EXCEPT ![n] = 0]
  /\ UNCHANGED <<diskOk, rpc, cast, applying, writing, writes, crashes, late,
                 cut, lossy, led>>

DiskBreaks(n) ==
  /\ n \in Fragile /\ StateFile /\ diskOk[n]
  /\ diskOk' = [diskOk EXCEPT ![n] = FALSE]
  /\ UNCHANGED <<raft, content, up, overdue, rpc, cast, crashes, late, cut,
                 lossy, led>>

\* Any calls may fail until the network settles; from then on those fail that
\* have a separated node at one end.
NetSettles ==
  /\ lossy
  /\ lossy' = FALSE
  /\ cut' \in SUBSET Exposed
  /\ UNCHANGED <<raft, content, up, diskOk, crashes, overdue, rpc, cast, late,
                 led>>

-----------------------------------------------------------------------------
RoundStep(n, t) ==
  \/ \E p \in Node : Call(n, t, p) \/ CallFails(n, t, p)
  \/ AnswerHigher(n, t) \/ Answer(n, t) \/ AnswerLost(n, t)
CastStep(n, t) ==
  \/ BuildSnapshot(n, t)
  \/ \E p \in Node : PushTo(n, t, p) \/ PushFails(n, t, p)

\* What the election thread does once an election has begun.
ElectionThread(n) ==
  RoundStep(n, "vote") \/ BecomeLeader(n) \/ ElectionFails(n) \/ CastStep(n, "push")
HeartbeatThread(n) == RoundStep(n, "beat") \/ BeatBegin(n) \/ BeatEnd(n)
SyncThread(n) == CastStep(n, "sync") \/ SyncBegin(n)

NodeStep(n) ==
  \/ StartElection(n) \/ ElectionThread(n) \/ HeartbeatThread(n) \/ SyncThread(n)
  \/ ApplySnapshot(n) \/ WriteCheck(n) \/ WriteDone(n)
  \/ EnterReadonly(n) \/ ExitReadonly(n) \/ QuorumOverdue(n)
  \/ Crash(n) \/ Restart(n) \/ DiskBreaks(n)

Next == (\E n \in Node : NodeStep(n)) \/ DeliverLate \/ LoseLate \/ NetSettles

Spec == Init /\ [][Next]_vars

\* The threads run, calls end at their time-out, handlers finish, time passes.
\* Nobody is obliged to start elections, to write, to crash or to repair.
FairSpec ==
  /\ Spec
  /\ \A n \in Node : /\ WF_vars(ElectionThread(n))
                     /\ WF_vars(ApplySnapshot(n))
                     /\ WF_vars(WriteDone(n))
  /\ \A n \in Beating : WF_vars(HeartbeatThread(n)) /\ WF_vars(QuorumOverdue(n))
  /\ \A n \in Syncing : WF_vars(SyncThread(n))
  /\ WF_vars(DeliverLate \/ LoseLate)

-----------------------------------------------------------------------------
(* Properties.                                                              *)

\* Types, for the state a node keeps and for the rounds under way.
TypeOK ==
  /\ up \in [Node -> BOOLEAN] /\ readonly \in [Node -> BOOLEAN]
  /\ overdue \in [Node -> BOOLEAN] /\ diskOk \in [Node -> BOOLEAN]
  /\ writing \in [Node -> BOOLEAN] /\ lossy \in BOOLEAN
  /\ term \in [Node -> Term]
  /\ role \in [Node -> {"follower", "candidate", "leader"}]
  /\ voted \in [Node -> Node \cup {None}] /\ leader \in [Node -> Node \cup {None}]
  /\ disk \in [Node -> Ballot]
  /\ rpc \in [Node -> [Asking -> Round]]
  /\ cast \in [Node -> [Pushing -> Push]]
  /\ applying \in [Node -> SUBSET Content]
  /\ data \in [Node -> Content]
  /\ writes \in 0 .. MaxWrites /\ crashes \in 0 .. MaxCrashes
  /\ late \subseteq Request /\ cut \subseteq Node
  /\ led \subseteq Node \X Term

\* Where a node redirects its writers (HTTP 307 of _check_leader) is a node
\* that really became leader in the very term the follower is in, whatever
\* late heartbeats, deposed leaders and restarts have told it.
RedirectsToLeader ==
  \A n \in Node : up[n] /\ leader[n] # None => <<leader[n], term[n]>> \in led

\* A round whose reply carries a term that is no news to the node any more.
Misled(n) == \E t \in Asking :
  LET r == rpc[n][t] IN
  Outranked(r) /\ ~rpc'[n][t].on /\ r.reply.term <= term[n]

KeepsBallot(n) ==
  /\ term'[n] >= term[n]
  /\ term'[n] = term[n] /\ voted[n] # None => voted'[n] = voted[n]

\* As long as state_file can be written, no step of a node, restarts included,
\* makes its term go back or takes back or changes a vote within a term -- but
\* for the replies that reach _step_down after a handler has overtaken them.
VoteKept ==
  [][\A n \in Node : StateFile /\ diskOk[n] /\ ~Misled(n) => KeepsBallot(n)]_vars

\* A leader that stays separated from all other masters stops accepting
\* writes for good: its rounds find no quorum, and the quorum time-out makes
\* it read-only (the split-brain guard of _heartbeat_loop).
CutLeaderStops ==
  \A n \in Beating : <>[](up[n] /\ n \in cut) => <>[]~IsLeader(n)

\* All masters run and reach each other, and l keeps leading, none ahead of it
\* (the replies to its heartbeats would depose it, those to its pushes do not).
Steady(l) ==
  /\ role[l] = "leader" /\ ~lossy /\ cut = {}
  /\ \A n \in Node : up[n] /\ term[n] <= term[l]

Converged(l) == \A f \in Node : data[f] = data[l]

\* Under a lasting leader every registry becomes the leader's, however
\* pushes, late snapshots and unfinished writes were ordered before.
ReplicasConverge == \A l \in Syncing : <>[]Steady(l) => <>[]Converged(l)

\* Under a lasting leader no master, the leader included, stays read-only.
ReadonlyHeals == \A l \in Beating, f \in Node :
  <>[]Steady(l) => []<>~readonly[f]

\* Not a property of this code: two masters that accept writes in one term.
\* The candidate that wins its votes leads in whatever term its node has
\* been moved to since it asked for them.
OneLeaderPerTerm == \A m, n \in Node :
  IsLeader(m) /\ IsLeader(n) /\ term[m] = term[n] => m = n
=============================================================================
