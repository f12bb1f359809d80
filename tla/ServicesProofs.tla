---------------------------- MODULE ServicesProofs ----------------------------
(***************************************************************************)
(* The services, for all values of their constants.                         *)
(***************************************************************************)
EXTENDS Services, FiniteSetTheorems, TLAPS

-----------------------------------------------------------------------------
(* gRPC channels.                                                          *)

Made == 1 .. k_made

ChannelTypes ==
  /\ k_made \in Nat
  /\ k_channel \in [k_Server -> Made \cup {None}]
  /\ k_open \subseteq Made /\ k_late \subseteq Made
  /\ k_call \in [k_Caller -> [at : {"idle", "ensure", "rpc", "pop", "close"},
                              server : k_Server \cup {None}, has : Made \cup {None}]]
  /\ \A c \in k_Caller : k_call[c].at # "idle" => k_call[c].server \in k_Server
  /\ k_life \in [at : {"off", "starting", "running", "stopping"},
                 todo : SUBSET k_Server, has : Made \cup {None}]

(* Every channel has one owner: an entry, or those who are about to close it. *)
OneOwner ==
  /\ \A s, t \in k_Server : k_channel[s] = k_channel[t] /\ k_channel[s] # None => s = t
  /\ \A s \in k_Server : k_channel[s] # None => k_channel[s] \notin K!Closing

(* What stop() has still to do; nobody else closes channels for it.          *)
StopOwes ==
  /\ k_life.at # "stopping" => k_life.has = None
  /\ k_life.at = "stopping" =>
       k_open \subseteq k_late \cup K!Closing \cup {k_channel[s] : s \in k_life.todo}

ChannelInv == ChannelTypes /\ OneOwner /\ StopOwes /\ K!ChannelsKept

LEMMA ChannelStart == K!Init => ChannelInv
<1> SUFFICES ASSUME K!Init  PROVE ChannelInv  OBVIOUS
<1>1. ChannelTypes
  BY DEF K!Init, ChannelTypes, K!Idle, K!Phase
<1>2. OneOwner /\ StopOwes /\ K!ChannelsKept
  BY DEF K!Init, OneOwner, StopOwes, K!ChannelsKept, K!Closing, K!Idle, K!Phase
<1> QED  BY <1>1, <1>2 DEF ChannelInv

(* get_channel and start(): an entry is there, or a new channel fills it.    *)
LEMMA Ensured ==
  ASSUME ChannelInv, NEW s \in k_Server, K!Ensure(s)
  PROVE  /\ k_made' \in Nat /\ Made \subseteq Made'
         /\ k_channel' \in [k_Server -> Made' \cup {None}]
         /\ k_channel'[s] \in Made' /\ k_channel'[s] # None
         /\ k_open' \subseteq Made' /\ k_late' \subseteq Made'
         /\ \A t \in k_Server \ {s} : k_channel'[t] = k_channel[t]
         /\ \/ k_channel'[s] = k_channel[s] /\ UNCHANGED <<k_open, k_late>>
            \/ /\ k_channel[s] = None /\ k_channel'[s] \notin Made
               /\ k_open' = k_open \cup {k_channel'[s]}
               /\ k_late' = k_late \cup {k_channel'[s]}
<1> USE DEF ChannelInv, ChannelTypes, Made
<1>1. CASE k_channel[s] # None /\ UNCHANGED <<k_channel, k_made, k_open, k_late>>
  BY <1>1
<1>2. CASE /\ k_channel[s] = None /\ k_made' = k_made + 1
           /\ k_open' = k_open \cup {k_made'}
           /\ k_channel' = [k_channel EXCEPT ![s] = k_made']
           /\ k_late' = k_late \cup {k_made'}
  <2>1. k_made' \in Nat /\ Made \subseteq Made' /\ k_made' \in Made' /\ k_made' \notin Made
    BY <1>2
  <2>2. k_channel'[s] = k_made' /\ k_made' # None
    BY <1>2, <2>1, AbsentAssumption
  <2>3. \A t \in k_Server \ {s} : k_channel'[t] = k_channel[t]
    BY <1>2
  <2>4. k_channel' \in [k_Server -> Made' \cup {None}]
    BY <1>2, <2>1
  <2> QED  BY <1>2, <2>1, <2>2, <2>3, <2>4
<1> QED  BY <1>1, <1>2 DEF K!Ensure

(* What is about to be closed has been made. *)
LEMMA ClosingMade ==
  ASSUME ChannelTypes  PROVE K!Closing \subseteq Made \cup {None}
BY DEF ChannelTypes, K!Closing

LEMMA NumbersAreMade == ASSUME ChannelTypes  PROVE None \notin Made
BY AbsentAssumption DEF ChannelTypes, Made

(* Neither takes a channel from its owner, or leaves stop() one too many.     *)
LEMMA EnsureKeeps ==
  ASSUME ChannelInv, NEW s \in k_Server, K!Ensure(s), K!Closing' = K!Closing,
         k_life'.at = k_life.at, k_life'.has = k_life.has,
         k_life.at = "stopping" => k_life' = k_life
  PROVE  OneOwner' /\ StopOwes' /\ K!ChannelsKept'
<1>1. ChannelTypes /\ OneOwner /\ StopOwes /\ K!ChannelsKept  BY DEF ChannelInv
<1>2. K!Closing \subseteq Made \cup {None} /\ None \notin Made
  BY <1>1, ClosingMade, NumbersAreMade
<1>3. /\ \A t \in k_Server \ {s} : k_channel'[t] = k_channel[t]
      /\ \/ k_channel'[s] = k_channel[s] /\ UNCHANGED <<k_open, k_late>>
         \/ /\ k_channel[s] = None /\ k_channel'[s] \notin Made
            /\ k_open' = k_open \cup {k_channel'[s]}
            /\ k_late' = k_late \cup {k_channel'[s]}
      /\ k_channel'[s] # None
  BY Ensured
<1>4. \A t \in k_Server : k_channel[t] \in Made \cup {None}
  BY <1>1 DEF ChannelTypes
<1>5. CASE k_channel'[s] = k_channel[s] /\ UNCHANGED <<k_open, k_late>>
  <2>1. \A t \in k_Server : k_channel'[t] = k_channel[t]  BY <1>3, <1>5
  <2>2. OneOwner'  BY <1>1, <2>1 DEF OneOwner
  <2>3. {k_channel'[t] : t \in k_Server} = {k_channel[t] : t \in k_Server}
    BY <2>1
  <2>4. K!ChannelsKept'  BY <1>1, <1>5, <2>3 DEF K!ChannelsKept
  <2>5. StopOwes'
    <3>1. CASE k_life.at # "stopping"  BY <1>1, <3>1 DEF StopOwes
    <3>2. CASE k_life.at = "stopping"
      <4>1. k_life.todo \subseteq k_Server  BY <1>1 DEF ChannelTypes
      <4>2. {k_channel'[t] : t \in k_life.todo} = {k_channel[t] : t \in k_life.todo}
        BY <2>1, <4>1
      <4> QED  BY <1>1, <1>5, <3>2, <4>2 DEF StopOwes
    <3> QED  BY <3>1, <3>2
  <2> QED  BY <2>2, <2>4, <2>5
<1>6. CASE /\ k_channel[s] = None /\ k_channel'[s] \notin Made
           /\ k_open' = k_open \cup {k_channel'[s]}
           /\ k_late' = k_late \cup {k_channel'[s]}
  <2>1. OneOwner'  BY <1>1, <1>2, <1>3, <1>4, <1>6 DEF OneOwner
  <2>2. \A t \in k_Server : k_channel[t] # None => k_channel'[t] = k_channel[t]
    BY <1>3, <1>6
  <2>3. {k_channel[t] : t \in k_Server} \subseteq {k_channel'[t] : t \in k_Server} \cup {None}
    BY <2>2
  <2>4. {k_channel'[t] : t \in k_Server} \subseteq
          {k_channel[t] : t \in k_Server} \cup {k_channel'[s]}
    BY <1>3
  <2>5. k_open \subseteq Made  BY <1>1 DEF ChannelTypes
  <2>6. K!ChannelsKept'
    BY <1>1, <1>2, <1>6, <2>3, <2>4, <2>5 DEF K!ChannelsKept
  <2>7. StopOwes'
    <3>1. CASE k_life.at # "stopping"  BY <1>1, <3>1 DEF StopOwes
    <3>2. CASE k_life.at = "stopping"
      <4>1. k_life.todo \subseteq k_Server  BY <1>1 DEF ChannelTypes
      <4>2. {k_channel[t] : t \in k_life.todo} \subseteq
              {k_channel'[t] : t \in k_life.todo} \cup {None}
        BY <2>2, <4>1
      <4> QED  BY <1>1, <1>2, <1>6, <2>5, <3>2, <4>2 DEF StopOwes
    <3> QED  BY <3>1, <3>2
  <2> QED  BY <2>1, <2>6, <2>7
<1> QED  BY <1>3, <1>5, <1>6

(* _close_channel moves an entry to those who are about to close it.         *)
LEMMA PopKeeps ==
  ASSUME ChannelInv, NEW s \in k_Server, K!Pop(s), UNCHANGED <<k_open, k_late>>,
         K!Closing \subseteq K!Closing' \cup {None},
         k_channel[s] \in K!Closing' \cup {None},
         K!Closing' \subseteq K!Closing \cup {k_channel[s], None},
         k_life'.at = k_life.at, k_life.todo \subseteq k_life'.todo \cup {s},
         k_life.at # "stopping" => k_life'.has = None
  PROVE  /\ k_channel' \in [k_Server -> Made \cup {None}]
         /\ OneOwner' /\ StopOwes' /\ K!ChannelsKept'
<1>1. ChannelTypes /\ OneOwner /\ StopOwes /\ K!ChannelsKept  BY DEF ChannelInv
<1>2. k_open \subseteq Made /\ None \notin k_open
  BY <1>1, NumbersAreMade DEF ChannelTypes
<1>3. /\ k_channel' \in [k_Server -> Made \cup {None}]
      /\ \A t \in k_Server \ {s} : k_channel'[t] = k_channel[t]
      /\ k_channel'[s] = None
  BY <1>1 DEF ChannelTypes, K!Pop
<1>4. OneOwner'
  <2>1. ASSUME NEW t \in k_Server, NEW u \in k_Server,
               k_channel'[t] = k_channel'[u], k_channel'[t] # None
        PROVE  t = u
    <3>1. t # s /\ u # s  BY <1>3, <2>1
    <3>2. k_channel[t] = k_channel[u] /\ k_channel[t] # None  BY <1>3, <2>1, <3>1
    <3> QED  BY <1>1, <3>2 DEF OneOwner
  <2>2. ASSUME NEW t \in k_Server, k_channel'[t] # None
        PROVE  k_channel'[t] \notin K!Closing'
    <3>1. t # s /\ k_channel'[t] = k_channel[t]  BY <1>3, <2>2
    <3>2. k_channel[t] # None /\ k_channel[t] \notin K!Closing
      BY <1>1, <2>2, <3>1 DEF OneOwner
    <3>3. k_channel[t] # k_channel[s]  BY <1>1, <3>1, <3>2 DEF OneOwner
    <3> QED  BY <3>1, <3>2, <3>3
  <2> QED  BY <2>1, <2>2 DEF OneOwner
<1>5. K!ChannelsKept'
  <2>1. {k_channel[t] : t \in k_Server} \subseteq
          {k_channel'[t] : t \in k_Server} \cup {k_channel[s]}
    BY <1>3
  <2>2. {k_channel'[t] : t \in k_Server} \subseteq {k_channel[t] : t \in k_Server} \cup {None}
    BY <1>3
  <2> QED  BY <1>1, <1>2, <2>1, <2>2 DEF K!ChannelsKept
<1>6. StopOwes'
  <2>1. CASE k_life.at # "stopping"  BY <2>1 DEF StopOwes
  <2>2. CASE k_life.at = "stopping"
    <3>1. k_life.todo \subseteq k_Server  BY <1>1 DEF ChannelTypes
    <3>2. {k_channel[t] : t \in k_life.todo} \subseteq
            {k_channel'[t] : t \in k_life'.todo} \cup {k_channel[s]}
      BY <1>3, <3>1
    <3> QED  BY <1>1, <1>2, <2>2, <3>2 DEF StopOwes
  <2> QED  BY <2>1, <2>2
<1> QED  BY <1>3, <1>4, <1>5, <1>6

(* What is closed was in nobody's entry. *)
LEMMA CloseKeeps ==
  ASSUME ChannelInv, NEW ch \in K!Closing, K!Close(ch), UNCHANGED <<k_channel, k_late>>,
         ch # None, K!Closing \subseteq K!Closing' \cup {ch},
         K!Closing' \subseteq K!Closing \cup {None},
         k_life'.at = k_life.at, k_life'.todo = k_life.todo,
         k_life.at # "stopping" => k_life'.has = None
  PROVE  OneOwner' /\ StopOwes' /\ K!ChannelsKept'
<1>1. ChannelTypes /\ OneOwner /\ StopOwes /\ K!ChannelsKept  BY DEF ChannelInv
<1>2. OneOwner'  BY <1>1 DEF OneOwner
<1>3. k_open' = k_open \ {ch} /\ \A t \in k_Server : k_channel[t] # ch
  BY <1>1 DEF K!Close, OneOwner
<1>4. K!ChannelsKept'  BY <1>1, <1>3 DEF K!ChannelsKept
<1>5. StopOwes'  BY <1>1, <1>3 DEF StopOwes
<1> QED  BY <1>2, <1>4, <1>5

(* Steps that open, move and close nothing. *)
LEMMA RestKeeps ==
  ASSUME ChannelInv, UNCHANGED <<k_channel, k_open>>, K!Closing' = K!Closing
  PROVE  /\ OneOwner'
         /\ k_life' = k_life /\ k_late' = k_late => StopOwes' /\ K!ChannelsKept'
BY DEF ChannelInv, OneOwner, StopOwes, K!ChannelsKept

(* Who is about to close what, one by one. *)
LEMMA WhoCloses ==
  /\ \A ch : ch \in K!Closing <=>
       \/ ch = k_life.has
       \/ \E c \in k_Caller : k_call[c].at = "close" /\ k_call[c].has = ch
  /\ \A ch : ch \in K!Closing' <=>
       \/ ch = k_life'.has
       \/ \E c \in k_Caller : k_call'[c].at = "close" /\ k_call'[c].has = ch
BY DEF K!Closing

(* A call that neither starts nor ends to close. *)
LEMMA CallsElsewhere ==
  ASSUME ChannelTypes, NEW c \in k_Caller, NEW next,
         k_call' = [k_call EXCEPT ![c] = next],
         k_call[c].at # "close", next.at # "close", k_life'.has = k_life.has
  PROVE  K!Closing' = K!Closing
<1>1. /\ \A d \in k_Caller \ {c} : k_call'[d] = k_call[d]
      /\ k_call'[c] = next
  BY DEF ChannelTypes
<1>2. \A ch : ch \in K!Closing' <=> ch \in K!Closing
  BY <1>1, WhoCloses
<1> QED  BY <1>2

CallRecord == [at : {"idle", "ensure", "rpc", "pop", "close"},
               server : k_Server \cup {None}, has : Made \cup {None}]

LEMMA CallGoes ==
  ASSUME ChannelTypes, NEW c \in k_Caller, NEW next \in CallRecord,
         next.at # "idle" => next.server \in k_Server,
         k_call' = [k_call EXCEPT ![c] = next], k_made' = k_made
  PROVE  /\ k_call' \in [k_Caller -> CallRecord']
         /\ \A d \in k_Caller : k_call'[d].at # "idle" => k_call'[d].server \in k_Server
BY DEF ChannelTypes, CallRecord, Made

LEMMA BothFields ==
  ASSUME ChannelTypes, NEW c \in k_Caller, NEW ch
  PROVE  [k_call EXCEPT ![c].at = "rpc", ![c].has = ch] =
         [k_call EXCEPT ![c] = [at |-> "rpc", server |-> k_call[c].server, has |-> ch]]
<1> DEFINE f == [k_call EXCEPT ![c] = [@ EXCEPT !.at = "rpc"]]
           r == [at |-> "rpc", server |-> k_call[c].server, has |-> k_call[c].has]
<1>1. k_call[c] \in CallRecord  BY DEF ChannelTypes, CallRecord
<1>2. [k_call[c] EXCEPT !.at = "rpc"] = r  BY <1>1 DEF CallRecord
<1>3. f = [k_call EXCEPT ![c] = r]  BY <1>2
<1>4. f[c] = r /\ DOMAIN f = k_Caller /\ DOMAIN k_call = k_Caller
  BY <1>3 DEF ChannelTypes
<1>5. [r EXCEPT !.has = ch] = [at |-> "rpc", server |-> k_call[c].server, has |-> ch]
  OBVIOUS
<1> HIDE DEF r
<1>6. [f EXCEPT ![c] = [@ EXCEPT !.has = ch]] = [f EXCEPT ![c] = [r EXCEPT !.has = ch]]
  BY <1>4
<1> QED  BY <1>3, <1>4, <1>5, <1>6

LEMMA CallStep ==
  ASSUME ChannelInv, NEW c \in k_Caller, K!Request(c)
  PROVE  ChannelInv'
<1> DEFINE r == k_call[c]
<1>1. ChannelTypes /\ OneOwner /\ StopOwes /\ K!ChannelsKept  BY DEF ChannelInv
<1>2. r \in CallRecord /\ K!Idle \in CallRecord /\ K!Idle.at = "idle"
  BY <1>1 DEF ChannelTypes, CallRecord, K!Idle
<1>3. r.at # "idle" => r.server \in k_Server  BY <1>1 DEF ChannelTypes
<1>4. None \notin Made  BY <1>1, NumbersAreMade
<1> HIDE DEF r
<1>5. ASSUME NEW next \in CallRecord, next.at # "idle" => next.server \in k_Server,
             k_call' = [k_call EXCEPT ![c] = next], r.at # "close", next.at # "close",
             UNCHANGED <<k_channel, k_made, k_open, k_life, k_late>>
      PROVE  ChannelInv'
  <2>1. K!Closing' = K!Closing  BY <1>1, <1>5, CallsElsewhere DEF r
  <2>2. OneOwner' /\ StopOwes' /\ K!ChannelsKept'  BY <1>5, <2>1, RestKeeps
  <2>3. ChannelTypes'
    BY <1>1, <1>5, CallGoes DEF ChannelTypes, Made, CallRecord
  <2> QED  BY <2>2, <2>3 DEF ChannelInv
<1>6. ASSUME NEW s \in k_Server, K!Route(c, s)  PROVE ChannelInv'
  <2> DEFINE next == [K!Idle EXCEPT !.at = "ensure", !.server = s]
  <2>1. next \in CallRecord /\ next.at = "ensure" /\ next.server = s
    BY DEF CallRecord, K!Idle
  <2>2. k_call' = [k_call EXCEPT ![c] = next]  BY <1>6 DEF K!Route
  <2> HIDE DEF next
  <2> QED  BY <1>5, <1>6, <2>1, <2>2 DEF K!Route, r
<1>7. CASE K!Succeed(c)
  BY <1>2, <1>5, <1>7 DEF K!Succeed, r
<1>8. CASE K!Fail(c)
  <2>1. CASE k_call' = [k_call EXCEPT ![c] = K!Idle]
    BY <1>2, <1>5, <1>8, <2>1 DEF K!Fail, r
  <2>2. CASE k_call' = [k_call EXCEPT ![c] = [r EXCEPT !.at = "pop"]]
    <3> DEFINE next == [r EXCEPT !.at = "pop"]
    <3>1. next \in CallRecord /\ next.at = "pop" /\ next.server = r.server
      BY <1>2 DEF CallRecord
    <3>2. r.at = "rpc"  BY <1>8 DEF K!Fail, r
    <3>3. k_call' = [k_call EXCEPT ![c] = next]  BY <2>2
    <3> HIDE DEF next
    <3> QED  BY <1>3, <1>5, <1>8, <3>1, <3>2, <3>3 DEF K!Fail
  <2> QED  BY <1>8, <2>1, <2>2 DEF K!Fail, r
<1>9. CASE K!Get(c)
  <2> DEFINE s == r.server
             next == [at |-> "rpc", server |-> s, has |-> k_channel'[s]]
  <2>1. r.at = "ensure" /\ K!Ensure(s) /\ k_life' = k_life  BY <1>9 DEF K!Get, r
  <2>2. s \in k_Server  BY <1>3, <2>1
  <2>3. k_call' = [k_call EXCEPT ![c] = next]
    <3>1. k_call' = [k_call EXCEPT ![c].at = "rpc", ![c].has = k_channel'[s]]
      BY <1>9 DEF K!Get, r
    <3> QED  BY <1>1, <3>1, BothFields DEF r
  <2>4. k_made' \in Nat /\ Made \subseteq Made' /\ k_channel'[s] \in Made'
        /\ k_channel' \in [k_Server -> Made' \cup {None}]
        /\ k_open' \subseteq Made' /\ k_late' \subseteq Made'
    BY <2>1, <2>2, Ensured
  <2>5. next.at = "rpc" /\ next.server \in k_Server /\ next \in CallRecord'
    BY <2>2, <2>4 DEF CallRecord
  <2> HIDE DEF s, next
  <2>6. K!Closing' = K!Closing
    BY <1>1, <2>1, <2>3, <2>5, CallsElsewhere DEF r
  <2>7. OneOwner' /\ StopOwes' /\ K!ChannelsKept'
    BY <2>1, <2>2, <2>6, EnsureKeeps
  <2>8. ChannelTypes'
    BY <1>1, <2>1, <2>3, <2>4, <2>5 DEF ChannelTypes, CallRecord
  <2> QED  BY <2>7, <2>8 DEF ChannelInv
<1>10. CASE K!Drop(c)
  <2> DEFINE s == r.server
             next == IF k_channel[s] = None THEN K!Idle
                     ELSE [r EXCEPT !.at = "close", !.has = k_channel[s]]
  <2>1. r.at = "pop" /\ K!Pop(s) /\ UNCHANGED <<k_made, k_open, k_life, k_late>>
        /\ k_call' = [k_call EXCEPT ![c] = next]
    BY <1>10 DEF K!Drop, r
  <2>2. s \in k_Server  BY <1>3, <2>1
  <2>3. k_channel[s] \in Made \cup {None}  BY <1>1, <2>2 DEF ChannelTypes
  <2>4. /\ next \in CallRecord
        /\ next.at # "idle" => next.server = s
        /\ k_channel[s] # None => next.at = "close" /\ next.has = k_channel[s]
        /\ k_channel[s] = None => next.at # "close"
    BY <1>2, <2>3 DEF CallRecord
  <2> HIDE DEF s, next
  <2>5. /\ \A d \in k_Caller \ {c} : k_call'[d] = k_call[d]
        /\ k_call'[c] = next
    BY <1>1, <2>1 DEF ChannelTypes
  <2>6. /\ \A ch : ch \in K!Closing => ch \in K!Closing' \cup {None}
        /\ k_channel[s] \in K!Closing' \cup {None}
        /\ \A ch : ch \in K!Closing' => ch \in K!Closing \cup {k_channel[s], None}
    BY <2>1, <2>4, <2>5, WhoCloses DEF r
  <2>7. k_life.at # "stopping" => k_life'.has = None  BY <1>1, <2>1 DEF StopOwes
  <2>8. /\ k_channel' \in [k_Server -> Made \cup {None}]
        /\ OneOwner' /\ StopOwes' /\ K!ChannelsKept'
    BY <2>1, <2>2, <2>6, <2>7, PopKeeps
  <2>9. ChannelTypes'
    BY <1>1, <2>1, <2>2, <2>4, <2>8, CallGoes DEF ChannelTypes, Made, CallRecord
  <2> QED  BY <2>8, <2>9 DEF ChannelInv
<1>11. CASE K!Closed(c)
  <2> DEFINE ch == r.has
  <2>1. r.at = "close" /\ K!Close(ch) /\ UNCHANGED <<k_channel, k_made, k_life, k_late>>
        /\ k_call' = [k_call EXCEPT ![c] = K!Idle]
    BY <1>11 DEF K!Closed, r
  <2>2. ch \in Made \cup {None}  BY <1>2 DEF CallRecord
  <2>3. /\ \A d \in k_Caller \ {c} : k_call'[d] = k_call[d]
        /\ k_call'[c] = K!Idle
    BY <1>1, <2>1 DEF ChannelTypes
  <2> HIDE DEF ch
  <2>4. /\ ch \in K!Closing
        /\ \A x : x \in K!Closing => x \in K!Closing' \cup {ch}
        /\ \A x : x \in K!Closing' => x \in K!Closing
    BY <1>2, <2>1, <2>3, WhoCloses DEF r, ch
  <2>5. ChannelTypes'
    <3>1. k_open' \subseteq Made  BY <1>1, <2>1 DEF ChannelTypes, K!Close
    <3> QED  BY <1>1, <1>2, <2>1, <3>1, CallGoes DEF ChannelTypes, Made, CallRecord
  <2>6. CASE ch = None
    <3>1. k_open' = k_open  BY <1>1, <1>4, <2>1, <2>6 DEF ChannelTypes, K!Close
    <3>2. \A x \in k_open : x # None  BY <1>1, <1>4 DEF ChannelTypes
    <3>3. OneOwner' /\ StopOwes' /\ K!ChannelsKept'
      BY <1>1, <2>1, <2>4, <2>6, <3>1, <3>2 DEF OneOwner, StopOwes, K!ChannelsKept
    <3> QED  BY <2>5, <3>3 DEF ChannelInv
  <2>7. CASE ch # None
    <3>1. k_life.at # "stopping" => k_life'.has = None  BY <1>1, <2>1 DEF StopOwes
    <3>2. OneOwner' /\ StopOwes' /\ K!ChannelsKept'
      BY <2>1, <2>4, <2>7, <3>1, CloseKeeps
    <3> QED  BY <2>5, <3>2 DEF ChannelInv
  <2> QED  BY <2>6, <2>7
<1> QED  BY <1>6, <1>7, <1>8, <1>9, <1>10, <1>11 DEF K!Request

(* start() and stop().  Only stop() has a channel in hand. *)
LEMMA LifeStep ==
  ASSUME ChannelInv,
         \/ K!Start \/ K!Started \/ K!Stop \/ K!StopCloses \/ K!Stopped
         \/ \E s \in k_Server : K!Prepare(s) \/ K!StopDrops(s)
  PROVE  ChannelInv'
<1>1. ChannelTypes /\ OneOwner /\ StopOwes /\ K!ChannelsKept  BY DEF ChannelInv
<1>2. None \notin Made  BY <1>1, NumbersAreMade
<1>3. ASSUME k_life.has = None, k_life'.has = None, k_call' = k_call
      PROVE  K!Closing' = K!Closing
  BY <1>3 DEF K!Closing
<1>4. CASE K!Start \/ K!Started \/ K!Stop \/ K!Stopped
  <2>1. UNCHANGED <<k_channel, k_made, k_open, k_call>>
    BY <1>4 DEF K!Start, K!Started, K!Stop, K!Stopped
  <2>2. k_life.has = None /\ k_life'.has = None
    BY <1>1, <1>4 DEF K!Start, K!Started, K!Stop, K!Stopped, K!Phase, StopOwes
  <2>3. K!Closing' = K!Closing  BY <1>3, <2>1, <2>2
  <2>4. OneOwner'  BY <2>1, <2>3, RestKeeps
  <2>5. ChannelTypes'
    <3>1. k_life' \in [at : {"off", "starting", "running", "stopping"},
                       todo : SUBSET k_Server, has : Made \cup {None}]
      BY <1>4 DEF K!Start, K!Started, K!Stop, K!Stopped, K!Phase
    <3>2. k_late' \subseteq Made
      BY <1>1, <1>4 DEF ChannelTypes, K!Start, K!Started, K!Stop, K!Stopped
    <3> QED  BY <1>1, <2>1, <3>1, <3>2 DEF ChannelTypes, Made
  <2>6. k_open \subseteq Made  BY <1>1 DEF ChannelTypes
  <2>7. StopOwes'
    <3>1. CASE ~K!Stop
      BY <1>4, <2>2, <3>1 DEF K!Start, K!Started, K!Stopped, K!Phase, StopOwes
    <3>2. CASE K!Stop
      <4>1. k_life'.todo = {s \in k_Server : k_channel[s] # None}
        BY <3>2 DEF K!Stop, K!Phase
      <4>2. {k_channel[s] : s \in k_Server} \subseteq
              {k_channel'[s] : s \in k_life'.todo} \cup {None}
        BY <2>1, <4>1
      <4> QED  BY <1>1, <1>2, <2>1, <2>2, <2>3, <2>6, <4>2 DEF K!ChannelsKept, StopOwes
    <3> QED  BY <3>1, <3>2
  <2>8. k_life'.at = "off" => k_open' \subseteq k_late' \cup K!Closing'
    <3>1. CASE ~K!Stopped
      BY <1>4, <3>1 DEF K!Start, K!Started, K!Stop, K!Phase
    <3>2. CASE K!Stopped
      <4>1. k_life.at = "stopping" /\ k_life.todo = {} /\ k_late' = k_late
        BY <3>2 DEF K!Stopped
      <4> QED  BY <1>1, <2>1, <2>3, <4>1 DEF StopOwes
    <3> QED  BY <3>1, <3>2
  <2>9. K!ChannelsKept'  BY <1>1, <2>1, <2>3, <2>8 DEF K!ChannelsKept
  <2> QED  BY <2>4, <2>5, <2>7, <2>9 DEF ChannelInv
<1>5. CASE K!StopCloses
  <2> DEFINE ch == k_life.has
  <2>1. /\ k_life.at = "stopping" /\ ch # None /\ K!Close(ch)
        /\ k_life' = [k_life EXCEPT !.has = None]
        /\ UNCHANGED <<k_channel, k_made, k_call, k_late>>
    BY <1>5 DEF K!StopCloses
  <2>2. k_life'.at = k_life.at /\ k_life'.todo = k_life.todo /\ k_life'.has = None
    BY <1>1, <2>1 DEF ChannelTypes
  <2>3. ch \in K!Closing  BY DEF K!Closing
  <2>4. K!Closing \subseteq K!Closing' \cup {ch}
    BY <2>1 DEF K!Closing
  <2>5. K!Closing' \subseteq K!Closing \cup {None}
    BY <2>1, <2>2 DEF K!Closing
  <2> HIDE DEF ch
  <2>6. OneOwner' /\ StopOwes' /\ K!ChannelsKept'
    BY <2>1, <2>2, <2>3, <2>4, <2>5, CloseKeeps
  <2>7. k_open' \subseteq Made  BY <1>1, <2>1 DEF ChannelTypes, K!Close
  <2>8. ChannelTypes'  BY <1>1, <2>1, <2>7 DEF ChannelTypes, Made
  <2> QED  BY <2>6, <2>8 DEF ChannelInv
<1>6. ASSUME NEW s \in k_Server, K!Prepare(s)  PROVE ChannelInv'
  <2>1. /\ k_life.at = "starting" /\ K!Ensure(s) /\ UNCHANGED k_call
        /\ k_life' = [k_life EXCEPT !.todo = @ \ {s}]
    BY <1>6 DEF K!Prepare
  <2>2. k_life'.at = k_life.at /\ k_life'.has = k_life.has /\ k_life.has = None
    BY <1>1, <2>1 DEF ChannelTypes, StopOwes
  <2>3. K!Closing' = K!Closing  BY <1>3, <2>1, <2>2
  <2>4. OneOwner' /\ StopOwes' /\ K!ChannelsKept'
    BY <2>1, <2>2, <2>3, EnsureKeeps
  <2>5. k_made' \in Nat /\ Made \subseteq Made'
        /\ k_channel' \in [k_Server -> Made' \cup {None}]
        /\ k_open' \subseteq Made' /\ k_late' \subseteq Made'
    BY <2>1, Ensured
  <2>6. ChannelTypes'  BY <1>1, <2>1, <2>5 DEF ChannelTypes
  <2> QED  BY <2>4, <2>6 DEF ChannelInv
<1>7. ASSUME NEW s \in k_Server, K!StopDrops(s)  PROVE ChannelInv'
  <2>1. /\ k_life.at = "stopping" /\ K!Pop(s) /\ k_life.has = None
        /\ k_life' = [k_life EXCEPT !.todo = @ \ {s}, !.has = k_channel[s]]
        /\ UNCHANGED <<k_made, k_open, k_call, k_late>>
    BY <1>7 DEF K!StopDrops
  <2>2. /\ k_life'.at = k_life.at /\ k_life'.has = k_channel[s]
        /\ k_life'.todo = k_life.todo \ {s}
    BY <1>1, <2>1 DEF ChannelTypes
  <2>3. /\ \A ch : ch \in K!Closing => ch \in K!Closing' \cup {None}
        /\ k_channel[s] \in K!Closing'
        /\ \A ch : ch \in K!Closing' => ch \in K!Closing \cup {k_channel[s]}
    BY <2>1, <2>2, WhoCloses
  <2>4. /\ k_channel' \in [k_Server -> Made \cup {None}]
        /\ OneOwner' /\ StopOwes' /\ K!ChannelsKept'
    BY <2>1, <2>2, <2>3, PopKeeps
  <2>5. k_channel[s] \in Made \cup {None}  BY <1>1 DEF ChannelTypes
  <2>6. ChannelTypes'  BY <1>1, <2>1, <2>4, <2>5 DEF ChannelTypes, Made
  <2> QED  BY <2>4, <2>6 DEF ChannelInv
<1> QED  BY <1>4, <1>5, <1>6, <1>7

LEMMA ChannelInductive ==
  ASSUME ChannelInv, [K!Next]_kvars
  PROVE  ChannelInv'
<1>1. CASE UNCHANGED kvars
  <2>1. UNCHANGED <<k_channel, k_made, k_open, k_call, k_life, k_late>>
    BY <1>1 DEF kvars
  <2>2. K!Closing' = K!Closing  BY <2>1 DEF K!Closing
  <2>3. OneOwner' /\ StopOwes' /\ K!ChannelsKept'
    BY <2>1, <2>2, RestKeeps
  <2>4. ChannelTypes'  BY <2>1 DEF ChannelInv, ChannelTypes, Made
  <2> QED  BY <2>3, <2>4 DEF ChannelInv
<1> QED  BY <1>1, CallStep, LifeStep DEF K!Next

-----------------------------------------------------------------------------
(* State files.                                                            *)

SaveRecord == [at : {"idle", "snapshot", "writing"}, state : Nat, alone : BOOLEAN]

SaveTypes ==
  /\ c_process \in {"down", "fresh", "running", "stopping", "stopped"}
  /\ c_live \in Nat /\ c_floor \in Nat /\ c_stored \in Nat \cup {None}
  /\ c_save \in [c_Saver -> SaveRecord]

(* A cluster that has started knows at least what must not be lost.           *)
Restored == c_process \in {"running", "stopping", "stopped"} => c_live >= c_floor

(* Saves are made by clusters that have started; none of them is older than   *)
(* what must not be lost, one that is alone is the only one, and nothing has   *)
(* been restored since.                                                      *)
SavesFresh ==
  \A s \in c_Saver : c_save[s].at # "idle" =>
    /\ c_process \in {"running", "stopping", "stopped"}
    /\ c_save[s].state >= c_floor
    /\ c_save[s].alone =>
         /\ c_save[s].state <= c_live
         /\ \A t \in c_Saver \ {s} : c_save[t].at = "idle"

SaveInv == SaveTypes /\ Restored /\ SavesFresh /\ C!NoOldRestore

LEMMA SaveStart == C!Init => SaveInv
BY DEF C!Init, C!NoSave, SaveInv, SaveTypes, SaveRecord, Restored, SavesFresh,
       C!NoOldRestore

(* What start() and load_state() read is not too old. *)
LEMMA ReadFresh ==
  ASSUME SaveTypes, C!NoOldRestore
  PROVE  /\ c_stored # None => c_stored \in Nat /\ c_stored >= c_floor
         /\ c_stored = None => c_floor = 0
BY AbsentAssumption DEF SaveTypes, C!NoOldRestore

(* A start(), or a load, beside a save: none is alone any more. *)
LEMMA NoneAlone ==
  ASSUME SaveTypes, SavesFresh,
         c_save' = [s \in c_Saver |-> [c_save[s] EXCEPT !.alone = FALSE]],
         c_process' \in {"running", "stopping", "stopped"} \/ c_process' = c_process,
         c_floor' \in {0, c_floor}
  PROVE  c_save' \in [c_Saver -> SaveRecord] /\ SavesFresh'
<1>1. ASSUME NEW s \in c_Saver
      PROVE  /\ c_save'[s] \in SaveRecord
             /\ c_save'[s].at = c_save[s].at /\ c_save'[s].state = c_save[s].state
             /\ c_save'[s].alone = FALSE
             /\ c_save[s].state >= c_floor => c_save[s].state >= c_floor'
  <2>1. c_save[s] \in SaveRecord  BY DEF SaveTypes
  <2>2. c_save'[s] = [c_save[s] EXCEPT !.alone = FALSE]  OBVIOUS
  <2>3. c_save[s].state \in Nat /\ c_floor \in Nat
    BY <2>1 DEF SaveTypes, SaveRecord
  <2>4. c_save[s].state >= c_floor => c_save[s].state >= c_floor'
    BY <2>3
  <2> QED  BY <2>1, <2>2, <2>4 DEF SaveRecord
<1>2. c_save' \in [c_Saver -> SaveRecord]
  <2>1. c_save' = [s \in c_Saver |-> c_save'[s]]  OBVIOUS
  <2> QED  BY <1>1, <2>1
<1>3. ASSUME NEW s \in c_Saver, c_save'[s].at # "idle"
      PROVE  /\ c_process' \in {"running", "stopping", "stopped"}
             /\ c_save'[s].state >= c_floor'
             /\ ~ c_save'[s].alone
  BY <1>1, <1>3 DEF SavesFresh
<1>4. SavesFresh'  BY <1>3 DEF SavesFresh
<1> QED  BY <1>2, <1>4

(* The snapshot of a save. *)
LEMMA Snapped ==
  ASSUME SaveInv, NEW u, c_save' = C!Snap(u),
         c_process \in {"running", "stopping", "stopped"},
         c_process' \in {"running", "stopping", "stopped"},
         UNCHANGED <<c_live, c_stored, c_floor>>
  PROVE  SaveInv'
<1>1. SaveTypes /\ Restored /\ SavesFresh /\ C!NoOldRestore  BY DEF SaveInv
<1> DEFINE only == \A r \in c_Saver : c_save[r].at = "idle"
<1>2. c_save' = [t \in c_Saver |->
        IF t # u THEN [c_save[t] EXCEPT !.alone = FALSE]
        ELSE [at |-> "snapshot", state |-> c_live, alone |-> only]]
  BY DEF C!Snap
<1>3. only \in BOOLEAN /\ (only => \A r \in c_Saver : c_save[r].at = "idle")
  OBVIOUS
<1> HIDE DEF only
<1>4. ASSUME NEW t \in c_Saver, t # u
      PROVE  /\ c_save'[t] \in SaveRecord
             /\ c_save'[t].at = c_save[t].at /\ c_save'[t].state = c_save[t].state
             /\ c_save'[t].alone = FALSE
  BY <1>1, <1>2, <1>4, ZenonT(40) DEF SaveTypes, SaveRecord
<1>5. ASSUME NEW t \in c_Saver, t = u
      PROVE  /\ c_save'[t] \in SaveRecord
             /\ c_save'[t].at = "snapshot" /\ c_save'[t].state = c_live
             /\ c_save'[t].alone = only
  BY <1>1, <1>2, <1>3, <1>5 DEF SaveTypes, SaveRecord
<1>6. SaveTypes'
  <2>1. c_save' \in [c_Saver -> SaveRecord]  BY <1>2, <1>4, <1>5
  <2> QED  BY <1>1, <2>1 DEF SaveTypes
<1>7. SavesFresh'
  <2>1. c_live \in Nat /\ c_live >= c_floor  BY <1>1 DEF SaveTypes, Restored
  <2>2. SUFFICES ASSUME NEW t \in c_Saver, c_save'[t].at # "idle"
        PROVE  /\ c_save'[t].state >= c_floor
               /\ c_save'[t].alone =>
                    /\ c_save'[t].state <= c_live
                    /\ \A r \in c_Saver \ {t} : c_save'[r].at = "idle"
    BY DEF SavesFresh
  <2>3. CASE t # u
    BY <1>1, <1>4, <2>2, <2>3 DEF SavesFresh
  <2>4. CASE t = u
    <3>1. c_save'[t].state = c_live /\ c_save'[t].alone = only
      BY <1>5, <2>4
    <3>2. only => \A r \in c_Saver \ {t} : c_save'[r].at = "idle"
      BY <1>3, <1>4, <2>4
    <3>3. c_save'[t].state >= c_floor /\ c_save'[t].state <= c_live
      BY <2>1, <3>1
    <3> QED  BY <3>1, <3>2, <3>3, Zenon
  <2> QED  BY <2>3, <2>4
<1>8. Restored' /\ C!NoOldRestore'  BY <1>1 DEF Restored, C!NoOldRestore
<1> QED  BY <1>6, <1>7, <1>8 DEF SaveInv

(* A save that ends, in whatever way. *)
LEMMA SaveEnds ==
  ASSUME SaveTypes, SavesFresh, NEW s \in c_Saver,
         c_save' = [c_save EXCEPT ![s] = C!NoSave],
         UNCHANGED <<c_process, c_live>>,
         \/ c_floor' = c_floor
         \/ /\ c_save[s].at # "idle" /\ c_save[s].alone
            /\ c_floor' = c_save[s].state
  PROVE  c_save' \in [c_Saver -> SaveRecord] /\ SavesFresh'
<1>1. /\ C!NoSave \in SaveRecord /\ C!NoSave.at = "idle"
      /\ \A t \in c_Saver \ {s} : c_save'[t] = c_save[t]
      /\ c_save'[s] = C!NoSave
      /\ c_save' \in [c_Saver -> SaveRecord]
  BY DEF C!NoSave, SaveRecord, SaveTypes
<1>2. SavesFresh'
  <2>1. CASE c_floor' = c_floor
    BY <1>1, <2>1 DEF SavesFresh
  <2>2. CASE c_save[s].at # "idle" /\ c_save[s].alone
    <3>1. \A t \in c_Saver \ {s} : c_save[t].at = "idle"
      BY <2>2 DEF SavesFresh
    <3>2. \A t \in c_Saver : c_save'[t].at = "idle"
      BY <1>1, <3>1
    <3> QED  BY <3>2 DEF SavesFresh
  <2> QED  BY <2>1, <2>2
<1> QED  BY <1>1, <1>2

LEMMA SaveInductive ==
  ASSUME SaveInv, [C!Next]_cvars
  PROVE  SaveInv'
<1>1. SaveTypes /\ Restored /\ SavesFresh /\ C!NoOldRestore  BY DEF SaveInv
<1>2. CASE UNCHANGED cvars
  BY <1>1, <1>2
     DEF cvars, SaveInv, SaveTypes, Restored, SavesFresh, C!NoOldRestore
<1>3. CASE C!Construct
  <2>1. \A s \in c_Saver : c_save[s].at = "idle"
    BY <1>1, <1>3 DEF C!Construct, SavesFresh
  <2> QED
    BY <1>1, <1>3, <2>1
       DEF C!Construct, SaveInv, SaveTypes, Restored, SavesFresh, C!NoOldRestore
<1>4. CASE C!Start
  <2>1. /\ c_process' = "running" /\ c_stored' = c_stored
        /\ c_save' = [s \in c_Saver |-> [c_save[s] EXCEPT !.alone = FALSE]]
        /\ c_floor' \in {0, c_floor}
    BY <1>4 DEF C!Start
  <2>2. c_save' \in [c_Saver -> SaveRecord] /\ SavesFresh'
    BY <1>1, <2>1, NoneAlone
  <2>3. c_live' \in Nat /\ c_live' >= c_floor' /\ c_floor' \in Nat
    BY <1>1, <1>4, ReadFresh DEF C!Start, SaveTypes
  <2> QED
    BY <1>1, <2>1, <2>2, <2>3 DEF SaveInv, SaveTypes, Restored, C!NoOldRestore
<1>5. CASE C!Load
  <2>1. /\ c_process' = c_process /\ c_stored' = c_stored /\ c_floor' = c_floor
        /\ c_save' = [s \in c_Saver |-> [c_save[s] EXCEPT !.alone = FALSE]]
    BY <1>5 DEF C!Load
  <2>2. c_save' \in [c_Saver -> SaveRecord] /\ SavesFresh'
    BY <1>1, <2>1, NoneAlone
  <2>3. c_live' \in Nat /\ c_live' >= c_floor'
    BY <1>1, <1>5, ReadFresh DEF C!Load, SaveTypes
  <2> QED
    BY <1>1, <2>1, <2>2, <2>3 DEF SaveInv, SaveTypes, Restored, C!NoOldRestore
<1>6. CASE C!Change
  <2>1. c_live \in Nat /\ c_floor \in Nat /\ c_live' = c_live + 1
        /\ UNCHANGED <<c_process, c_stored, c_save, c_floor>>
    BY <1>1, <1>6 DEF C!Change, SaveTypes
  <2>2. SavesFresh'
    <3>1. \A s \in c_Saver : c_save[s].state \in Nat
      BY <1>1 DEF SaveTypes, SaveRecord
    <3>2. \A s \in c_Saver : c_save[s].state <= c_live => c_save[s].state <= c_live'
      BY <2>1, <3>1
    <3> QED  BY <1>1, <2>1, <3>2 DEF SavesFresh
  <2>3. SaveTypes' /\ Restored' /\ C!NoOldRestore'
    BY <1>1, <2>1 DEF SaveTypes, Restored, C!NoOldRestore
  <2> QED  BY <2>2, <2>3 DEF SaveInv
<1>7. CASE C!Stop
  BY <1>7, Snapped DEF C!Stop
<1>8. CASE C!Stopped
  BY <1>1, <1>8
     DEF C!Stopped, SaveInv, SaveTypes, Restored, SavesFresh, C!NoOldRestore
<1>9. CASE C!Crash
  BY <1>1, <1>9
     DEF C!Crash, C!NoSave, SaveInv, SaveTypes, SaveRecord, Restored, SavesFresh,
         C!NoOldRestore
<1>10. CASE C!Expire
  <2>1. \A s \in c_Saver : c_save[s].state >= 0
    BY <1>1 DEF SaveTypes, SaveRecord
  <2> QED
    BY <1>1, <1>10, <2>1
       DEF C!Expire, SaveInv, SaveTypes, Restored, SavesFresh, C!NoOldRestore
<1>11. ASSUME NEW s \in c_Saver, C!Snapshot(s)  PROVE SaveInv'
  BY <1>11, Snapped DEF C!Snapshot
<1>12. ASSUME NEW s \in c_Saver, C!Write(s)  PROVE SaveInv'
  <2>1. /\ c_save[s].at = "snapshot"
        /\ c_save' = [c_save EXCEPT ![s].at = "writing"]
        /\ UNCHANGED <<c_process, c_live, c_stored, c_floor>>
    BY <1>12 DEF C!Write
  <2>2. \A t \in c_Saver :
          /\ c_save'[t] \in SaveRecord
          /\ c_save'[t].at = "idle" <=> c_save[t].at = "idle"
          /\ c_save'[t].state = c_save[t].state
          /\ c_save'[t].alone = c_save[t].alone
    BY <1>1, <2>1 DEF SaveTypes, SaveRecord
  <2>3. c_save' \in [c_Saver -> SaveRecord]
    BY <1>1, <2>1 DEF SaveTypes, SaveRecord
  <2> QED
    BY <1>1, <2>1, <2>2, <2>3
       DEF SaveInv, SaveTypes, Restored, SavesFresh, C!NoOldRestore
<1>13. ASSUME NEW s \in c_Saver, c_save[s].at # "idle", C!Stores(s)  PROVE SaveInv'
  <2>1. /\ c_stored' = c_save[s].state
        /\ c_floor' = IF c_save[s].alone THEN c_save[s].state ELSE c_floor
        /\ c_save' = [c_save EXCEPT ![s] = C!NoSave]
        /\ UNCHANGED <<c_process, c_live>>
    BY <1>13 DEF C!Stores
  <2>2. c_save[s].state \in Nat /\ c_live \in Nat /\ c_floor \in Nat
    BY <1>1 DEF SaveTypes, SaveRecord
  <2>3. c_save[s].state >= c_floor /\ (c_save[s].alone => c_save[s].state <= c_live)
    BY <1>1, <1>13 DEF SavesFresh
  <2>4. c_save' \in [c_Saver -> SaveRecord] /\ SavesFresh'
    BY <1>1, <1>13, <2>1, SaveEnds
  <2>5. c_floor' \in Nat /\ c_save[s].state >= c_floor'
        /\ (c_floor' <= c_floor \/ c_floor' <= c_live)
    BY <2>1, <2>2, <2>3
  <2>6. Restored'  BY <1>1, <2>1, <2>2, <2>5 DEF Restored
  <2>7. C!NoOldRestore'
    BY <2>1, <2>2, <2>5, AbsentAssumption DEF C!NoOldRestore
  <2> QED  BY <1>1, <2>1, <2>2, <2>4, <2>5, <2>6, <2>7 DEF SaveInv, SaveTypes
<1>14. ASSUME NEW s \in c_Saver, C!Replace(s) \/ C!SetKey(s)  PROVE SaveInv'
  BY <1>13, <1>14 DEF C!Replace, C!SetKey
<1>15. ASSUME NEW s \in c_Saver, C!Fail(s)  PROVE SaveInv'
  <2>1. /\ c_save' = [c_save EXCEPT ![s] = C!NoSave]
        /\ UNCHANGED <<c_process, c_live, c_stored, c_floor>>
    BY <1>15 DEF C!Fail
  <2>2. c_save' \in [c_Saver -> SaveRecord] /\ SavesFresh'
    BY <1>1, <2>1, SaveEnds
  <2> QED  BY <1>1, <2>1, <2>2 DEF SaveInv, SaveTypes, Restored, C!NoOldRestore
<1> QED
  BY <1>2, <1>3, <1>4, <1>5, <1>6, <1>7, <1>8, <1>9, <1>10, <1>11, <1>12, <1>14, <1>15
     DEF C!Next

-----------------------------------------------------------------------------
(* Remediation.                                                            *)

RunRecord == [at : {"idle", "trigger", "act"}, server : q_Server \cup {None}, todo : Nat]

RemedyTypes ==
  /\ q_state \in [q_Server -> Q!State] /\ q_quarantined \subseteq q_Server
  /\ q_run \in [q_Thread -> RunRecord]

(* Who has triggers or an action to run has them for a server.               *)
RunsFor ==
  \A t \in q_Thread : q_run[t].at # "idle" =>
    q_run[t].server \in q_Server /\ q_run[t].todo >= 1

RemedyInv == RemedyTypes /\ RunsFor /\ Q!QuarantineVisible

LEMMA RemedyStart == Q!Init => RemedyInv
BY DEF Q!Init, Q!Idle, Q!State, RemedyInv, RemedyTypes, RunRecord, RunsFor,
       Q!QuarantineVisible

(* A thread gets something to do, or has nothing left. *)
LEMMA RunGoes ==
  ASSUME RemedyTypes, RunsFor, NEW t \in q_Thread, NEW next \in RunRecord,
         next.at # "idle" => next.server \in q_Server /\ next.todo >= 1,
         q_run' = [q_run EXCEPT ![t] = next]
  PROVE  q_run' \in [q_Thread -> RunRecord] /\ RunsFor'
BY DEF RemedyTypes, RunsFor

LEMMA Triggered ==
  ASSUME RemedyTypes, RunsFor, NEW t \in q_Thread, NEW s \in q_Server, NEW n \in Nat,
         Q!Triggers(t, s, n)
  PROVE  q_run' \in [q_Thread -> RunRecord] /\ RunsFor'
<1>1. CASE n = 0
  <2>1. Q!Idle \in RunRecord /\ Q!Idle.at = "idle"  BY DEF Q!Idle, RunRecord
  <2> QED  BY <1>1, <2>1, RunGoes DEF Q!Triggers
<1>2. CASE n # 0
  <2> DEFINE next == [at |-> "trigger", server |-> s, todo |-> n]
  <2>1. next \in RunRecord /\ next.server \in q_Server /\ next.todo >= 1
    BY <1>2 DEF RunRecord
  <2>2. q_run' = [q_run EXCEPT ![t] = next]  BY <1>2 DEF Q!Triggers
  <2> HIDE DEF next
  <2> QED  BY <2>1, <2>2, RunGoes
<1> QED  BY <1>1, <1>2

LEMMA Returned ==
  ASSUME RemedyTypes, RunsFor, NEW t \in q_Thread, q_run[t].at # "idle", Q!Returns(t)
  PROVE  q_run' \in [q_Thread -> RunRecord] /\ RunsFor'
<1> DEFINE r == q_run[t]
<1>1. r \in RunRecord /\ r.server \in q_Server /\ r.todo \in Nat /\ r.todo >= 1
  BY DEF RemedyTypes, RunsFor, RunRecord
<1>2. CASE r.todo = 1
  <2>1. q_run' = [q_run EXCEPT ![t] = Q!Idle]  BY <1>2 DEF Q!Returns
  <2>2. Q!Idle \in RunRecord /\ Q!Idle.at = "idle"  BY DEF Q!Idle, RunRecord
  <2> QED  BY <2>1, <2>2, RunGoes
<1>3. CASE r.todo # 1
  <2> DEFINE next == [at |-> "trigger", server |-> r.server, todo |-> r.todo - 1]
  <2>1. q_run' = [q_run EXCEPT ![t] = next]
    <3>1. q_run' = [q_run EXCEPT ![t] = IF r.todo = 1 THEN Q!Idle ELSE next]
      BY DEF Q!Returns
    <3> HIDE DEF next
    <3> QED  BY <1>3, <3>1
  <2>2. r.todo - 1 \in Nat /\ r.todo - 1 >= 1  BY <1>1, <1>3
  <2> HIDE DEF r
  <2>3. next \in RunRecord /\ next.server \in q_Server /\ next.todo >= 1
    BY <1>1, <2>2 DEF RunRecord
  <2> HIDE DEF next
  <2> QED  BY <2>1, <2>3, RunGoes DEF r
<1> QED  BY <1>2, <1>3

(* An eviction is recorded, with or without another trigger.                 *)
LEMMA EvictionRecorded ==
  ASSUME RemedyInv, NEW t \in q_Thread, NEW s \in q_Server, NEW more \in {0, 1},
         Q!RecordEviction(t, s, more)
  PROVE  RemedyInv'
<1> DEFINE n == more + IF q_streak'[s] >= q_Threshold THEN 1 ELSE 0
<1>1. n \in Nat  OBVIOUS
<1>2. Q!Triggers(t, s, n) /\ UNCHANGED <<q_state, q_quarantined>>
  BY DEF Q!RecordEviction
<1> HIDE DEF n
<1>3. q_run' \in [q_Thread -> RunRecord] /\ RunsFor'
  BY <1>1, <1>2, Triggered DEF RemedyInv
<1> QED  BY <1>2, <1>3 DEF RemedyInv, RemedyTypes, Q!QuarantineVisible

(* Of a healed server the quarantine ends with the state.                    *)
LEMMA RecoveryRecorded ==
  ASSUME RemedyInv, NEW s \in q_Server, Q!RecordRecovery(s), UNCHANGED q_run
  PROVE  RemedyInv'
<1>1. RemedyTypes /\ RunsFor /\ Q!QuarantineVisible  BY DEF RemedyInv
<1>2. RemedyTypes'
  BY <1>1 DEF Q!RecordRecovery, RemedyTypes, Q!State
<1>3. Q!QuarantineVisible'
  BY <1>1 DEF Q!RecordRecovery, RemedyTypes, Q!QuarantineVisible
<1> QED  BY <1>1, <1>2, <1>3 DEF RemedyInv, RunsFor

LEMMA RemedyInductive ==
  ASSUME RemedyInv, [Q!Next]_qvars
  PROVE  RemedyInv'
<1>1. RemedyTypes /\ RunsFor /\ Q!QuarantineVisible  BY DEF RemedyInv
<1>2. ASSUME UNCHANGED <<q_state, q_quarantined>>,
             q_run' \in [q_Thread -> RunRecord], RunsFor'
      PROVE  RemedyInv'
  BY <1>1, <1>2 DEF RemedyInv, RemedyTypes, Q!QuarantineVisible
<1>3. ASSUME UNCHANGED <<q_state, q_quarantined, q_run>>  PROVE RemedyInv'
  BY <1>1, <1>3 DEF RemedyInv, RemedyTypes, RunsFor, Q!QuarantineVisible
<1>4. CASE UNCHANGED qvars  BY <1>3, <1>4 DEF qvars
<1>5. ASSUME NEW s \in q_Server, Q!HourPasses(s)  PROVE RemedyInv'
  BY <1>3, <1>5 DEF Q!HourPasses
<1>6. ASSUME NEW s \in q_Server, Q!Clear(s)  PROVE RemedyInv'
  BY <1>1, <1>6
     DEF Q!Clear, RemedyInv, RemedyTypes, RunsFor, Q!State, Q!QuarantineVisible
<1>7. ASSUME NEW t \in q_Thread, Q!Trigger(t)  PROVE RemedyInv'
  <2> DEFINE s == q_run[t].server
  <2>1. q_run[t].at = "trigger" /\ s \in q_Server
    BY <1>1, <1>7 DEF Q!Trigger, RunsFor
  <2>2. CASE q_attempts[s] >= q_MaxRetries
    <3>1. /\ q_state' = [q_state EXCEPT ![s] = "dead_letter"]
          /\ Q!Returns(t) /\ q_quarantined' = q_quarantined
      BY <1>7, <2>2 DEF Q!Trigger
    <3>2. q_run' \in [q_Thread -> RunRecord] /\ RunsFor'
      BY <1>1, <2>1, <3>1, Returned
    <3> QED
      BY <1>1, <2>1, <3>1, <3>2 DEF RemedyInv, RemedyTypes, Q!State, Q!QuarantineVisible
  <2>3. CASE ~(q_attempts[s] >= q_MaxRetries)
    <3>1. /\ q_state' = [q_state EXCEPT ![s] = "quarantined"]
          /\ q_quarantined' = q_quarantined \cup {s}
          /\ q_run' = [q_run EXCEPT ![t].at = "act"]
      BY <1>7, <2>3 DEF Q!Trigger
    <3> DEFINE next == [q_run[t] EXCEPT !.at = "act"]
    <3>2. next \in RunRecord /\ next.server \in q_Server /\ next.todo >= 1
      BY <1>1, <2>1 DEF RemedyTypes, RunRecord, RunsFor
    <3>3. q_run' = [q_run EXCEPT ![t] = next]  BY <3>1
    <3> HIDE DEF next
    <3>4. q_run' \in [q_Thread -> RunRecord] /\ RunsFor'
      BY <1>1, <3>2, <3>3, RunGoes
    <3> QED
      BY <1>1, <2>1, <3>1, <3>4 DEF RemedyInv, RemedyTypes, Q!State, Q!QuarantineVisible
  <2> QED  BY <2>2, <2>3
<1>8. ASSUME NEW t \in q_Thread, Q!Act(t)  PROVE RemedyInv'
  <2> DEFINE s == q_run[t].server
  <2>1. q_run[t].at = "act" /\ s \in q_Server
    BY <1>1, <1>8 DEF Q!Act, RunsFor
  <2>2. \E st \in {"healing", "dead_letter"} : q_state' = [q_state EXCEPT ![s] = st]
    BY <1>8 DEF Q!Act
  <2>3. Q!Returns(t) /\ q_quarantined' = q_quarantined
    BY <1>8 DEF Q!Act
  <2>4. q_run' \in [q_Thread -> RunRecord] /\ RunsFor'
    BY <1>1, <2>1, <2>3, Returned
  <2> QED
    BY <1>1, <2>1, <2>2, <2>3, <2>4 DEF RemedyInv, RemedyTypes, Q!State, Q!QuarantineVisible
<1>9. ASSUME NEW t \in q_Thread, NEW s \in q_Server, Q!Evict(t, s)  PROVE RemedyInv'
  <2>1. PICK more \in {0, 1} :
          \/ Q!Triggers(t, s, more) /\ UNCHANGED Q!remediator
          \/ Q!RecordEviction(t, s, more)
    BY <1>9 DEF Q!Evict
  <2>2. CASE Q!Triggers(t, s, more) /\ UNCHANGED Q!remediator
    <3>1. q_run' \in [q_Thread -> RunRecord] /\ RunsFor'
      BY <1>1, <2>2, Triggered
    <3> QED  BY <1>2, <2>2, <3>1 DEF Q!remediator
  <2>3. CASE Q!RecordEviction(t, s, more)
    BY <2>3, EvictionRecorded
  <2> QED  BY <2>1, <2>2, <2>3
<1>10. ASSUME NEW t \in q_Thread, NEW s \in q_Server, Q!DrainEnds(t, s)  PROVE RemedyInv'
  BY <1>10, EvictionRecorded DEF Q!DrainEnds
<1>11. ASSUME NEW t \in q_Thread, NEW s \in q_Server, Q!Ask(t, s)  PROVE RemedyInv'
  <2>1. Q!Triggers(t, s, 1) /\ UNCHANGED Q!remediator  BY <1>11 DEF Q!Ask
  <2>2. q_run' \in [q_Thread -> RunRecord] /\ RunsFor'
    BY <1>1, <2>1, Triggered
  <2> QED  BY <1>2, <2>1, <2>2 DEF Q!remediator
<1>12. ASSUME NEW t \in q_Thread, NEW s \in q_Server, Q!Promote(t, s) \/ Q!Pull(t, s)
       PROVE  RemedyInv'
  BY <1>3, <1>12, RecoveryRecorded DEF Q!Promote, Q!Pull, Q!remediator
<1> QED
  BY <1>4, <1>5, <1>6, <1>7, <1>8, <1>9, <1>10, <1>11, <1>12 DEF Q!Next

-----------------------------------------------------------------------------
(* The HTTP API of a master.                                               *)

Routes == A!Writes \cup A!Reads

Asked == {"scope", "guard", "lead", "feature", "do"}

ReqRecord == [at : {"idle", "answered"} \cup Asked, to : SUBSET a_Master,
              key : SUBSET a_Key, route : Routes, answer : Nat]

ApiTypes ==
  /\ a_req \in [a_Client -> ReqRecord]
  /\ a_seen \in [a_Client -> SUBSET {"writable", "leads"}]

(* A request is for one master. *)
OneMaster ==
  \A c \in a_Client : a_req[c].at \in Asked => \E m \in a_Master : a_req[c].to = {m}

(* What has passed a question saw its master when the answer was yes.         *)
PassedSeen ==
  \A c \in a_Client : a_req[c].route.led /\ "ha" \in a_Enabled =>
    /\ a_req[c].at \in {"lead", "feature", "do"} => "writable" \in a_seen[c]
    /\ a_req[c].at \in {"feature", "do"} => "leads" \in a_seen[c]

ApiInv == ApiTypes /\ OneMaster /\ PassedSeen

(* The routes that change the registry ask for the leader. *)
Sound(route) ==
  /\ route.refusal \in Nat
  /\ route.writes /\ route.feature = "registry" => route.led

LEMMA RegistryRoutesLed == \A route \in Routes : Sound(route)
<1>1. ASSUME NEW route \in A!Writes  PROVE Sound(route)
  <2>1. Sound(A!Raft) /\ Sound(A!Join) /\ Sound(A!Heartbeat) /\ Sound(A!Leave)
    BY DEF Sound, A!Route, A!Raft, A!Join, A!Heartbeat, A!Leave
  <2>2. Sound(A!Report) /\ Sound(A!Rollout) /\ Sound(A!AnnounceService) /\ Sound(A!Deregister)
    BY DEF Sound, A!Route, A!Report, A!Rollout, A!AnnounceService, A!Deregister
  <2>3. Sound(A!AnnounceRegion) /\ Sound(A!ResetBreaker) /\ Sound(A!ResetBucket) /\ Sound(A!Canary)
    BY DEF Sound, A!Route, A!AnnounceRegion, A!ResetBreaker, A!ResetBucket, A!Canary
  <2>4. Sound(A!AnnounceCanary) /\ Sound(A!AddWebhook) /\ Sound(A!PingWebhook) /\ Sound(A!DeleteWebhook)
    BY DEF Sound, A!Route, A!AnnounceCanary, A!AddWebhook, A!PingWebhook, A!DeleteWebhook
  <2> QED  BY <2>1, <2>2, <2>3, <2>4 DEF A!Writes
<1>2. ASSUME NEW route \in A!Reads  PROVE Sound(route)
  <2>1. Sound(A!Next_) /\ Sound(A!Open) /\ Sound(A!HaStatus) /\ Sound(A!Nodes)
    BY DEF Sound, A!Route, A!Next_, A!Open, A!HaStatus, A!Nodes
  <2>2. \A name, feature, refusal : refusal \in Nat => Sound(A!Read(name, feature, refusal))
    BY DEF Sound, A!Route, A!Read
  <2> QED  BY <2>1, <2>2 DEF A!Reads
<1> QED  BY <1>1, <1>2 DEF Routes

LEMMA NothingAsked ==
  A!NoRequest \in ReqRecord /\ A!NoRequest.at = "idle"
BY DEF A!NoRequest, ReqRecord, Routes, A!Reads

LEMMA ApiStart == A!Init => ApiInv
BY NothingAsked DEF A!Init, ApiInv, ApiTypes, OneMaster, Asked, PassedSeen

(* What the history keeps, and what it takes up. *)
LEMMA SeenKept ==
  ASSUME ApiTypes, A!Observe
  PROVE  /\ a_seen' \in [a_Client -> SUBSET {"writable", "leads"}]
         /\ \A c \in a_Client :
              a_req[c].at \in Asked /\ a_req'[c].at # "answered" =>
                /\ a_seen[c] \subseteq a_seen'[c]
                /\ ~(a_req[c].to \subseteq a_readonly) => "writable" \in a_seen'[c]
                /\ a_req[c].to \subseteq a_leads => "leads" \in a_seen'[c]
BY DEF ApiTypes, A!Observe, Asked

(* Steps that ask nothing of a request keep the invariant. *)
LEMMA NobodyGoes ==
  ASSUME ApiInv, A!Observe, a_req' = a_req
  PROVE  ApiInv'
<1>1. ApiTypes /\ OneMaster /\ PassedSeen  BY DEF ApiInv
<1>2. PassedSeen'
  <2>1. SUFFICES ASSUME NEW c \in a_Client, a_req[c].at \in {"lead", "feature", "do"}
        PROVE  a_seen[c] \subseteq a_seen'[c]
    BY <1>1 DEF PassedSeen
  <2> QED  BY <1>1, <2>1, SeenKept DEF Asked
<1> QED  BY <1>1, <1>2, SeenKept DEF ApiInv, ApiTypes, OneMaster

(* One request goes on. *)
LEMMA OneGoes ==
  ASSUME ApiInv, A!Observe, NEW c \in a_Client, NEW next \in ReqRecord,
         a_req' = [a_req EXCEPT ![c] = next],
         next.at \in Asked => \E m \in a_Master : next.to = {m},
         next.route.led /\ "ha" \in a_Enabled =>
           /\ next.at \in {"lead", "feature", "do"} => "writable" \in a_seen'[c]
           /\ next.at \in {"feature", "do"} => "leads" \in a_seen'[c]
  PROVE  ApiInv'
<1>1. ApiTypes /\ OneMaster /\ PassedSeen  BY DEF ApiInv
<1>2. /\ a_req' \in [a_Client -> ReqRecord]
      /\ a_req'[c] = next
      /\ \A d \in a_Client \ {c} : a_req'[d] = a_req[d]
  BY <1>1 DEF ApiTypes
<1>3. OneMaster'  BY <1>1, <1>2 DEF OneMaster
<1>4. PassedSeen'
  <2>1. ASSUME NEW d \in a_Client \ {c}, a_req[d].at \in {"lead", "feature", "do"}
        PROVE  a_seen[d] \subseteq a_seen'[d]
    BY <1>1, <1>2, <2>1, SeenKept DEF Asked
  <2> QED  BY <1>1, <1>2, <2>1 DEF PassedSeen
<1> QED  BY <1>2, <1>3, <1>4, SeenKept DEF ApiInv, ApiTypes

(* An answer, and the end of a request, leave nothing to show. *)
LEMMA Answered ==
  ASSUME ApiInv, A!Observe, NEW c \in a_Client, NEW code \in Nat, A!Answers(c, code)
  PROVE  ApiInv'
<1> DEFINE next == [A!NoRequest EXCEPT !.at = "answered", !.answer = code]
<1>1. next \in ReqRecord /\ next.at = "answered"
  BY NothingAsked DEF ReqRecord
<1>2. a_req' = [a_req EXCEPT ![c] = next]  BY DEF A!Answers
<1> HIDE DEF next
<1> QED  BY <1>1, <1>2, OneGoes DEF Asked

(* One question is passed. *)
LEMMA Passed ==
  ASSUME ApiInv, A!Observe, NEW c \in a_Client, a_req[c].at \in Asked,
         NEW at \in Asked, A!Goes(c, at),
         a_req[c].route.led /\ "ha" \in a_Enabled =>
           /\ at \in {"lead", "feature", "do"} => "writable" \in a_seen'[c]
           /\ at \in {"feature", "do"} => "leads" \in a_seen'[c]
  PROVE  ApiInv'
<1> DEFINE next == [a_req[c] EXCEPT !.at = at]
<1>1. a_req[c] \in ReqRecord  BY DEF ApiInv, ApiTypes
<1>2. next \in ReqRecord /\ next.at = at /\ next.to = a_req[c].to
      /\ next.route = a_req[c].route
  BY <1>1 DEF ReqRecord
<1>3. a_req' = [a_req EXCEPT ![c] = next]  BY DEF A!Goes
<1>4. \E m \in a_Master : a_req[c].to = {m}  BY DEF ApiInv, OneMaster
<1> HIDE DEF next
<1> QED  BY <1>2, <1>3, <1>4, OneGoes

LEMMA RequestGoes ==
  ASSUME ApiInv, A!Observe, NEW c \in a_Client,
         A!Sends(c) \/ A!Readyz(c) \/ A!Handle(c)
  PROVE  ApiInv'
<1>1. ApiTypes /\ OneMaster /\ PassedSeen  BY DEF ApiInv
<1>2. a_req[c].route \in Routes  BY <1>1 DEF ApiTypes, ReqRecord
<1>3. CASE A!Sends(c)
  <2>1. PICK m \in a_Master, k \in a_Key, route \in Routes :
          a_req' = [a_req EXCEPT ![c] = [A!NoRequest EXCEPT
                      !.at = "scope", !.to = {m}, !.key = {k}, !.route = route]]
    BY <1>3 DEF A!Sends, Routes
  <2> DEFINE next == [A!NoRequest EXCEPT
                        !.at = "scope", !.to = {m}, !.key = {k}, !.route = route]
  <2>2. next \in ReqRecord /\ next.at = "scope" /\ next.to = {m}
    BY NothingAsked DEF ReqRecord, Asked
  <2>3. a_req' = [a_req EXCEPT ![c] = next]  BY <2>1
  <2> HIDE DEF next
  <2> QED  BY <2>2, <2>3, OneGoes
<1>4. CASE A!Readyz(c)
  BY <1>4, Answered DEF A!Readyz
<1>5. CASE A!Received(c)
  BY <1>5, NothingAsked, OneGoes DEF A!Received, Asked
<1>6. CASE A!CheckAuth(c)
  <2>1. a_req[c].at = "scope"  BY <1>6 DEF A!CheckAuth
  <2> DEFINE granted == UNION {a_Scopes[k] : k \in a_req[c].key}
             code == IF granted = {} THEN 401 ELSE 403
  <2>2. A!Goes(c, "guard") \/ A!Answers(c, code)
    BY <1>6 DEF A!CheckAuth
  <2>3. code \in Nat  OBVIOUS
  <2> HIDE DEF code
  <2> QED  BY <2>1, <2>2, <2>3, Passed, Answered DEF Asked
<1>7. CASE A!CheckGuard(c)
  <2>1. a_req[c].at = "guard"  BY <1>7 DEF A!CheckGuard
  <2>2. CASE \E code \in Nat : A!Answers(c, code)
    BY <2>2, Answered
  <2>3. CASE /\ a_req[c].route.led /\ "ha" \in a_Enabled
             /\ ~(a_req[c].to \subseteq a_readonly) /\ A!Goes(c, "lead")
    <3>1. a_req'[c].at = "lead"
      BY <1>1, <2>3 DEF A!Goes, ApiTypes, ReqRecord
    <3>2. "writable" \in a_seen'[c]
      BY <1>1, <2>1, <2>3, <3>1, SeenKept DEF Asked
    <3> QED  BY <2>1, <2>3, <3>2, Passed DEF Asked
  <2>4. CASE ~(a_req[c].route.led /\ "ha" \in a_Enabled) /\ A!Goes(c, "feature")
    BY <2>1, <2>4, Passed DEF Asked
  <2> QED  BY <1>7, <2>2, <2>3, <2>4 DEF A!CheckGuard
<1>8. CASE A!CheckLeader(c)
  <2>1. a_req[c].at = "lead"  BY <1>8 DEF A!CheckLeader
  <2>2. CASE \E code \in Nat : A!Answers(c, code)
    BY <2>2, Answered
  <2>3. CASE a_req[c].to \subseteq a_leads /\ A!Goes(c, "feature")
    <3>1. a_req'[c].at = "feature"
      BY <1>1, <2>3 DEF A!Goes, ApiTypes, ReqRecord
    <3>2. "leads" \in a_seen'[c] /\ a_seen[c] \subseteq a_seen'[c]
      BY <1>1, <2>1, <2>3, <3>1, SeenKept DEF Asked
    <3> QED  BY <1>1, <2>1, <2>3, <3>2, Passed DEF Asked, PassedSeen
  <2> QED  BY <1>8, <2>2, <2>3 DEF A!CheckLeader
<1>9. CASE A!CheckFeature(c)
  <2>1. a_req[c].at = "feature"  BY <1>9 DEF A!CheckFeature
  <2>2. CASE \E code \in Nat : A!Answers(c, code)
    BY <2>2, Answered
  <2>3. CASE A!Goes(c, "do")
    <3>1. a_req'[c].at = "do"
      BY <1>1, <2>3 DEF A!Goes, ApiTypes, ReqRecord
    <3>2. a_seen[c] \subseteq a_seen'[c]
      BY <1>1, <2>1, <3>1, SeenKept DEF Asked
    <3> QED  BY <1>1, <2>1, <2>3, <3>2, Passed DEF Asked, PassedSeen
  <2> QED  BY <1>9, <2>2, <2>3 DEF A!CheckFeature
<1>10. CASE A!Perform(c)
  <2>1. a_req[c].route.refusal \in Nat
    BY <1>2, RegistryRoutesLed DEF Sound
  <2>2. A!Answers(c, 400) \/ A!Answers(c, 200) \/ A!Answers(c, a_req[c].route.refusal)
    BY <1>10 DEF A!Perform
  <2> QED  BY <2>1, <2>2, Answered
<1> QED  BY <1>3, <1>4, <1>5, <1>6, <1>7, <1>8, <1>9, <1>10 DEF A!Handle

LEMMA ApiInductive ==
  ASSUME ApiInv, [A!Next]_avars
  PROVE  ApiInv'
<1>1. CASE UNCHANGED avars
  BY <1>1 DEF avars, ApiInv, ApiTypes, OneMaster, PassedSeen
<1>2. CASE A!Next
  <2>1. A!Observe  BY <1>2 DEF A!Next
  <2>2. CASE \E m \in a_Master :
               A!RoleChanges(m) \/ A!GuardChanges(m) \/ A!StartsOrStops(m)
    BY <2>1, <2>2, NobodyGoes DEF A!RoleChanges, A!GuardChanges, A!StartsOrStops
  <2>3. CASE \E c \in a_Client : A!Sends(c) \/ A!Readyz(c) \/ A!Handle(c)
    BY <2>1, <2>3, RequestGoes
  <2> QED  BY <1>2, <2>2, <2>3 DEF A!Next
<1> QED  BY <1>1, <1>2

(* Only Perform changes a component, and by then every question was passed.   *)
LEMMA ChangesLed ==
  ASSUME ApiInv, A!Next
  PROVE  A!WriteLed
<1>1. ApiTypes /\ OneMaster /\ PassedSeen  BY DEF ApiInv
<1>2. SUFFICES ASSUME NEW m \in a_Master, <<m, "registry">> \in a_changed' \ a_changed,
                      "ha" \in a_Enabled
      PROVE  \E c \in a_Client : /\ a_req[c].at = "do" /\ a_req[c].to = {m}
                                 /\ a_seen[c] = {"writable", "leads"}
  BY DEF A!WriteLed
<1>3. PICK c \in a_Client : A!Perform(c)
  BY <1>2
     DEF A!Next, A!RoleChanges, A!GuardChanges, A!StartsOrStops, A!Sends, A!Readyz,
         A!Handle, A!Received, A!CheckAuth, A!CheckGuard, A!CheckLeader, A!CheckFeature
<1> DEFINE route == a_req[c].route
<1>4. /\ a_req[c].at = "do" /\ route.writes
      /\ a_changed' = a_changed \cup {<<n, route.feature>> : n \in a_req[c].to}
  BY <1>2, <1>3 DEF A!Perform
<1>5. m \in a_req[c].to /\ route.feature = "registry"
  BY <1>2, <1>4
<1>6. route \in Routes  BY <1>1 DEF ApiTypes, ReqRecord
<1>7. route.led  BY <1>4, <1>5, <1>6, RegistryRoutesLed DEF Sound
<1>8. "writable" \in a_seen[c] /\ "leads" \in a_seen[c]
  BY <1>1, <1>2, <1>4, <1>7 DEF PassedSeen
<1>9. a_seen[c] = {"writable", "leads"}  BY <1>1, <1>8 DEF ApiTypes
<1>10. a_req[c].to = {m}  BY <1>1, <1>4, <1>5 DEF OneMaster, Asked
<1> QED  BY <1>4, <1>9, <1>10

-----------------------------------------------------------------------------
(* Retries.                                                                *)

CallTypes == [at : {"idle", "try", "again", "failed"}, server : r_Server \cup {None},
              tried : Seq(r_Server), most : {0, r_MaxRetries}]

RetryTypes ==
  /\ r_call \in [r_Caller -> CallTypes]
  /\ r_stayed \in [r_Caller -> SUBSET r_Server]

(* Between two requests nothing has been tried. *)
NothingTried == \A c \in r_Caller : r_call[c].at = "idle" => r_call[c].tried = <<>>

RetryInv == RetryTypes /\ NothingTried /\ R!NoWastedRetry

(* The attempts of one request: none is wasted. *)
Spent(tried, stayed) ==
  Cardinality(ToSet(tried)) = Len(tried) \/ stayed \subseteq ToSet(tried)

LEMMA SpentIs == R!NoWastedRetry <=> \A c \in r_Caller : Spent(r_call[c].tried, r_stayed[c])
<1>1. \A S : R!Cardinality(S) = Cardinality(S)
  BY DEF R!Cardinality, Cardinality
<1> QED  BY <1>1 DEF R!NoWastedRetry, Spent, R!ToSet, ToSet

LEMMA SequenceSets ==
  ASSUME NEW S, NEW q \in Seq(S)
  PROVE  /\ IsFiniteSet(ToSet(q)) /\ Cardinality(ToSet(q)) \in Nat /\ Len(q) \in Nat
         /\ ToSet(<<>>) = {} /\ Cardinality({}) = 0
         /\ \A e \in S : ToSet(Append(q, e)) = ToSet(q) \cup {e}
         /\ \A e \in S : Append(q, e) \in Seq(S) /\ Len(Append(q, e)) = Len(q) + 1
<1>1. ToSet(<<>>) = {} /\ Cardinality({}) = 0
  BY FS_EmptySet DEF ToSet
<1>2. q \in Surjection(1 .. Len(q), ToSet(q))
  <2>1. DOMAIN q = 1 .. Len(q) /\ q \in [1 .. Len(q) -> ToSet(q)]
    BY DEF ToSet
  <2> QED  BY <2>1 DEF Surjection, ToSet
<1>3. IsFiniteSet(1 .. Len(q))  BY FS_Interval
<1>4. IsFiniteSet(ToSet(q))  BY <1>2, <1>3, FS_Surjection
<1>5. Cardinality(ToSet(q)) \in Nat  BY <1>4, FS_CardinalityType
<1>6. ASSUME NEW e \in S
      PROVE  /\ ToSet(Append(q, e)) = ToSet(q) \cup {e}
             /\ Append(q, e) \in Seq(S) /\ Len(Append(q, e)) = Len(q) + 1
  <2>1. DOMAIN q = 1 .. Len(q) /\ DOMAIN Append(q, e) = 1 .. Len(q) + 1
    OBVIOUS
  <2>2. /\ \A i \in 1 .. Len(q) : Append(q, e)[i] = q[i]
        /\ Append(q, e)[Len(q) + 1] = e
    OBVIOUS
  <2>3. 1 .. Len(q) + 1 = (1 .. Len(q)) \cup {Len(q) + 1}  OBVIOUS
  <2> QED  BY <2>1, <2>2, <2>3 DEF ToSet
<1> QED  BY <1>1, <1>4, <1>5, <1>6

LEMMA RetryStart == R!Init => RetryInv
<1> SUFFICES ASSUME R!Init  PROVE RetryInv  OBVIOUS
<1>1. RetryTypes /\ NothingTried
  BY DEF R!Init, R!Idle, RetryTypes, CallTypes, NothingTried
<1>2. ToSet(<<>>) = {} /\ Cardinality({}) = 0  BY FS_EmptySet DEF ToSet
<1>3. R!NoWastedRetry
  BY <1>1, <1>2, SpentIs DEF R!Init, R!Idle, Spent
<1> QED  BY <1>1, <1>3 DEF RetryInv

(* One more attempt, on a server that was not tried, or when all are.        *)
LEMMA OneMore ==
  ASSUME NEW q \in Seq(r_Server), NEW e \in r_Server, NEW stayed, NEW fewer,
         Spent(q, stayed), fewer \subseteq stayed,
         e \notin ToSet(q) \/ fewer \subseteq ToSet(q)
  PROVE  Spent(Append(q, e), fewer)
<1>1. /\ ToSet(Append(q, e)) = ToSet(q) \cup {e} /\ IsFiniteSet(ToSet(q))
      /\ Len(Append(q, e)) = Len(q) + 1
      /\ Cardinality(ToSet(q)) \in Nat /\ Len(q) \in Nat
  BY SequenceSets
<1>2. CASE fewer \subseteq ToSet(q)  BY <1>1, <1>2 DEF Spent
<1>3. CASE e \notin ToSet(q) /\ ~(stayed \subseteq ToSet(q))
  <2>1. Cardinality(ToSet(q)) = Len(q)  BY <1>3 DEF Spent
  <2>2. Cardinality(ToSet(q) \cup {e}) = Cardinality(ToSet(q)) + 1
    BY <1>1, <1>3, FS_AddElement
  <2> QED  BY <1>1, <2>1, <2>2 DEF Spent
<1> QED  BY <1>2, <1>3

Since(c) ==
  IF r_call'[c].at = "idle" THEN r_Server
  ELSE r_stayed[c] \cap ToSet(r_inner) \cap ToSet(r_inner')

(* What holds of each call holds of all. *)
LEMMA RetryKept ==
  ASSUME RetryTypes, r_stayed' = [c \in r_Caller |-> Since(c)],
         r_call' \in [r_Caller -> CallTypes],
         \A c \in r_Caller :
           /\ r_call'[c].at = "idle" => r_call'[c].tried = <<>>
           /\ Spent(r_call'[c].tried, Since(c))
  PROVE  RetryInv'
<1>1. \A c \in r_Caller : r_stayed'[c] = Since(c) /\ Since(c) \subseteq r_Server
  BY DEF Since, RetryTypes
<1>2. RetryTypes'  BY <1>1 DEF RetryTypes
<1>3. R!NoWastedRetry' <=> \A c \in r_Caller : Spent(r_call'[c].tried, r_stayed'[c])
  <2>1. \A S : R!Cardinality(S) = Cardinality(S)
    BY DEF R!Cardinality, Cardinality
  <2> QED  BY <2>1 DEF R!NoWastedRetry, Spent, R!ToSet, ToSet
<1> QED  BY <1>1, <1>2, <1>3 DEF RetryInv, NothingTried

(* get_server_excluding: a server that was tried only if all were.           *)
LEMMA Excluded ==
  ASSUME NEW tried, NEW s, NEW stayed, R!GetServerExcluding(tried, s)
  PROVE  \/ s \notin ToSet(tried)
         \/ stayed \cap ToSet(r_inner) \cap ToSet(r_inner') \subseteq ToSet(tried)
<1>1. CASE R!Emergency(s)
  <2>1. r_inner = <<>>  BY <1>1 DEF R!Emergency
  <2>2. ToSet(r_inner) = {}  BY <2>1 DEF ToSet
  <2> QED  BY <2>2
<1>2. CASE ~R!Emergency(s)
  BY <1>2 DEF R!GetServerExcluding, R!ToSet, ToSet
<1> QED  BY <1>1, <1>2

LEMMA RetryInductive ==
  ASSUME RetryInv, [R!Next]_rvars
  PROVE  RetryInv'
<1>1. RetryTypes /\ NothingTried /\ R!NoWastedRetry
      /\ \A c \in r_Caller : Spent(r_call[c].tried, r_stayed[c])
  BY SpentIs DEF RetryInv
<1>2. CASE UNCHANGED rvars
  BY <1>1, <1>2 DEF rvars, RetryInv, RetryTypes, NothingTried, R!NoWastedRetry
<1>3. CASE R!Next
  <2>1. r_stayed' = [c \in r_Caller |-> Since(c)]
    BY <1>3 DEF R!Next, Since, R!ToSet, ToSet
  <2>2. \A stayed : Spent(<<>>, stayed)
    BY FS_EmptySet DEF Spent, ToSet
  <2>3. ASSUME NEW c \in r_Caller, r_call[c].at # "idle"
        PROVE  r_call'[c].at = "idle" \/ Since(c) \subseteq r_stayed[c]
    BY DEF Since
  <2>4. ASSUME NEW c \in r_Caller, r_call'[c] = r_call[c]
        PROVE  /\ r_call'[c].at = "idle" => r_call'[c].tried = <<>>
               /\ Spent(r_call'[c].tried, Since(c))
    <3>1. CASE r_call[c].at = "idle"
      BY <1>1, <2>2, <2>4, <3>1 DEF NothingTried
    <3>2. CASE r_call[c].at # "idle"
      BY <1>1, <2>3, <2>4, <3>2 DEF Spent
    <3> QED  BY <3>1, <3>2
  <2>5. CASE r_call' = r_call
    BY <1>1, <2>1, <2>4, <2>5, RetryKept DEF RetryTypes
  <2>6. ASSUME NEW c \in r_Caller, NEW next \in CallTypes,
               r_call' = [r_call EXCEPT ![c] = next],
               next.at = "idle" => next.tried = <<>>,
               Spent(next.tried, Since(c))
        PROVE  RetryInv'
    <3>1. /\ r_call' \in [r_Caller -> CallTypes] /\ r_call'[c] = next
          /\ \A d \in r_Caller \ {c} : r_call'[d] = r_call[d]
      BY <1>1, <2>6 DEF RetryTypes
    <3>2. ASSUME NEW d \in r_Caller
          PROVE  /\ r_call'[d].at = "idle" => r_call'[d].tried = <<>>
                 /\ Spent(r_call'[d].tried, Since(d))
      BY <2>4, <2>6, <3>1
    <3> QED  BY <1>1, <2>1, <3>1, <3>2, RetryKept
  <2>7. ASSUME NEW c \in r_Caller, r_call' = [r_call EXCEPT ![c] = R!Idle]
        PROVE  RetryInv'
    <3>1. R!Idle \in CallTypes /\ R!Idle.tried = <<>>  BY DEF R!Idle, CallTypes
    <3> QED  BY <2>2, <2>6, <2>7, <3>1
  <2>8. ASSUME NEW c \in r_Caller, NEW at \in {"again", "failed"},
               r_call[c].at # "idle", r_call' = [r_call EXCEPT ![c].at = at]
        PROVE  RetryInv'
    <3> DEFINE next == [r_call[c] EXCEPT !.at = at]
    <3>1. r_call[c] \in CallTypes  BY <1>1 DEF RetryTypes
    <3>2. next \in CallTypes /\ next.at = at /\ next.tried = r_call[c].tried
      BY <3>1 DEF CallTypes
    <3>3. r_call' = [r_call EXCEPT ![c] = next]  BY <2>8
    <3>4. r_call'[c] = next  BY <1>1, <3>3 DEF RetryTypes
    <3> HIDE DEF next
    <3>5. Since(c) \subseteq r_stayed[c]  BY <2>3, <2>8, <3>2, <3>4
    <3>6. Spent(next.tried, Since(c))  BY <1>1, <3>2, <3>5 DEF Spent
    <3> QED  BY <2>6, <3>2, <3>3, <3>6
  <2>9. ASSUME NEW c \in r_Caller, R!Begin(c)  PROVE RetryInv'
    <3>1. PICK most \in {0, r_MaxRetries}, s \in r_Server \cup {None} :
            r_call' = [r_call EXCEPT ![c] =
              [at |-> IF s = None THEN "failed" ELSE "try", server |-> s,
               tried |-> IF s = None THEN <<>> ELSE <<s>>, most |-> most]]
      BY <2>9 DEF R!Begin
    <3> DEFINE next ==
              [at |-> IF s = None THEN "failed" ELSE "try", server |-> s,
               tried |-> IF s = None THEN <<>> ELSE <<s>>, most |-> most]
    <3>2. /\ next \in CallTypes /\ next.at # "idle"
          /\ next.tried = IF s = None THEN <<>> ELSE <<s>>
      BY DEF CallTypes
    <3>3. r_call' = [r_call EXCEPT ![c] = next]  BY <3>1
    <3> HIDE DEF next
    <3>4. s # None => Spent(<<s>>, Since(c))
      <4>1. ToSet(<<s>>) = {s} /\ Len(<<s>>) = 1  BY DEF ToSet
      <4>2. Cardinality({s}) = 1  BY FS_Singleton
      <4> QED  BY <4>1, <4>2 DEF Spent
    <3> QED  BY <2>2, <2>6, <3>2, <3>3, <3>4
  <2>10. ASSUME NEW c \in r_Caller, R!Succeed(c) \/ R!Raise(c) \/ R!GiveUp(c)
         PROVE  RetryInv'
    BY <2>7, <2>10 DEF R!Succeed, R!Raise, R!GiveUp
  <2>11. ASSUME NEW c \in r_Caller, R!Fail(c)  PROVE RetryInv'
    BY <2>8, <2>11 DEF R!Fail
  <2>12. ASSUME NEW c \in r_Caller, R!Again(c)  PROVE RetryInv'
    <3> DEFINE q == r_call[c].tried
    <3>1. PICK s \in r_Server \cup {None} :
            R!GetServerExcluding(q, s) /\ R!Tries(c, s)
      BY <2>12 DEF R!Again
    <3>2. r_call[c].at = "again" /\ r_call[c] \in CallTypes /\ q \in Seq(r_Server)
      BY <1>1, <2>12 DEF R!Again, RetryTypes, CallTypes
    <3>3. CASE s = None
      <4>1. r_call' = [r_call EXCEPT ![c].at = "failed"]
        BY <3>1, <3>3 DEF R!Tries
      <4> QED  BY <2>8, <3>2, <4>1
    <3>4. CASE s # None
      <4> DEFINE more == Append(q, s)
                 next == [r_call[c] EXCEPT !.at = "try", !.server = s, !.tried = more]
      <4>1. r_call' = [r_call EXCEPT ![c] = next]
        BY <3>1, <3>4 DEF R!Tries
      <4>2. s \in r_Server /\ more \in Seq(r_Server)  BY <3>2, <3>4, SequenceSets
      <4> HIDE DEF more, q
      <4>3. next \in CallTypes /\ next.at = "try" /\ next.tried = more
        BY <3>2, <4>2 DEF CallTypes
      <4> HIDE DEF next
      <4>4. r_call'[c].at = "try"  BY <1>1, <4>1, <4>3 DEF RetryTypes
      <4>5. Since(c) = r_stayed[c] \cap ToSet(r_inner) \cap ToSet(r_inner')
        BY <4>4 DEF Since
      <4>6. s \notin ToSet(q) \/ Since(c) \subseteq ToSet(q)
        BY <3>1, <4>5, Excluded
      <4>7. Spent(q, r_stayed[c])  BY <1>1 DEF q
      <4>8. Spent(more, Since(c))
        BY <3>2, <4>2, <4>5, <4>6, <4>7, OneMore DEF more
      <4> QED  BY <2>6, <4>1, <4>3, <4>8
    <3> QED  BY <3>3, <3>4
  <2>13. ASSUME NEW c \in r_Caller, R!Request(c)  PROVE RetryInv'
    BY <2>9, <2>10, <2>11, <2>12, <2>13 DEF R!Request
  <2>14. r_call' = r_call \/ \E c \in r_Caller : R!Request(c)
    BY <1>3 DEF R!Next, R!UpdateRamps, R!ClearAffinity, R!Other, R!Moves, R!Recovers,
                R!StartTrafficRamp, R!StopTrafficRamp
  <2> QED  BY <2>5, <2>13, <2>14
<1> QED  BY <1>2, <1>3

-----------------------------------------------------------------------------
(* Hedging: the share of backups exceeds the budget by at most one backup    *)
(* per caller.                                                             *)

LEMMA HedgeCardinality ==
  /\ \A S : H!Cardinality(S) = Cardinality(S)
  /\ \A S : H!IsFiniteSet(S) <=> IsFiniteSet(S)
BY DEF H!Cardinality, Cardinality, H!IsFiniteSet, IsFiniteSet

LEMMA BudgetNumbers ==
  /\ h_Num \in Nat /\ h_Den \in Nat \ {0} /\ h_Free \in Nat \ {0}
  /\ IsFiniteSet(h_Caller)
BY HedgingAssumption, HedgeCardinality DEF H!BudgetAssumption

Budget ==
  LET most == h_hedged + Cardinality(H!Allowed) IN
  most < h_Free \/ (most - Cardinality(h_Caller)) * h_Den < h_Num * h_total

LEMMA BudgetIs == H!HedgeBudget <=> Budget
BY HedgeCardinality DEF H!HedgeBudget, Budget

(* Requests that are counted and have no backup, nor an end, yet.            *)
Counted == {c \in h_Caller : h_at[c] \in {"route", "check", "wait", "backup", "launch"}}

(* A request has at most one backup, and only those launch one that were     *)
(* allowed to.                                                               *)
OnePerRequest == h_hedged + Cardinality(Counted) <= h_total
LaunchAllowed == \A c \in h_Caller : h_at[c] = "launch" => h_ok[c]

HedgeInv == H!TypeOK /\ OnePerRequest /\ LaunchAllowed /\ Budget

LEMMA HedgeNumbers ==
  ASSUME H!TypeOK
  PROVE  /\ h_Num \in Nat /\ h_Den \in Nat /\ h_Free \in Nat /\ h_Free > 0
         /\ Cardinality(h_Caller) \in Nat
         /\ h_total \in Nat /\ h_hedged \in Nat /\ h_throttled \in Nat /\ h_wins \in Nat
BY FS_CardinalityType, BudgetNumbers DEF H!TypeOK

LEMMA CallersCounted ==
  ASSUME NEW S, S \subseteq h_Caller
  PROVE  /\ IsFiniteSet(S) /\ Cardinality(S) \in Nat
         /\ Cardinality(S) <= Cardinality(h_Caller)
BY FS_Subset, FS_CardinalityType, BudgetNumbers

(* Smaller sets have no more members.                                        *)
LEMMA FewerCounted ==
  ASSUME NEW S, S \subseteq h_Caller, NEW T, T \subseteq S
  PROVE  Cardinality(T) <= Cardinality(S)
<1>1. IsFiniteSet(S)  BY CallersCounted
<1> QED  BY <1>1, FS_Subset

LEMMA Products ==
  /\ \A a, b \in Int, d \in Nat : a <= b => a * d <= b * d /\ d * a <= d * b
  /\ \A a \in Int, d \in Nat : a * d \in Int /\ d * a \in Int
OBVIOUS

(* With as many requests and no more backups the budget is kept.             *)
LEMMA BudgetEases ==
  ASSUME NEW most \in Int, NEW less \in Int, less <= most,
         NEW n \in Nat, NEW m \in Nat, n <= m, NEW callers \in Nat,
         most < h_Free \/ (most - callers) * h_Den < h_Num * n
  PROVE  less < h_Free \/ (less - callers) * h_Den < h_Num * m
<1>1. h_Num \in Nat /\ h_Den \in Nat /\ h_Free \in Nat  BY BudgetNumbers
<1>2. CASE most < h_Free  BY <1>1, <1>2
<1>3. CASE (most - callers) * h_Den < h_Num * n
  <2>1. (less - callers) * h_Den <= (most - callers) * h_Den
    BY <1>1, Products
  <2>2. h_Num * n <= h_Num * m  BY <1>1, Products
  <2>3. /\ (less - callers) * h_Den \in Int /\ (most - callers) * h_Den \in Int
        /\ h_Num * n \in Int /\ h_Num * m \in Int
    BY <1>1, Products
  <2> QED  BY <1>3, <2>1, <2>2, <2>3
<1> QED  BY <1>2, <1>3

LEMMA HedgeTypesKept ==
  ASSUME H!TypeOK, [H!Next]_hvars
  PROVE  H!TypeOK'
<1>1. CASE UNCHANGED hvars
  BY <1>1 DEF hvars, H!counters, H!futures, H!TypeOK
<1>2. ASSUME NEW c \in h_Caller, H!Request(c)  PROVE H!TypeOK'
  <2>1. CASE H!Count(c)  BY <2>1 DEF H!Count, H!Goes, H!futures, H!TypeOK, H!Step
  <2>2. CASE H!Route(c)
    BY <2>2 DEF H!Route, H!Goes, H!Ends, H!counters, H!futures, H!TypeOK, H!Step, H!Future
  <2>3. CASE H!Check(c)
    <3>1. H!WithinBudget \in BOOLEAN  BY DEF H!WithinBudget
    <3> QED  BY <2>3, <3>1 DEF H!Check, H!Goes, H!TypeOK, H!Step, H!Future
  <2>4. CASE H!Finish(c)  BY <2>4 DEF H!Finish, H!counters, H!TypeOK, H!Future
  <2>5. CASE H!Wait(c)
    BY <2>5 DEF H!Wait, H!Goes, H!Ends, H!counters, H!futures, H!TypeOK, H!Step, H!Future
  <2>6. CASE H!Backup(c)
    BY <2>6 DEF H!Backup, H!Goes, H!counters, H!futures, H!TypeOK, H!Step
  <2>7. CASE H!Alone(c)
    BY <2>7 DEF H!Alone, H!Goes, H!Ends, H!counters, H!TypeOK, H!Step, H!Future
  <2>8. CASE H!Launch(c)  BY <2>8 DEF H!Launch, H!Goes, H!TypeOK, H!Step, H!Future
  <2>9. CASE H!Race(c)  BY <2>9 DEF H!Race, H!Goes, H!Ends, H!TypeOK, H!Step, H!Future
  <2> QED  BY <1>2, <2>1, <2>2, <2>3, <2>4, <2>5, <2>6, <2>7, <2>8, <2>9 DEF H!Request
<1> QED  BY <1>1, <1>2 DEF H!Next

(* Steps that neither count a request nor a backup, and allow none.          *)
LEMMA NothingCounted ==
  ASSUME HedgeInv, H!TypeOK', h_hedged' = h_hedged, h_total' = h_total,
         Counted' \subseteq Counted, H!Allowed' \subseteq H!Allowed, LaunchAllowed'
  PROVE  HedgeInv'
<1>1. H!TypeOK /\ OnePerRequest /\ Budget  BY DEF HedgeInv
<1>2. Counted \subseteq h_Caller /\ H!Allowed \subseteq h_Caller  BY DEF Counted, H!Allowed
<1>3. /\ Cardinality(Counted') <= Cardinality(Counted)
      /\ Cardinality(H!Allowed') <= Cardinality(H!Allowed)
  BY <1>2, FewerCounted
<1>4. /\ Cardinality(Counted') \in Nat /\ Cardinality(Counted) \in Nat
      /\ Cardinality(H!Allowed') \in Nat /\ Cardinality(H!Allowed) \in Nat
  BY <1>2, CallersCounted
<1>5. OnePerRequest'
  BY <1>1, <1>3, <1>4, HedgeNumbers DEF OnePerRequest
<1>6. Budget'
  <2> DEFINE most == h_hedged + Cardinality(H!Allowed)
             less == h_hedged + Cardinality(H!Allowed')
  <2>1. most \in Int /\ less \in Int /\ less <= most
    BY <1>1, <1>3, <1>4, HedgeNumbers
  <2>2. most < h_Free \/ (most - Cardinality(h_Caller)) * h_Den < h_Num * h_total
    BY <1>1 DEF Budget
  <2> HIDE DEF most, less
  <2>3. h_total \in Nat /\ h_total <= h_total /\ Cardinality(h_Caller) \in Nat
    BY <1>1, HedgeNumbers
  <2>4. less < h_Free \/ (less - Cardinality(h_Caller)) * h_Den < h_Num * h_total
    BY <2>1, <2>2, <2>3, BudgetEases
  <2>5. h_hedged' + Cardinality(H!Allowed') = less  BY DEF less
  <2>6. Budget' = LET most2 == h_hedged' + Cardinality(H!Allowed') IN
          most2 < h_Free \/ (most2 - Cardinality(h_Caller)) * h_Den < h_Num * h_total'
    BY DEF Budget
  <2> QED  BY <2>4, <2>5, <2>6
<1> QED  BY <1>5, <1>6 DEF HedgeInv

LEMMA HedgeStart ==
  ASSUME H!Init
  PROVE  HedgeInv
<1>1. H!TypeOK  BY DEF H!Init, H!TypeOK, H!Step, H!Future
<1>2. Counted = {} /\ H!Allowed = {}  BY DEF H!Init, Counted, H!Allowed
<1>3. OnePerRequest /\ Budget
  BY <1>1, <1>2, HedgeNumbers, FS_EmptySet DEF H!Init, OnePerRequest, Budget
<1> QED  BY <1>1, <1>3 DEF H!Init, HedgeInv, LaunchAllowed

LEMMA HedgeInductive ==
  ASSUME HedgeInv, [H!Next]_hvars
  PROVE  HedgeInv'
<1>1. H!TypeOK /\ OnePerRequest /\ LaunchAllowed /\ Budget /\ H!TypeOK'
  BY HedgeTypesKept DEF HedgeInv
<1>2. Counted \subseteq h_Caller /\ H!Allowed \subseteq h_Caller /\ H!Allowed \subseteq Counted
  BY DEF Counted, H!Allowed
<1>3. /\ Cardinality(Counted) \in Nat /\ Cardinality(H!Allowed) \in Nat
      /\ IsFiniteSet(Counted) /\ IsFiniteSet(H!Allowed)
  BY <1>2, CallersCounted
<1>4. CASE UNCHANGED hvars
  BY <1>1, <1>4, NothingCounted
     DEF hvars, Counted, H!Allowed, LaunchAllowed
<1>5. ASSUME NEW c \in h_Caller, H!Count(c)  PROVE HedgeInv'
  <2>1. Counted' = Counted \cup {c} /\ c \notin Counted
    BY <1>1, <1>5 DEF H!Count, H!Goes, Counted, H!TypeOK
  <2>2. H!Allowed' = H!Allowed /\ LaunchAllowed'
    BY <1>1, <1>5 DEF H!Count, H!Goes, H!Allowed, H!TypeOK, LaunchAllowed
  <2>3. Cardinality(Counted') = Cardinality(Counted) + 1
    BY <1>3, <2>1, FS_AddElement
  <2>4. h_total' = h_total + 1 /\ h_hedged' = h_hedged  BY <1>5 DEF H!Count
  <2>5. OnePerRequest'
    BY <1>1, <1>3, <2>3, <2>4, HedgeNumbers DEF OnePerRequest
  <2>6. Budget'
    <3> DEFINE most == h_hedged + Cardinality(H!Allowed)
    <3>1. most \in Int  BY <1>1, <1>3, HedgeNumbers
    <3>2. most < h_Free \/ (most - Cardinality(h_Caller)) * h_Den < h_Num * h_total
      BY <1>1 DEF Budget
    <3> HIDE DEF most
    <3>3. most < h_Free \/ (most - Cardinality(h_Caller)) * h_Den < h_Num * (h_total + 1)
      BY <1>1, <3>1, <3>2, BudgetEases, HedgeNumbers
    <3> QED  BY <2>2, <2>4, <3>3 DEF most, Budget
  <2> QED  BY <1>1, <2>2, <2>5, <2>6 DEF HedgeInv
<1>6. ASSUME NEW c \in h_Caller, H!Check(c)  PROVE HedgeInv'
  <2>1. Counted' = Counted /\ h_total' = h_total /\ h_hedged' = h_hedged /\ LaunchAllowed'
    BY <1>1, <1>6 DEF H!Check, H!Goes, Counted, H!TypeOK, LaunchAllowed
  <2>2. CASE ~H!WithinBudget
    <3>1. H!Allowed' \subseteq H!Allowed
      BY <1>1, <1>6, <2>2 DEF H!Check, H!Goes, H!Allowed, H!TypeOK
    <3> QED  BY <1>1, <2>1, <3>1, NothingCounted
  <2>3. CASE H!WithinBudget
    <3>1. H!Allowed' \subseteq Counted
      BY <2>1 DEF H!Allowed, Counted
    <3>2. /\ Cardinality(H!Allowed') \in Nat
          /\ Cardinality(H!Allowed') <= Cardinality(h_Caller)
          /\ Cardinality(H!Allowed') <= Cardinality(Counted)
      BY <1>2, <3>1, CallersCounted, FewerCounted
    <3>3. OnePerRequest'
      BY <1>1, <2>1 DEF OnePerRequest
    <3>4. Budget'
      <4> DEFINE most == h_hedged + Cardinality(H!Allowed')
      <4>1. CASE h_total < h_Free
        <5>1. most < h_Free
          BY <1>1, <1>3, <3>2, <4>1, HedgeNumbers DEF OnePerRequest
        <5> QED  BY <2>1, <5>1 DEF Budget
      <4>2. CASE h_hedged * h_Den < h_Num * h_total
        <5>1. most - Cardinality(h_Caller) \in Int /\ most - Cardinality(h_Caller) <= h_hedged
          BY <1>1, <3>2, HedgeNumbers
        <5> HIDE DEF most
        <5>2. (most - Cardinality(h_Caller)) * h_Den <= h_hedged * h_Den
          BY <1>1, <5>1, Products, HedgeNumbers
        <5>3. /\ (most - Cardinality(h_Caller)) * h_Den \in Int /\ h_hedged * h_Den \in Int
              /\ h_Num * h_total \in Int
          BY <1>1, <5>1, Products, HedgeNumbers
        <5>4. (most - Cardinality(h_Caller)) * h_Den < h_Num * h_total
          BY <4>2, <5>2, <5>3
        <5> QED  BY <2>1, <5>4 DEF most, Budget
      <4> QED  BY <2>3, <4>1, <4>2 DEF H!WithinBudget
    <3> QED  BY <1>1, <2>1, <3>3, <3>4 DEF HedgeInv
  <2> QED  BY <2>2, <2>3
<1>7. ASSUME NEW c \in h_Caller, H!Launch(c)  PROVE HedgeInv'
  <2>1. c \in Counted /\ Counted' = Counted \ {c}
    BY <1>1, <1>7 DEF H!Launch, H!Goes, Counted, H!TypeOK
  <2>2. c \in H!Allowed /\ H!Allowed' = H!Allowed \ {c} /\ LaunchAllowed'
    BY <1>1, <1>7 DEF H!Launch, H!Goes, H!Allowed, H!TypeOK, LaunchAllowed
  <2>3. /\ Cardinality(Counted') = Cardinality(Counted) - 1
        /\ Cardinality(H!Allowed') = Cardinality(H!Allowed) - 1
    BY <1>3, <2>1, <2>2, FS_RemoveElement
  <2>4. h_hedged' = h_hedged + 1 /\ h_total' = h_total  BY <1>7 DEF H!Launch
  <2>5. OnePerRequest'
    BY <1>1, <1>3, <2>3, <2>4, HedgeNumbers DEF OnePerRequest
  <2>6. h_hedged' + Cardinality(H!Allowed') = h_hedged + Cardinality(H!Allowed)
    BY <1>1, <1>3, <2>3, <2>4, HedgeNumbers
  <2>7. Budget'
    BY <1>1, <2>4, <2>6 DEF Budget
  <2> QED  BY <1>1, <2>2, <2>5, <2>7 DEF HedgeInv
<1>8. ASSUME NEW c \in h_Caller, H!Route(c) \/ H!Finish(c) \/ H!Wait(c) \/ H!Alone(c) \/ H!Race(c)
      PROVE  HedgeInv'
  <2>1. h_hedged' = h_hedged /\ h_total' = h_total
    BY <1>8 DEF H!Route, H!Finish, H!Wait, H!Alone, H!Race, H!Ends, H!counters
  <2>2. \/ UNCHANGED <<h_at, h_ok>>
        \/ /\ h_at' = [h_at EXCEPT ![c] = "idle"]
           /\ h_ok' = [h_ok EXCEPT ![c] = FALSE]
        \/ h_at[c] = "route" /\ h_at' = [h_at EXCEPT ![c] = "check"] /\ h_ok' = h_ok
        \/ h_at[c] = "wait" /\ h_at' = [h_at EXCEPT ![c] = "backup"] /\ h_ok' = h_ok
    BY <1>8 DEF H!Route, H!Finish, H!Wait, H!Alone, H!Race, H!Ends, H!Goes
  <2>3. Counted' \subseteq Counted /\ H!Allowed' \subseteq H!Allowed /\ LaunchAllowed'
    BY <1>1, <2>2 DEF Counted, H!Allowed, LaunchAllowed, H!TypeOK
  <2> QED  BY <1>1, <2>1, <2>3, NothingCounted
<1>9. ASSUME NEW c \in h_Caller, H!Backup(c)  PROVE HedgeInv'
  <2>1. Counted' \subseteq Counted /\ H!Allowed' \subseteq H!Allowed /\ LaunchAllowed'
    BY <1>1, <1>9 DEF H!Backup, H!Goes, H!futures, Counted, H!Allowed, LaunchAllowed, H!TypeOK
  <2> QED  BY <1>1, <1>9, <2>1, NothingCounted DEF H!Backup, H!counters
<1> QED  BY <1>4, <1>5, <1>6, <1>7, <1>8, <1>9 DEF H!Next, H!Request

-----------------------------------------------------------------------------
(* The services together: each moves as by itself, or stands still.          *)

LEMMA Apart ==
  ASSUME [SumNext]_all
  PROVE  /\ [R!Next]_rvars /\ [K!Next]_kvars /\ [H!Next]_hvars /\ [Q!Next]_qvars
         /\ [C!Next]_cvars /\ [A!Next]_avars /\ [Next]_vars
<1>1. CASE UNCHANGED all  BY <1>1 DEF all
<1>2. CASE PlacementStep  BY <1>2 DEF PlacementStep, Only
<1>3. CASE RetryStep  BY <1>3 DEF RetryStep, Only
<1>4. CASE ChannelStep  BY <1>4 DEF ChannelStep, Only
<1>5. CASE HedgeStep  BY <1>5 DEF HedgeStep, Only
<1>6. CASE RemedyStep  BY <1>6 DEF RemedyStep, Only
<1>7. CASE SaveStep  BY <1>7 DEF SaveStep, Only
<1>8. CASE RequestStep  BY <1>8 DEF RequestStep, Only
<1> QED  BY <1>1, <1>2, <1>3, <1>4, <1>5, <1>6, <1>7, <1>8 DEF SumNext

(* Who is active stays so, and is the one that steps. *)
LEMMA ApiSteps ==
  ASSUME SumNext, active = "api"
  PROVE  A!Next
BY DEF SumNext, PlacementStep, RetryStep, ChannelStep, HedgeStep, RemedyStep, SaveStep,
       RequestStep, Only

(* Composing the services takes nothing away from any of them, and lets none *)
(* do what its own module does not: each behaves as that module says.        *)
THEOREM EachByItself ==
  SumSpec => /\ Spec /\ R!Spec /\ K!Spec /\ H!Spec /\ Q!Spec /\ C!Spec /\ A!Spec
<1>1. SumInit => Init /\ R!Init /\ K!Init /\ H!Init /\ Q!Init /\ C!Init /\ A!Init
  BY DEF SumInit
<1>2. [SumNext]_all =>
        /\ [Next]_vars /\ [R!Next]_(R!vars) /\ [K!Next]_(K!vars) /\ [H!Next]_(H!vars)
        /\ [Q!Next]_(Q!vars) /\ [C!Next]_(C!vars) /\ [A!Next]_(A!vars)
  BY Apart DEF rvars, kvars, hvars, qvars, cvars, avars,
               R!vars, K!vars, H!vars, Q!vars, C!vars, A!vars
<1> QED  BY <1>1, <1>2, PTL DEF SumSpec, Spec, R!Spec, K!Spec, H!Spec, Q!Spec, C!Spec, A!Spec

(* request_with_retry has asked as many servers as it has made attempts, or  *)
(* every server that was there throughout, whatever the rotation and other   *)
(* callers do; GrpcCluster loses no channel and hands out none that is       *)
(* closed, whatever calls, start() and stop() overlap.                       *)
THEOREM RequestsAreServed == SumSpec => []RequestsServed
<1>1. SumInit => RetryInv /\ ChannelInv
  BY RetryStart, ChannelStart DEF SumInit
<1>2. (RetryInv /\ ChannelInv) /\ [SumNext]_all => (RetryInv /\ ChannelInv)'
  BY Apart, RetryInductive, ChannelInductive
<1>3. RetryInv /\ ChannelInv => RequestsServed
  BY DEF RetryInv, ChannelInv, RequestsServed
<1> QED  BY <1>1, <1>2, <1>3, PTL DEF SumSpec

(* Backups keep to hedging_budget_ratio, up to one for each caller that has   *)
(* looked at the same counters, although looking and counting are two         *)
(* critical sections with a request in between.                              *)
THEOREM BudgetIsKept == SumSpec => []HedgeBudget
<1>1. SumInit => HedgeInv  BY HedgeStart DEF SumInit
<1>2. HedgeInv /\ [SumNext]_all => HedgeInv'  BY Apart, HedgeInductive
<1>3. HedgeInv => HedgeBudget  BY BudgetIs DEF HedgeInv, HedgeBudget
<1> QED  BY <1>1, <1>2, <1>3, PTL DEF SumSpec

(* Whom rotate() must not promote is not reported as healthy or recovered,   *)
(* whatever actions, promotions and operators overlap.                       *)
THEOREM QuarantineIsVisible == SumSpec => []QuarantineVisible
<1>1. SumInit => RemedyInv  BY RemedyStart DEF SumInit
<1>2. RemedyInv /\ [SumNext]_all => RemedyInv'  BY Apart, RemedyInductive
<1>3. RemedyInv => QuarantineVisible  BY DEF RemedyInv, QuarantineVisible
<1> QED  BY <1>1, <1>2, <1>3, PTL DEF SumSpec

(* However many threads save, overtake one another and crash, start() never  *)
(* restores less than the last save that was alone has stored.               *)
THEOREM NothingOldRestored == SumSpec => []NoOldRestore
<1>1. SumInit => SaveInv  BY SaveStart DEF SumInit
<1>2. SaveInv /\ [SumNext]_all => SaveInv'  BY Apart, SaveInductive
<1>3. SaveInv => NoOldRestore  BY DEF SaveInv, NoOldRestore
<1> QED  BY <1>1, <1>2, <1>3, PTL DEF SumSpec

(* The questions of _check_leader are asked one after the other, and the      *)
(* write comes later still: the registry changes only for a request during    *)
(* which its master was writable, and led.                                   *)
THEOREM RegistryWritesAreLed == SumSpec => RegistryWritesLed
<1>1. SumInit => ApiInv  BY ApiStart DEF SumInit
<1>2. ApiInv /\ [SumNext]_all => ApiInv'  BY Apart, ApiInductive
<1>3. ApiInv /\ [SumNext]_all => [active = "api" => A!WriteLed]_all
  BY ApiSteps, ChangesLed
<1> QED  BY <1>1, <1>2, <1>3, PTL DEF SumSpec, RegistryWritesLed
=============================================================================
