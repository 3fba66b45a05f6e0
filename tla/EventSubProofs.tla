---------------------------- MODULE EventSubProofs ----------------------------
(* Proofs about EventSubConduit, for any calls, any number of shards,         *)
(* connections and starts, and every way to use a conduit.                    *)
EXTENDS EventSubConduit, SequenceTheorems, TLAPS

------------------------------------------------------------------------------
(* Lemmas on the requests and on sequences.                                   *)

\* A connection is closed, by the peer or by an exception.
Closing(c) == c \in Range(shards) /\ Close(c)

LEMMA ClosingSteps == \A c \in DOMAIN conns : PeerClose(c) \/ ShardThrows(c) => Closing(c)
BY DEF PeerClose, ShardThrows, Closing

\* The requests a call is carried by, and those of a shard.
LEMMA RequestsOf ==
  ASSUME TypeOK
  PROVE  /\ \A x \in Calls \ Deletes : TokenReq(x) \in Requests /\ TokenReq(x).call = x
         /\ \A x \in Calls \ Deletes : Continue(x) \in Requests /\ Continue(x).call = x
         /\ \A x \in Calls \ Deletes : EnsureToken(x) \in Requests /\ EnsureToken(x).call = x
         /\ \A o \in Opens : CreateReq(o) \in Requests /\ CreateReq(o).call = o
         /\ \A s \in Subs : SubscribeReq(s, conduitId) \in Requests /\ SubscribeReq(s, conduitId).call = s
         /\ \A d \in Deletes : conduitId # None =>
              DeleteReq(d, conduitId) \in Requests /\ DeleteReq(d, conduitId).call = d
         /\ \A c \in DOMAIN conns :
              PatchReq(c, conduitId) \in Requests /\ PatchReq(c, conduitId).call = None
<1> USE EventSubAssumption DEF Requests, TypeOK, CallTypes, ShardTypes, Calls
<1>1. \A x \in Calls \ Deletes : TokenReq(x) \in Requests /\ TokenReq(x).call = x
  BY DEF TokenReq
<1>2. \A s \in Subs : SubscribeReq(s, conduitId) \in Requests /\ SubscribeReq(s, conduitId).call = s
  BY DEF SubscribeReq
<1>3. \A o \in Opens : FindReq(o) \in Requests /\ FindReq(o).call = o
  BY DEF FindReq
<1>4. \A q \in Queries : QueryReq(q) \in Requests /\ QueryReq(q).call = q
  BY DEF QueryReq
<1>5. \A x \in Calls \ Deletes : Continue(x) \in Requests /\ Continue(x).call = x
  BY <1>2, <1>3, <1>4 DEF Continue
<1>6. \A x \in Calls \ Deletes : EnsureToken(x) \in Requests /\ EnsureToken(x).call = x
  BY <1>1, <1>5 DEF EnsureToken
<1>7. \A o \in Opens : CreateReq(o) \in Requests /\ CreateReq(o).call = o
  BY DEF CreateReq
<1>8. \A d \in Deletes : conduitId # None =>
        DeleteReq(d, conduitId) \in Requests /\ DeleteReq(d, conduitId).call = d
  BY DEF DeleteReq
<1>9. \A c \in DOMAIN conns :
        PatchReq(c, conduitId) \in Requests /\ PatchReq(c, conduitId).call = None
  <2>1. \A c \in DOMAIN conns : c \in 1..MaxConns  OBVIOUS
  <2>2. QED  BY <2>1 DEF PatchReq
<1>10. QED  BY <1>1, <1>2, <1>5, <1>6, <1>7, <1>8, <1>9

\* What a request is, by its kind.
LEMMA RequestKinds ==
  ASSUME NEW r \in Requests
  PROVE  /\ r.kind \in {"token", "find", "create", "query", "subscribe", "delete", "patch"}
         /\ r.kind = "token" => r.call \in Calls \ Deletes
         /\ r.kind \in {"find", "create"} => r.call \in Opens
         /\ r.kind = "query" => r.call \in Queries
         /\ r.kind = "subscribe" => r.call \in Subs /\ r.conduit \in Opens \cup {None}
         /\ r.kind = "delete" => r.call \in Deletes /\ r.conduit \in Opens
         /\ r.kind = "patch" => /\ r.call = None /\ r.conn \in 1..MaxConns
                                /\ r.conduit \in Opens \cup {None}
BY DEF Requests

------------------------------------------------------------------------------
(* The types.                                                                 *)

\* A connection changes its state, or new ones are made: the others stay valid.
LEMMA MoreConns ==
  ASSUME TypeOK, UNCHANGED use, conns' \in Seq(Conn), Len(conns) <= Len(conns'), Len(conns') <= MaxConns
  PROVE  /\ conns' \in Seq(Conn') /\ ShardIds' = ShardIds
         /\ DOMAIN conns \subseteq DOMAIN conns' /\ DOMAIN conns' \subseteq 1..MaxConns
         /\ shards \in Seq(DOMAIN conns') /\ Move \subseteq Move' /\ deferred \in Seq(Move')
<1> USE DEF TypeOK, ShardTypes
<1>1. ShardIds' = ShardIds  BY DEF ShardIds, use
<1>2. Conn' = Conn  BY <1>1 DEF Conn
<1>3. /\ DOMAIN conns = 1..Len(conns) /\ DOMAIN conns' = 1..Len(conns')
      /\ Len(conns) \in Nat /\ Len(conns') \in Nat
  OBVIOUS
<1>4. DOMAIN conns \subseteq DOMAIN conns' /\ DOMAIN conns' \subseteq 1..MaxConns
  BY <1>3, EventSubAssumption
<1>5. shards \in Seq(DOMAIN conns')  BY <1>4, SeqMonotonic
<1>6. Move \subseteq Move'  BY <1>1, <1>4 DEF Move
<1>7. deferred \in Seq(Move')  BY <1>6, SeqMonotonic
<1>8. QED  BY <1>1, <1>2, <1>4, <1>5, <1>6, <1>7

\* Shards and connections stay as they are, or the shards go.
LEMMA SameShards ==
  ASSUME TypeOK, UNCHANGED <<use, conns, conduits, assigned>>,
         (shards' = shards \/ shards' = <<>>) /\ (deferred' = deferred \/ deferred' = <<>>)
  PROVE  ShardTypes'
<1> USE DEF TypeOK, ShardTypes
<1>1. ShardIds' = ShardIds  BY DEF ShardIds, use
<1>2. Conn' = Conn /\ Move' = Move  BY <1>1 DEF Conn, Move
<1>3. shards' \in Seq(DOMAIN conns')
  <2>1. shards \in Seq(DOMAIN conns') /\ <<>> \in Seq(DOMAIN conns')  BY EmptySeq
  <2>2. QED  BY <2>1
<1>4. deferred' \in Seq(Move')
  <2>1. deferred \in Seq(Move') /\ <<>> \in Seq(Move')  BY <1>2, EmptySeq
  <2>2. QED  BY <2>1
<1>5. conns' \in Seq(Conn')  BY <1>2
<1>6. QED  BY <1>1, <1>3, <1>4, <1>5 DEF use

LEMMA ApiTypes ==
  ASSUME TypeOK, Api
  PROVE  TypeOK'
<1>s. ShardTypes'
  BY SameShards
     DEF Api, server, Start, Stop, Ask, Subscribe, SubscribeSend, SubscribeThrows, ConsumerGone,
         Delete
<1> USE DEF TypeOK, CallTypes, opening, Results
<1>1. CASE Start
  BY <1>1, <1>s, EventSubAssumption DEF Start
<1>2. CASE Stop
  <2>1. result' \in [Calls -> Results]
    BY <1>2 DEF Stop
  <2>2. QED  BY <1>2, <1>s, <2>1 DEF Stop
<1>3. ASSUME NEW x \in Opens \cup Queries, Ask(x) PROVE TypeOK'
  <2>1. EnsureToken(x) \in Requests
    BY RequestsOf, EventSubAssumption DEF Calls
  <2>2. QED  BY <1>3, <1>s, <2>1 DEF Ask, Send, End
<1>4. ASSUME NEW s \in Subs, Subscribe(s) PROVE TypeOK'
  BY <1>4, <1>s DEF Subscribe, End
<1>5. ASSUME NEW s \in Subs, SubscribeSend(s) PROVE TypeOK'
  <2>1. EnsureToken(s) \in Requests /\ SubscribeReq(s, conduitId) \in Requests
    BY RequestsOf, EventSubAssumption DEF Calls
  <2>2. QED  BY <1>5, <1>s, <2>1 DEF SubscribeSend, Send, End
<1>6. ASSUME NEW s \in Subs, ConsumerGone(s) PROVE TypeOK'
  BY <1>6, <1>s DEF ConsumerGone
<1>7. ASSUME NEW d \in Deletes, Delete(d) PROVE TypeOK'
  <2>1. conduitId # None => DeleteReq(d, conduitId) \in Requests
    BY RequestsOf
  <2>2. d \in Calls  BY DEF Calls
  <2>3. QED  BY <1>7, <1>s, <2>1, <2>2 DEF Delete, Send, Answer, End
<1>8. ASSUME NEW s \in Subs, SubscribeThrows(s) PROVE TypeOK'
  BY <1>8, <1>s DEF SubscribeThrows, End
<1>9. QED  BY <1>1, <1>2, <1>3, <1>4, <1>5, <1>6, <1>7, <1>8 DEF Api

LEMMA TwitchTypes ==
  ASSUME TypeOK, Twitch
  PROVE  TypeOK'
<1> USE EventSubAssumption DEF TypeOK
<1>1. ASSUME NEW r \in reqs, Serve(r) PROVE TypeOK'
  <2> DEFINE Given == {"ok", "failed", None} \cup Opens
  <2>0. r \in Requests /\ UNCHANGED local  BY <1>1 DEF Serve, CallTypes
  <2>1. Replies(r) \subseteq Given
    BY <2>0, RequestKinds DEF Replies, Exists, ShardTypes
  <2>2. answers' \subseteq [req : Requests, answer : Given]
    <3>1. PICK reply \in Replies(r) : answers' = answers \cup {[req |-> r, answer |-> reply]}
      BY <1>1 DEF Serve
    <3>2. QED  BY <2>0, <2>1, <3>1 DEF CallTypes
  <2>3. CallTypes'  BY <1>1, <2>0, <2>2 DEF Serve, CallTypes, local, opening
  <2>4. conduits' \subseteq Opens /\ assigned' \in [Opens -> [ShardIds -> 0..MaxConns]]
    <3> USE DEF ShardTypes
    <3>1. CASE r.kind = "create"
      BY <1>1, <2>0, <3>1, RequestKinds DEF Serve, Effect
    <3>2. CASE r.kind = "delete"
      BY <1>1, <3>2 DEF Serve, Effect
    <3>3. CASE UNCHANGED server
      BY <3>3 DEF server
    <3>4. CASE r.kind = "patch" /\ Exists(r.conduit) /\ r.conn \in Held
                 /\ conns[r.conn].state = "open"
      <4>1. /\ assigned' = [assigned EXCEPT ![r.conduit][conns[r.conn].shard] = r.conn]
            /\ UNCHANGED conduits
        BY <1>1, <3>4 DEF Serve, Effect
      <4>2. r.conn \in 0..MaxConns /\ r.conduit \in Opens
        BY <2>0, <3>4, RequestKinds DEF Exists
      <4>3. QED  BY <4>1, <4>2
    <3>5. QED  BY <1>1, <3>1, <3>2, <3>3, <3>4 DEF Serve, Effect
  <2>5. ShardIds' = ShardIds  BY <2>0 DEF ShardIds, local, use
  <2>6. ShardTypes'
    <3>1. Conn' = Conn /\ Move' = Move  BY <2>0, <2>5 DEF Conn, Move, local
    <3>2. QED  BY <2>0, <2>4, <2>5, <3>1 DEF ShardTypes, local, use
  <2>7. QED  BY <2>3, <2>6
<1>2. ASSUME NEW r \in reqs, Fail(r) PROVE TypeOK'
  <2>1. ShardTypes'  BY <1>2, SameShards DEF Fail, local, server
  <2>2. QED  BY <1>2, <2>1 DEF Fail, local, opening, CallTypes
<1>3. ASSUME NEW a \in answers, LoseAnswer(a) PROVE TypeOK'
  <2>1. ShardTypes'  BY <1>3, SameShards DEF LoseAnswer, local, server
  <2>2. QED  BY <1>3, <2>1 DEF LoseAnswer, local, opening, CallTypes
<1>4. QED  BY <1>1, <1>2, <1>3 DEF Twitch

LEMMA HandleTypes ==
  ASSUME TypeOK, NEW a \in answers, Handle(a)
  PROVE  TypeOK'
<1> USE EventSubAssumption DEF TypeOK
<1>0. a.req \in Requests  BY DEF CallTypes
<1>1. ShardTypes'
  BY SameShards
     DEF Handle, HandleToken, HandleFind, HandleCreate, HandleDelete, ForgetConduit, HandleOther, server
<1>2. ASSUME reqs' \subseteq Requests, finishing' \in {None} \cup [call : Opens, id : Opens],
             conduitId' \in Opens \cup {None}, token' \in BOOLEAN, ready' \in BOOLEAN,
             result' \in [Calls -> Results], heard' \subseteq Calls
      PROVE  TypeOK'
  BY <1>1, <1>2 DEF Handle, CallTypes
<1> USE DEF CallTypes
<1>c. a.req.call # None => a.req.call \in Calls  BY <1>0, RequestKinds DEF Calls
<1>e. ASSUME NEW how \in {"done", "failed"}, Answer(a.req.call, how), a.req.call # None
      PROVE  result' \in [Calls -> Results] /\ heard' \subseteq Calls
  BY <1>c, <1>e DEF Answer, End, Results
<1>3. CASE HandleToken(a)
  <2>1. a.req.call \in Calls \ Deletes  BY <1>0, <1>3, RequestKinds DEF HandleToken
  <2>2. Continue(a.req.call) \in Requests /\ a.req.call # None  BY <2>1, RequestsOf DEF Calls
  <2>3. QED  BY <1>2, <1>3, <1>e, <2>2 DEF HandleToken
<1>4. CASE HandleFind(a)
  <2>1. a.req.call \in Opens  BY <1>0, <1>4, RequestKinds DEF HandleFind
  <2>2. CreateReq(a.req.call) \in Requests  BY <2>1, RequestsOf
  <2>3. QED  BY <1>2, <1>4, <2>1, <2>2 DEF HandleFind, BeginFinish, Publish
<1>5. CASE HandleCreate(a)
  <2>1. a.req.call \in Opens /\ a.req.call # None
    BY <1>0, <1>5, RequestKinds DEF HandleCreate, Calls
  <2>2. QED  BY <1>2, <1>5, <1>e, <2>1 DEF HandleCreate, BeginFinish, Publish, CreateFailed
<1>6. CASE HandleDelete(a)
  <2>1. a.req.call # None  BY <1>0, <1>6, RequestKinds DEF HandleDelete, Calls
  <2>2. QED  BY <1>2, <1>6, <1>e, <2>1 DEF HandleDelete, ForgetConduit
<1>7. CASE HandleOther(a)
  BY <1>2, <1>7, <1>e DEF HandleOther
<1>8. QED  BY <1>3, <1>4, <1>5, <1>6, <1>7 DEF Handle

LEMMA HandleThrowsTypes ==
  ASSUME TypeOK, NEW a \in answers, HandleThrows(a)
  PROVE  TypeOK'
<1> USE EventSubAssumption DEF TypeOK
<1>1. ShardTypes'
  BY SameShards DEF HandleThrows, ForgetConduit, server
<1>2. a.req \in Requests /\ a.req.call \in Calls
  BY RequestKinds DEF CallTypes, HandleThrows, Calls
<1>3. result' \in [Calls -> Results]
  BY <1>2 DEF HandleThrows, AgainOrLost, End, CallTypes, Results
<1>4. QED
  BY <1>1, <1>2, <1>3 DEF HandleThrows, AgainOrLost, ForgetConduit, CallTypes, opening

\* finish_opening_conduit() publishes the flag, takes the lists and opens the shards.
LEMMA FinishTypes ==
  ASSUME TypeOK, Finish \/ FinishThrows
  PROVE  TypeOK'
<1> USE EventSubAssumption DEF TypeOK
<1>1. CASE TakeLists
  <2>1. ShardTypes'  BY <1>1, SameShards DEF TakeLists, server
  <2>2. QED  BY <1>1, <2>1 DEF TakeLists, TakePending, CallTypes
<1>2. ASSUME NEW t \in Subs, SendTaken(t) PROVE TypeOK'
  <2>1. ShardTypes'  BY <1>2, SameShards DEF SendTaken, server
  <2>2. SubscribeReq(t, conduitId) \in Requests /\ EnsureToken(t) \in Requests
    BY RequestsOf DEF Calls
  <2>3. QED  BY <1>2, <2>1, <2>2 DEF SendTaken, Send, End, CallTypes, Results
<1>3. CASE OpenShard
  <2>1. /\ conns \in Seq(Conn) /\ Len(conns) \in Nat /\ shardCount \in Nat \ {0}
        /\ opened \in 0..(shardCount - 1)
    BY <1>3 DEF OpenShard, ShardTypes, CallTypes
  <2>2. [shard |-> opened, state |-> "connecting"] \in Conn  BY <2>1 DEF Conn, ShardIds
  <2>3. conns' \in Seq(Conn) /\ Len(conns') = Len(conns) + 1 /\ Len(conns) < MaxConns
    BY <1>3, <2>1, <2>2, AppendProperties DEF OpenShard
  <2>4. UNCHANGED use  BY <1>3 DEF OpenShard, use
  <2>5. /\ conns' \in Seq(Conn') /\ ShardIds' = ShardIds /\ shards \in Seq(DOMAIN conns')
        /\ deferred \in Seq(Move')
    BY <2>1, <2>3, <2>4, MoreConns
  <2>6. Len(conns) + 1 \in DOMAIN conns'  BY <2>1, <2>3
  <2>7. shards' \in Seq(DOMAIN conns')
    BY <1>3, <2>5, <2>6, AppendProperties DEF OpenShard
  <2>8. ShardTypes'
    BY <1>3, <2>1, <2>3, <2>4, <2>5, <2>7 DEF OpenShard, ShardTypes, use, server
  <2>9. QED  BY <1>3, <2>1, <2>8 DEF OpenShard, CallTypes
<1>4. CASE FinishEnd
  <2>1. ShardTypes'  BY <1>4, SameShards DEF FinishEnd, server
  <2>2. finishing.call \in Calls  BY <1>4 DEF FinishEnd, CallTypes, Calls
  <2>3. QED  BY <1>4, <2>1, <2>2 DEF FinishEnd, Answer, End, CallTypes, Results
<1>5. CASE FinishThrows
  <2>1. ShardTypes'  BY <1>5, SameShards DEF FinishThrows, server
  <2>2. finishing.call \in Opens /\ finishing.call \in Calls /\ finishing.id \in Opens
    BY <1>5 DEF FinishThrows, CallTypes, Calls
  <2>3. FindReq(finishing.call) \in Requests  BY <2>2 DEF FindReq, Requests
  <2>4. result' \in [Calls -> Results]  BY <1>5 DEF FinishThrows, CallTypes, Results
  <2>5. answers' \subseteq [req : Requests, answer : {"ok", "failed", None} \cup Opens]
    BY <1>5, <2>2, <2>3 DEF FinishThrows, CallTypes
  <2>6. QED  BY <1>5, <2>1, <2>2, <2>4, <2>5 DEF FinishThrows, CallTypes
<1>6. QED  BY <1>1, <1>2, <1>3, <1>4, <1>5 DEF Finish

LEMMA ShardsStepTypes ==
  ASSUME TypeOK, RunDeferred \/ \E c \in DOMAIN conns : Welcome(c) \/ Reconnect(c) \/ Closing(c)
  PROVE  TypeOK'
<1> USE EventSubAssumption DEF TypeOK
<1>1. CASE RunDeferred
  <2>1. \A i \in DOMAIN shards : Replaced(i) \in DOMAIN conns
    <3>1. \A k \in DOMAIN deferred : deferred[k].conn \in DOMAIN conns
      <4>1. \A k \in DOMAIN deferred : deferred[k] \in Move  BY DEF ShardTypes
      <4>2. QED  BY <4>1 DEF Move
    <3>2. \A i \in DOMAIN shards : shards[i] \in DOMAIN conns  BY DEF ShardTypes
    <3>3. QED  BY <3>1, <3>2 DEF Replaced
  <2>2. shards' \in Seq(DOMAIN conns)
    <3>1. DOMAIN shards = 1..Len(shards) /\ Len(shards) \in Nat  BY DEF ShardTypes
    <3>2. QED  BY <1>1, <2>1, <3>1, IsASeq DEF RunDeferred
  <2>3. ShardIds' = ShardIds /\ conns' = conns  BY <1>1 DEF RunDeferred, use, ShardIds
  <2>4. Conn' = Conn /\ Move' = Move  BY <2>3 DEF Conn, Move
  <2>5. deferred' \in Seq(Move')  BY <1>1 DEF RunDeferred
  <2>6. ShardTypes'  BY <1>1, <2>2, <2>3, <2>4, <2>5 DEF RunDeferred, ShardTypes, use, server
  <2>7. QED  BY <1>1, <2>6 DEF RunDeferred, CallTypes, opening
<1>s. ASSUME NEW c \in DOMAIN conns, NEW st \in {"connecting", "open", "closed"}, SetConn(c, st),
             UNCHANGED <<use, shards, deferred, server>>
      PROVE  ShardTypes'
  <2>1. conns \in Seq(Conn) /\ conns[c] \in Conn  BY DEF ShardTypes
  <2>2. [conns[c] EXCEPT !.state = st] \in Conn  BY <2>1 DEF Conn
  <2>3. conns' = [conns EXCEPT ![c] = [conns[c] EXCEPT !.state = st]]  BY <1>s DEF SetConn
  <2>4. conns' \in Seq(Conn) /\ Len(conns') = Len(conns)  BY <2>1, <2>2, <2>3, ExceptSeq
  <2>5. /\ conns' \in Seq(Conn') /\ ShardIds' = ShardIds /\ shards \in Seq(DOMAIN conns')
        /\ deferred \in Seq(Move')
    BY <1>s, <2>1, <2>4, MoreConns DEF ShardTypes
  <2>6. QED  BY <1>s, <2>4, <2>5 DEF ShardTypes, use, server
<1>2. ASSUME NEW c \in DOMAIN conns, Welcome(c) PROVE TypeOK'
  <2>1. PatchReq(c, conduitId) \in Requests  BY RequestsOf
  <2>2. ShardTypes'  BY <1>2, <1>s DEF Welcome
  <2>3. QED  BY <1>2, <2>1, <2>2 DEF Welcome, CallTypes, opening
<1>3. ASSUME NEW c \in DOMAIN conns, Reconnect(c) PROVE TypeOK'
  <2>1. conns \in Seq(Conn) /\ conns[c] \in Conn /\ Len(conns) \in Nat  BY DEF ShardTypes
  <2>2. Replacement(c) \in Conn  BY <2>1 DEF Replacement, Conn
  <2>3. conns' \in Seq(Conn) /\ Len(conns') = Len(conns) + 1 /\ Len(conns) < MaxConns
    BY <1>3, <2>1, <2>2, AppendProperties DEF Reconnect
  <2>4. UNCHANGED use  BY <1>3 DEF Reconnect
  <2>5. /\ conns' \in Seq(Conn') /\ ShardIds' = ShardIds /\ shards \in Seq(DOMAIN conns')
        /\ deferred \in Seq(Move')
    BY <2>1, <2>3, <2>4, MoreConns
  <2>6. [shard |-> conns[c].shard, conn |-> Len(conns) + 1] \in Move'
    <3>1. Len(conns) + 1 \in DOMAIN conns'  BY <2>1, <2>3
    <3>2. conns[c].shard \in ShardIds  BY <2>1 DEF Conn
    <3>3. QED  BY <2>5, <3>1, <3>2 DEF Move
  <2>7. deferred' \in Seq(Move')
    BY <1>3, <2>5, <2>6, AppendProperties DEF Reconnect
  <2>8. ShardTypes'
    BY <1>3, <2>1, <2>3, <2>4, <2>5, <2>7 DEF Reconnect, ShardTypes, use, server
  <2>9. QED  BY <1>3, <2>8 DEF Reconnect, CallTypes, opening
<1>4. ASSUME NEW c \in DOMAIN conns, Closing(c) PROVE TypeOK'
  <2>1. ShardTypes'  BY <1>4, <1>s DEF Closing, Close
  <2>2. QED  BY <1>4, <2>1 DEF Closing, Close, CallTypes, opening
<1>5. QED  BY <1>1, <1>2, <1>3, <1>4

LEMMA TypeStep == InductiveInvariant /\ [Next]_vars => TypeOK'
<1>1. ASSUME TypeOK, UNCHANGED vars PROVE TypeOK'
  <2>1. ShardTypes'  BY <1>1, SameShards DEF vars, local, server
  <2>2. QED  BY <1>1, <2>1 DEF TypeOK, CallTypes, vars, local, opening
<1>2. QED
  BY <1>1, ApiTypes, TwitchTypes, HandleTypes, HandleThrowsTypes, FinishTypes, ShardsStepTypes,
     ClosingSteps
     DEF InductiveInvariant, Next, Io

------------------------------------------------------------------------------
(* Every call is accounted for.                                               *)

\* Where a call that is under way may be.
Unsent(x) == \A r \in reqs : r.call # x
Unanswered(x) == \A a \in answers : a.req.call # x
Idle(x) == Unsent(x) /\ Unanswered(x) /\ ~Finishing(x)
Sent(x) == /\ \E r \in reqs : r.call = x /\ \A q \in reqs : q.call = x => q = r
           /\ Unanswered(x) /\ ~Finishing(x)
Answered(x) == /\ \E a \in answers : a.req.call = x /\ \A b \in answers : b.req.call = x => b = a
               /\ Unsent(x) /\ ~Finishing(x)
Ending(x) == Finishing(x) /\ Unsent(x) /\ Unanswered(x)

Status(x) == /\ x \in pending \cup taken <=> result[x] = "pending"
             /\ result[x] # "called" => Idle(x)
             /\ result[x] = "called" => Sent(x) \/ Answered(x) \/ Ending(x)

LEMMA AccountedView == AccountedFor <=> \A x \in Calls : Status(x)
<1> USE DEF Carried, CarriedOnce, Status, Idle, Sent, Answered, Ending, Unsent, Unanswered
<1>1. ASSUME AccountedFor, NEW x \in Calls PROVE Status(x)
  BY <1>1 DEF AccountedFor
<1>2. ASSUME NEW x \in Calls, Status(x)
      PROVE  /\ x \in pending \cup taken <=> result[x] = "pending"
             /\ Carried(x) \/ Finishing(x) <=> result[x] = "called"
             /\ CarriedOnce(x)
  BY <1>2
<1>3. QED  BY <1>1, <1>2 DEF AccountedFor

\* A step that has nothing to do with a call.
LEMMA Quiet ==
  ASSUME NEW x, Status(x), result'[x] = result[x],
         x \in (pending \cup taken)' <=> x \in pending \cup taken,
         Finishing(x)' <=> Finishing(x),
         \A r : r.call = x => (r \in reqs' <=> r \in reqs),
         \A a : a.req.call = x => (a \in answers' <=> a \in answers)
  PROVE  Status(x)'
BY DEF Status, Idle, Sent, Answered, Ending, Unsent, Unanswered

LEMMA ApiStatus ==
  ASSUME InductiveInvariant, Api, NEW x \in Calls, Status(x)
  PROVE  Status(x)'
<1> USE EventSubAssumption DEF TypeOK, CallTypes, opening
<1>t. TypeOK  BY DEF InductiveInvariant
<1> DEFINE Sends(y, r) == /\ reqs' = reqs \cup {r} /\ r.call = y
                          /\ result' = [result EXCEPT ![y] = "called"]
                          /\ UNCHANGED <<pending, finishing, taken, answers>>
<1>s. ASSUME NEW y \in Calls, NEW r, Sends(y, r), result[y] \in {"new", "checked"} PROVE Status(x)'
  <2>1. CASE x # y
    BY <1>t, <1>s, <2>1, Quiet DEF Finishing
  <2>2. CASE x = y
    <3>1. Idle(x) /\ x \notin pending \cup taken  BY <1>s, <2>2 DEF Status
    <3>2. Sent(x)'
      BY <1>t, <1>s, <2>2, <3>1 DEF Sent, Idle, Unsent, Unanswered, Finishing
    <3>3. QED  BY <1>t, <1>s, <2>2, <3>1, <3>2 DEF Status
  <2>3. QED  BY <2>1, <2>2
<1>e. ASSUME NEW y \in Calls, result[y] \in {"new", "checked"},
             \/ (End(y, "done") \/ End(y, "failed")) /\ UNCHANGED pending
             \/ End(y, "checked") /\ UNCHANGED pending
             \/ End(y, "pending") /\ pending' = pending \cup {y},
             UNCHANGED <<reqs, finishing, taken, answers>>
      PROVE  Status(x)'
  <2>1. CASE x # y
    BY <1>t, <1>e, <2>1, Quiet DEF Finishing, End
  <2>2. CASE x = y
    BY <1>t, <1>e, <2>2 DEF Status, End, Idle, Unsent, Unanswered, Finishing
  <2>3. QED  BY <2>1, <2>2
<1>1. CASE Start
  BY <1>1, Quiet DEF Start, Finishing
<1>2. CASE Stop
  <2>1. Idle(x)'  BY <1>2 DEF Stop, Idle, Unsent, Unanswered, Finishing
  <2>2. result'[x] # "called"  BY <1>t, <1>2 DEF Stop
  <2>3. x \in (pending \cup taken)' <=> result'[x] = "pending"
    <3>1. taken = {}  BY <1>2 DEF Stop, InductiveInvariant, OpensAlone
    <3>2. QED  BY <1>t, <1>2, <3>1 DEF Stop, Status
  <2>4. QED  BY <2>1, <2>2, <2>3 DEF Status
<1>3. ASSUME NEW y \in Opens \cup Queries, Ask(y) PROVE Status(x)'
  <2>1. y \in Calls /\ EnsureToken(y).call = y  BY <1>t, RequestsOf DEF Calls
  <2>2. Sends(y, EnsureToken(y)) /\ result[y] = "new"  BY <1>3, <2>1 DEF Ask, Send, End
  <2>3. QED  BY <1>s, <2>1, <2>2
<1>4. ASSUME NEW s \in Subs, Subscribe(s) PROVE Status(x)'
  <2>1. s \in Calls  BY DEF Calls
  <2>2. QED  BY <1>4, <1>e, <2>1 DEF Subscribe
<1>5. ASSUME NEW s \in Subs, SubscribeSend(s) PROVE Status(x)'
  <2> DEFINE r == IF s \in Users THEN SubscribeReq(s, conduitId) ELSE EnsureToken(s)
  <2>1. s \in Calls /\ r.call = s  BY <1>t, RequestsOf DEF Calls
  <2>2. Sends(s, r) /\ result[s] = "checked"  BY <1>5, <2>1 DEF SubscribeSend, Send, End
  <2> HIDE DEF r
  <2>3. QED  BY <1>s, <2>1, <2>2
<1>6. ASSUME NEW s \in Subs, ConsumerGone(s) PROVE Status(x)'
  BY <1>6, Quiet DEF ConsumerGone, Finishing
<1>7. ASSUME NEW d \in Deletes, Delete(d) PROVE Status(x)'
  <2>1. d \in Calls /\ result[d] = "new"  BY <1>7 DEF Calls, Delete
  <2>2. CASE conduitId = None
    BY <1>7, <1>e, <2>1, <2>2 DEF Delete, Answer
  <2>3. CASE conduitId # None
    <3>1. DeleteReq(d, conduitId).call = d  BY <1>t, <2>3, RequestsOf
    <3>2. Sends(d, DeleteReq(d, conduitId))  BY <1>7, <2>3, <3>1 DEF Delete, Send, End
    <3>3. QED  BY <1>s, <2>1, <3>2
  <2>4. QED  BY <2>2, <2>3
<1>8. ASSUME NEW s \in Subs, SubscribeThrows(s) PROVE Status(x)'
  <2>1. s \in Calls  BY DEF Calls
  <2>2. QED  BY <1>8, <1>e, <2>1 DEF SubscribeThrows
<1>9. QED  BY <1>1, <1>2, <1>3, <1>4, <1>5, <1>6, <1>7, <1>8 DEF Api

LEMMA TwitchStatus ==
  ASSUME TypeOK, Twitch, NEW x \in Calls, Status(x)
  PROVE  Status(x)'
<1> USE DEF TypeOK, CallTypes
<1>1. ASSUME NEW r \in reqs, NEW b, reqs' = reqs \ {r}, answers' = answers \cup {b}, b.req = r,
             UNCHANGED local
      PROVE  Status(x)'
  <2>1. CASE r.call # x
    BY <1>1, <2>1, Quiet DEF local, opening, Finishing
  <2>2. CASE r.call = x
    <3>1. result[x] = "called" /\ Sent(x)
      BY <2>2 DEF Status, Idle, Answered, Ending, Unsent
    <3>2. Answered(x)'
      BY <1>1, <2>2, <3>1 DEF Sent, Answered, Unsent, Unanswered, Finishing, local, opening
    <3>3. QED  BY <1>1, <3>1, <3>2 DEF Status, local, opening
  <2>3. QED  BY <2>1, <2>2
<1>2. ASSUME NEW r \in reqs, Serve(r) PROVE Status(x)'
  <2>1. PICK reply \in Replies(r) : answers' = answers \cup {[req |-> r, answer |-> reply]}
    BY <1>2 DEF Serve
  <2> DEFINE b == [req |-> r, answer |-> reply]
  <2>2. reqs' = reqs \ {r} /\ answers' = answers \cup {b} /\ b.req = r /\ UNCHANGED local
    BY <1>2, <2>1 DEF Serve
  <2> HIDE DEF b
  <2>3. QED  BY <1>1, <2>2
<1>3. ASSUME NEW r \in reqs, Fail(r) PROVE Status(x)'
  <2> DEFINE b == [req |-> r, answer |-> "failed"]
  <2>1. reqs' = reqs \ {r} /\ answers' = answers \cup {b} /\ b.req = r /\ UNCHANGED local
    BY <1>3 DEF Fail
  <2> HIDE DEF b
  <2>2. QED  BY <1>1, <2>1
<1>4. ASSUME NEW a \in answers, LoseAnswer(a) PROVE Status(x)'
  <2> DEFINE b == [req |-> a.req, answer |-> "failed"]
  <2>1. answers' = (answers \ {a}) \cup {b} /\ b.req = a.req /\ UNCHANGED <<local, reqs>>
    BY <1>4 DEF LoseAnswer
  <2> HIDE DEF b
  <2>2. CASE a.req.call # x
    BY <2>1, <2>2, Quiet DEF local, opening, Finishing
  <2>3. CASE a.req.call = x
    <3>1. result[x] = "called" /\ Answered(x)
      BY <2>3 DEF Status, Idle, Sent, Ending, Unanswered
    <3>2. Answered(x)'
      BY <2>1, <2>3, <3>1 DEF Answered, Unsent, Finishing, local, opening
    <3>3. QED  BY <2>1, <3>1, <3>2 DEF Status, local, opening
  <2>4. QED  BY <2>2, <2>3
<1>5. QED  BY <1>2, <1>3, <1>4 DEF Twitch

LEMMA HandleStatus ==
  ASSUME TypeOK, NEW a \in answers, Handle(a), NEW x \in Calls, Status(x)
  PROVE  Status(x)'
<1> USE EventSubAssumption DEF TypeOK
<1> DEFINE y == a.req.call
<1>0. /\ a.req \in Requests /\ y \in Calls \cup {None} /\ None \notin Calls
      /\ finishing = None /\ answers' = answers \ {a} /\ UNCHANGED <<pending, taken>>
  BY RequestKinds DEF CallTypes, Handle, Calls
<1>1. ASSUME UNCHANGED <<reqs, finishing>>, NEW how \in {"done", "failed"}, Answer(y, how) PROVE Status(x)'
  <2>1. CASE x # y
    BY <1>0, <1>1, <2>1, Quiet DEF Finishing, Answer, End, CallTypes
  <2>2. CASE x = y
    <3>1. Answered(x) /\ result[x] = "called"
      BY <1>0, <2>2 DEF Status, Idle, Sent, Ending, Unanswered
    <3>2. result'[x] = how  BY <1>1, <2>2 DEF Answer, End, CallTypes
    <3>3. Idle(x)'  BY <1>0, <1>1, <2>2, <3>1 DEF Answered, Idle, Unsent, Unanswered, Finishing
    <3>4. QED  BY <1>0, <3>1, <3>2, <3>3 DEF Status
  <2>3. QED  BY <2>1, <2>2
<1>2. ASSUME NEW r, reqs' = reqs \cup {r}, r.call = y, UNCHANGED <<finishing, result>> PROVE Status(x)'
  <2>1. CASE x # y
    BY <1>0, <1>2, <2>1, Quiet DEF Finishing
  <2>2. CASE x = y
    <3>1. Answered(x) /\ result[x] = "called"
      BY <1>0, <2>2 DEF Status, Idle, Sent, Ending, Unanswered
    <3>2. Sent(x)'
      BY <1>0, <1>2, <2>2, <3>1 DEF Answered, Sent, Unsent, Unanswered, Finishing
    <3>3. QED  BY <1>0, <1>2, <3>1, <3>2 DEF Status
  <2>3. QED  BY <2>1, <2>2
<1>3. ASSUME NEW id \in Opens, y \in Opens, BeginFinish(y, id) PROVE Status(x)'
  <2>0. finishing' # None /\ finishing'.call = y /\ UNCHANGED <<reqs, result>>
    <3>1. [call |-> y, id |-> id] # None  BY <1>3
    <3>2. QED  BY <1>3, <3>1 DEF BeginFinish
  <2>1. CASE x # y
    BY <1>0, <2>0, <2>1, Quiet DEF Finishing
  <2>2. CASE x = y
    <3>1. Answered(x) /\ result[x] = "called"
      BY <1>0, <2>2 DEF Status, Idle, Sent, Ending, Unanswered
    <3>2. Ending(x)'
      BY <1>0, <2>0, <2>2, <3>1 DEF Answered, Ending, Unsent, Unanswered, Finishing
    <3>3. QED  BY <1>0, <2>0, <3>1, <3>2 DEF Status
  <2>3. QED  BY <2>1, <2>2
<1>4. CASE HandleToken(a)
  <2>1. y \in Calls \ Deletes  BY <1>0, <1>4, RequestKinds DEF HandleToken
  <2>2. Continue(y).call = y  BY <2>1, RequestsOf
  <2>3. QED  BY <1>1, <1>2, <1>4, <2>2 DEF HandleToken
<1>5. CASE HandleFind(a)
  <2>1. CreateReq(y).call = y /\ y \in Opens  BY <1>0, <1>5, RequestKinds DEF CreateReq, HandleFind
  <2>2. QED  BY <1>2, <1>3, <1>5, <2>1 DEF HandleFind
<1>6. CASE HandleCreate(a)
  <2>1. y \in Opens  BY <1>0, <1>6, RequestKinds DEF HandleCreate
  <2>2. QED  BY <1>1, <1>3, <1>6, <2>1 DEF HandleCreate, CreateFailed
<1>7. CASE HandleDelete(a)
  BY <1>1, <1>7 DEF HandleDelete
<1>8. CASE HandleOther(a)
  <2>1. CASE y = None
    BY <1>0, <1>8, <2>1, Quiet DEF HandleOther, Finishing
  <2>2. CASE y # None
    BY <1>1, <1>8, <2>2 DEF HandleOther
  <2>3. QED  BY <2>1, <2>2
<1>9. QED  BY <1>4, <1>5, <1>6, <1>7, <1>8 DEF Handle

\* A handler that throws: the answer stays, for `completed` to be called again, or the call ends.
LEMMA HandleThrowsStatus ==
  ASSUME TypeOK, NEW a \in answers, HandleThrows(a), NEW x \in Calls, Status(x)
  PROVE  Status(x)'
<1> DEFINE y == a.req.call
<1>0. UNCHANGED <<reqs, finishing, pending, taken>> /\ finishing = None
  BY DEF HandleThrows, opening
<1>1. CASE answers' = answers /\ UNCHANGED result
  BY <1>0, <1>1, Quiet DEF Finishing
<1>2. CASE answers' = answers \ {a} /\ End(y, "lost")
  <2>1. CASE x # y
    BY <1>0, <1>2, <2>1, Quiet DEF Finishing, End, TypeOK, CallTypes
  <2>2. CASE x = y
    <3>1. Answered(x) /\ result[x] = "called"
      BY <1>0, <2>2 DEF Status, Idle, Sent, Ending, Unanswered
    <3>2. result'[x] = "lost"  BY <1>2, <2>2 DEF End, TypeOK, CallTypes
    <3>3. Idle(x)'  BY <1>0, <1>2, <2>2, <3>1 DEF Answered, Idle, Unsent, Unanswered, Finishing
    <3>4. QED  BY <1>0, <3>1, <3>2, <3>3 DEF Status
  <2>3. QED  BY <2>1, <2>2
<1>3. QED  BY <1>1, <1>2 DEF HandleThrows, AgainOrLost

\* finish_opening_conduit() takes what waits, and works on it, when nothing else can wait.
LEMMA TakenAlone ==
  ASSUME InductiveInvariant
  PROVE  /\ taken # {} => opened # None
         /\ opened # None => finishing # None /\ ready /\ pending = {} /\ opened \in Nat
BY DEF InductiveInvariant, OpensAlone, PendingOnlyUnready, TypeOK, CallTypes

LEMMA FinishStatus ==
  ASSUME InductiveInvariant, Finish \/ FinishThrows, NEW x \in Calls, Status(x)
  PROVE  Status(x)'
<1> USE EventSubAssumption
<1>0. TypeOK  BY DEF InductiveInvariant
<1> USE DEF TypeOK, CallTypes
<1>1. CASE TakeLists
  <2>1. taken = {}  BY <1>1, TakenAlone DEF TakeLists
  <2>2. QED  BY <1>1, <2>1, Quiet DEF TakeLists, TakePending, Finishing
<1>2. ASSUME NEW t \in Subs, SendTaken(t) PROVE Status(x)'
  <2> DEFINE r == IF t \in Users THEN SubscribeReq(t, conduitId) ELSE EnsureToken(t)
  <2>0. /\ pending = {} /\ pending' = {} /\ taken' = taken \ {t} /\ t \in taken
        /\ UNCHANGED <<answers, finishing>>
    BY <1>2, TakenAlone DEF SendTaken
  <2>1. r.call = t  BY <1>0, RequestsOf DEF Calls
  <2>2. \/ reqs' = reqs /\ End(t, "dropped")
        \/ reqs' = reqs \cup {r} /\ End(t, "called")
    BY <1>2 DEF SendTaken, Send
  <2> HIDE DEF r
  <2>3. CASE x # t
    BY <1>0, <2>0, <2>1, <2>2, <2>3, Quiet DEF Finishing, End
  <2>4. CASE x = t
    <3>1. Idle(x)  BY <2>0, <2>4 DEF Status
    <3>2. CASE reqs' = reqs /\ End(t, "dropped")
      <4>1. Idle(x)'  BY <2>0, <3>1, <3>2 DEF Idle, Unsent, Unanswered, Finishing
      <4>2. result'[x] = "dropped"  BY <1>0, <2>4, <3>2 DEF End
      <4>3. QED  BY <2>0, <2>4, <4>1, <4>2 DEF Status
    <3>3. CASE reqs' = reqs \cup {r} /\ End(t, "called")
      <4>1. Sent(x)'
        BY <2>0, <2>1, <2>4, <3>1, <3>3 DEF Sent, Idle, Unsent, Unanswered, Finishing
      <4>2. result'[x] = "called"  BY <1>0, <2>4, <3>3 DEF End
      <4>3. QED  BY <2>0, <2>4, <4>1, <4>2 DEF Status
    <3>4. QED  BY <2>2, <3>2, <3>3
  <2>5. QED  BY <2>3, <2>4
<1>3. CASE OpenShard
  BY <1>3, Quiet DEF OpenShard, Finishing
<1>4. CASE FinishEnd
  <2>0. /\ finishing # None /\ finishing.call \in Opens /\ finishing' = None
        /\ End(finishing.call, "done") /\ UNCHANGED <<pending, taken, reqs, answers>>
    BY <1>0, <1>4 DEF FinishEnd, Answer
  <2>1. CASE x # finishing.call
    BY <1>0, <2>0, <2>1, Quiet DEF Finishing, End
  <2>2. CASE x = finishing.call
    <3>1. Ending(x) /\ result[x] = "called"
      BY <2>0, <2>2 DEF Status, Idle, Sent, Answered, Finishing
    <3>2. Idle(x)'  BY <2>0, <3>1 DEF Ending, Idle, Unsent, Unanswered, Finishing
    <3>3. result'[x] = "done"  BY <1>0, <2>0, <2>2 DEF End
    <3>4. QED  BY <2>0, <3>1, <3>2, <3>3 DEF Status
  <2>3. QED  BY <2>1, <2>2
<1>5. CASE FinishThrows
  <2> DEFINE y == finishing.call
             b == [req |-> FindReq(y), answer |-> finishing.id]
  <2>0. /\ finishing # None /\ y \in Opens /\ y \notin Subs /\ finishing' = None
        /\ pending = {} /\ pending' = {} /\ taken' = {} /\ UNCHANGED reqs /\ taken \subseteq Subs
    BY <1>0, <1>5, TakenAlone DEF FinishThrows
  <2>1. b.req.call = y  BY DEF FindReq
  <2>2. PICK again \in BOOLEAN :
          /\ answers' = IF again THEN answers \cup {b} ELSE answers
          /\ result' = [z \in Calls |-> IF z \in taken \/ (z = y /\ ~again)
                                         THEN "lost" ELSE result[z]]
    BY <1>5 DEF FinishThrows
  <2> HIDE DEF b
  <2>3. CASE x # y /\ x \notin taken
    BY <2>0, <2>1, <2>2, <2>3, Quiet DEF Finishing
  <2>4. CASE x # y /\ x \in taken
    <3>1. Idle(x)  BY <2>0, <2>4 DEF Status
    <3>2. Idle(x)'  BY <2>0, <2>1, <2>2, <2>4, <3>1 DEF Idle, Unsent, Unanswered, Finishing
    <3>3. result'[x] = "lost"  BY <2>2, <2>4
    <3>4. QED  BY <2>0, <3>2, <3>3 DEF Status
  <2>5. CASE x = y
    <3>1. Ending(x) /\ result[x] = "called"
      BY <2>0, <2>5 DEF Status, Idle, Sent, Answered, Finishing
    <3>2. CASE again
      <4>1. Answered(x)'
        BY <2>0, <2>1, <2>2, <2>5, <3>1, <3>2 DEF Ending, Answered, Unsent, Unanswered, Finishing
      <4>2. result'[x] = "called"  BY <2>0, <2>2, <2>5, <3>1, <3>2
      <4>3. QED  BY <2>0, <4>1, <4>2 DEF Status
    <3>3. CASE ~again
      <4>1. Idle(x)'  BY <2>0, <2>2, <3>1, <3>3 DEF Ending, Idle, Unsent, Unanswered, Finishing
      <4>2. result'[x] = "lost"  BY <2>2, <2>5, <3>3
      <4>3. QED  BY <2>0, <4>1, <4>2 DEF Status
    <3>4. QED  BY <3>2, <3>3
  <2>6. QED  BY <2>3, <2>4, <2>5
<1>6. QED  BY <1>1, <1>2, <1>3, <1>4, <1>5 DEF Finish

LEMMA ShardsStatus ==
  ASSUME RunDeferred \/ \E c \in DOMAIN conns : Welcome(c) \/ Reconnect(c) \/ Closing(c),
         NEW x \in Calls, Status(x)
  PROVE  Status(x)'
<1>1. UNCHANGED <<pending, finishing, taken, result, answers>>
  BY DEF RunDeferred, Welcome, Reconnect, Closing, Close, opening
<1>2. \A r : r.call = x => (r \in reqs' <=> r \in reqs)
  <2>1. ASSUME NEW c PROVE PatchReq(c, conduitId).call # x
    BY EventSubAssumption DEF PatchReq, Calls
  <2>2. QED  BY <2>1 DEF RunDeferred, Welcome, Reconnect, Closing, Close
<1>3. QED  BY <1>1, <1>2, Quiet DEF Finishing

LEMMA AccountedStep == InductiveInvariant /\ [Next]_vars => AccountedFor'
<1>1. SUFFICES ASSUME InductiveInvariant, [Next]_vars, NEW x \in Calls PROVE Status(x)'
  <2>1. (AccountedFor <=> \A x \in Calls : Status(x))'  BY AccountedView, PTL
  <2>2. QED  BY <1>1, <2>1
<1>2. Status(x) /\ TypeOK  BY <1>1, AccountedView DEF InductiveInvariant
<1>3. CASE UNCHANGED vars
  BY <1>2, <1>3, Quiet DEF vars, local, opening, Finishing
<1>4. QED
  BY <1>1, <1>2, <1>3, ApiStatus, TwitchStatus, HandleStatus, HandleThrowsStatus, FinishStatus,
     ShardsStatus, ClosingSteps
     DEF Next, Io

\* The callbacks: a call whose callback was called has its result, and keeps it.
LEMMA HeardOnceStep == InductiveInvariant /\ [Next]_vars => HeardOnce'
<1> SUFFICES ASSUME InductiveInvariant, [Next]_vars, NEW x \in heard' \ thrown'
             PROVE  result'[x] \in {"done", "failed"}
  BY DEF HeardOnce
<1> USE EventSubAssumption
<1>0. /\ x \in Calls /\ result \in [Calls -> Results]
      /\ \A y \in heard \ thrown : result[y] \in {"done", "failed"}
      /\ \A y \in pending \cup taken : result[y] = "pending"
  <2>1. \A y \in pending \cup taken : y \in Calls
    BY DEF InductiveInvariant, TypeOK, CallTypes, Calls
  <2>2. x \in Calls  BY TypeStep DEF TypeOK, CallTypes
  <2>3. QED  BY <2>1, <2>2 DEF InductiveInvariant, HeardOnce, AccountedFor, TypeOK, CallTypes
<1>k. ASSUME UNCHANGED <<heard, thrown>>,
             result[x] \in {"done", "failed"} => result'[x] = result[x]
      PROVE  result'[x] \in {"done", "failed"}
  BY <1>0, <1>k
<1>a. ASSUME NEW y, NEW how \in {"done", "failed"}, Answer(y, how), UNCHANGED thrown
      PROVE  result'[x] \in {"done", "failed"}
  <2>1. /\ x = y => result'[x] = how
        /\ x # y => result'[x] = result[x] /\ x \in heard \ thrown
    BY <1>0, <1>a DEF Answer, End
  <2>2. QED  BY <1>0, <1>a, <2>1
<1>e. ASSUME NEW y, NEW how, End(y, how), result[y] \notin {"done", "failed"},
             UNCHANGED <<heard, thrown>>
      PROVE  result'[x] \in {"done", "failed"}
  <2>1. x # y => result'[x] = result[x]  BY <1>0, <1>e DEF End
  <2>2. QED  BY <1>0, <1>e, <1>k, <2>1
<1>1. CASE Api
  <2>1. CASE Start \/ Stop
    BY <1>0, <1>k, <2>1 DEF Start, Stop, InductiveInvariant, TypeOK, CallTypes
  <2>2. CASE \E y \in Opens \cup Queries : Ask(y)
    BY <1>e, <2>2 DEF Ask, Send
  <2>3. ASSUME NEW y \in Subs,
               Subscribe(y) \/ SubscribeSend(y) \/ SubscribeThrows(y) \/ ConsumerGone(y)
        PROVE  result'[x] \in {"done", "failed"}
    BY <1>e, <1>k, <2>3 DEF Subscribe, SubscribeSend, SubscribeThrows, ConsumerGone, Send
  <2>4. ASSUME NEW d \in Deletes, Delete(d) PROVE result'[x] \in {"done", "failed"}
    BY <1>a, <1>e, <2>4 DEF Delete, Send
  <2>5. QED  BY <1>1, <2>1, <2>2, <2>3, <2>4 DEF Api
<1>2. CASE Twitch
  BY <1>2, <1>k DEF Twitch, Serve, Fail, LoseAnswer, local
<1>3. ASSUME NEW a \in answers, Handle(a) PROVE result'[x] \in {"done", "failed"}
  BY <1>3, <1>a, <1>k
     DEF Handle, HandleToken, HandleFind, HandleCreate, CreateFailed, BeginFinish, HandleDelete,
         HandleOther
<1>4. ASSUME NEW a \in answers, HandleThrows(a) PROVE result'[x] \in {"done", "failed"}
  <2>1. x # a.req.call /\ x \in heard \ thrown  BY <1>4 DEF HandleThrows
  <2>2. result'[x] = result[x]
    BY <1>0, <1>4, <2>1 DEF HandleThrows, AgainOrLost, End
  <2>3. QED  BY <1>0, <2>1, <2>2
<1>5. CASE Finish
  <2>1. ASSUME NEW t \in Subs, SendTaken(t) PROVE result'[x] \in {"done", "failed"}
    <3>1. result[t] = "pending" /\ UNCHANGED <<heard, thrown>> /\ \E how : End(t, how)
      BY <1>0, <2>1 DEF SendTaken, Send
    <3>2. QED  BY <1>e, <3>1
  <2>2. QED  BY <1>5, <1>a, <1>k, <2>1 DEF Finish, TakeLists, OpenShard, FinishEnd
<1>6. CASE FinishThrows
  <2>1. x # finishing.call /\ x \in heard \ thrown  BY <1>6 DEF FinishThrows
  <2>2. result'[x] = result[x]
    BY <1>0, <1>6, <2>1 DEF FinishThrows
  <2>3. QED  BY <1>0, <2>1, <2>2
<1>7. CASE RunDeferred \/ \E c \in DOMAIN conns : Welcome(c) \/ Reconnect(c) \/ Closing(c)
  BY <1>7, <1>k DEF RunDeferred, Welcome, Reconnect, Closing, Close
<1>8. CASE UNCHANGED vars
  BY <1>8, <1>k DEF vars, local
<1>9. QED  BY <1>1, <1>2, <1>3, <1>4, <1>5, <1>6, <1>7, <1>8, ClosingSteps DEF Next, Io

------------------------------------------------------------------------------
(* The waiting subscriptions, and the conduit a subscription is sent for.     *)

LEMMA UsesStay == [Next]_vars => UNCHANGED use
<1>1. Api => UNCHANGED use
  BY DEF Api, Start, Stop, Ask, Subscribe, SubscribeSend, SubscribeThrows, ConsumerGone, Delete, use
<1>2. Twitch => UNCHANGED use
  BY DEF Twitch, Serve, Fail, LoseAnswer, local
<1>3. Io => UNCHANGED use
  <2>1. RunDeferred \/ (\E c \in DOMAIN conns : Welcome(c) \/ Reconnect(c) \/ Closing(c)) => UNCHANGED use
    BY DEF RunDeferred, Welcome, Reconnect, Closing, Close
  <2>2. (\E a \in answers : Handle(a) \/ HandleThrows(a)) => UNCHANGED use
    BY DEF Handle, HandleThrows
  <2>3. Finish \/ FinishThrows => UNCHANGED use
    BY DEF Finish, TakeLists, SendTaken, OpenShard, FinishEnd, FinishThrows
  <2>4. QED  BY <2>1, <2>2, <2>3, ClosingSteps DEF Io
<1>4. QED  BY <1>1, <1>2, <1>3 DEF Next, vars, local

\* No `completed` is forgotten to have thrown: what held as long as no call that opens the
\* conduit threw held before.
LEMMA ThrownStay == [Next]_vars => thrown \subseteq thrown' /\ (OpensOnce' => OpensOnce)
<1>1. Api => UNCHANGED thrown
  BY DEF Api, Start, Stop, Ask, Subscribe, SubscribeSend, SubscribeThrows, ConsumerGone, Delete
<1>2. Twitch => UNCHANGED thrown
  BY DEF Twitch, Serve, Fail, LoseAnswer, local
<1>3. Io => thrown \subseteq thrown'
  <2>1. RunDeferred \/ (\E c \in DOMAIN conns : Welcome(c) \/ Reconnect(c) \/ Closing(c)) => UNCHANGED thrown
    BY DEF RunDeferred, Welcome, Reconnect, Closing, Close
  <2>2. (\E a \in answers : Handle(a) \/ HandleThrows(a)) => thrown \subseteq thrown'
    BY DEF Handle, HandleThrows
  <2>3. Finish \/ FinishThrows => thrown \subseteq thrown'
    BY DEF Finish, TakeLists, SendTaken, OpenShard, FinishEnd, FinishThrows
  <2>4. QED  BY <2>1, <2>2, <2>3, ClosingSteps DEF Io
<1>4. QED  BY <1>1, <1>2, <1>3, UsesStay DEF Next, vars, local, OpensOnce, use

\* Nothing throws where nothing may.
LEMMA ThrowSteps ==
  ASSUME "throw" \notin uses
  PROVE  /\ ~FinishThrows /\ \A a \in answers : ~HandleThrows(a)
         /\ \A t \in Subs : ~SubscribeThrows(t)
BY DEF FinishThrows, HandleThrows, SubscribeThrows

LEMMA PendingStep == InductiveInvariant /\ [Next]_vars => PendingOnlyUnready'
<1> SUFFICES ASSUME PendingOnlyUnready, [Next]_vars PROVE PendingOnlyUnready'
  BY DEF InductiveInvariant
<1> USE DEF PendingOnlyUnready
<1>1. CASE Api
  BY <1>1
     DEF Api, Start, Stop, Ask, Subscribe, SubscribeSend, SubscribeThrows, ConsumerGone, Delete
<1>2. CASE Twitch
  BY <1>2 DEF Twitch, Serve, Fail, LoseAnswer, local
<1>3. ASSUME NEW a \in answers, Handle(a) PROVE PendingOnlyUnready'
  BY <1>3
     DEF Handle, HandleToken, HandleFind, HandleCreate, HandleDelete, ForgetConduit, HandleOther
<1>4. CASE Finish \/ FinishThrows \/ \E a \in answers : HandleThrows(a)
  BY <1>4
     DEF Finish, TakeLists, TakePending, SendTaken, OpenShard, FinishEnd, FinishThrows, HandleThrows,
         ForgetConduit
<1>5. CASE RunDeferred \/ \E c \in DOMAIN conns : Welcome(c) \/ Reconnect(c) \/ Closing(c)
  BY <1>5 DEF RunDeferred, Welcome, Reconnect, Closing, Close
<1>6. CASE UNCHANGED vars
  BY <1>6 DEF vars, local
<1>7. QED  BY <1>1, <1>2, <1>3, <1>4, <1>5, <1>6, ClosingSteps DEF Next, Io

\* A subscription of the kind a call is sent as.
LEMMA SubscribeKind ==
  ASSUME TypeOK, NEW x \in Calls \ Deletes
  PROVE  /\ EnsureToken(x).kind # "patch" /\ EnsureToken(x).kind # "delete"
         /\ Continue(x).kind # "patch" /\ Continue(x).kind # "delete"
         /\ EnsureToken(x).kind = "subscribe" => x \in Subs /\ EnsureToken(x).conduit = conduitId
         /\ Continue(x).kind = "subscribe" => x \in Subs /\ Continue(x).conduit = conduitId
<1> USE EventSubAssumption DEF Calls
<1>1. CASE x \in Opens
  BY <1>1 DEF EnsureToken, Continue, TokenReq, FindReq
<1>2. CASE x \in Subs
  BY <1>2 DEF EnsureToken, Continue, TokenReq, SubscribeReq
<1>3. CASE x \in Queries
  BY <1>3 DEF EnsureToken, Continue, TokenReq, QueryReq
<1>4. QED  BY <1>1, <1>2, <1>3

\* The calls that are under way.
LEMMA CarriedIsCalled ==
  ASSUME InductiveInvariant
  PROVE  /\ \A r \in reqs : r.call \in Calls => result[r.call] = "called"
         /\ \A a \in answers : a.req.call \in Calls => result[a.req.call] = "called"
         /\ finishing # None => finishing.call \in Opens /\ result[finishing.call] = "called"
<1>1. \A x \in Calls : Carried(x) \/ Finishing(x) => result[x] = "called"
  BY DEF InductiveInvariant, AccountedFor
<1>2. finishing # None => finishing.call \in Opens /\ Finishing(finishing.call)
  BY DEF InductiveInvariant, TypeOK, CallTypes, Finishing
<1>3. QED  BY <1>1, <1>2 DEF Carried, Calls

\* While a call that opens the conduit is under way, and alone, there is no conduit.
LEMMA NothingOpen ==
  ASSUME InductiveInvariant, OpensOnce, NEW o \in Opens, Carried(o)
  PROVE  finishing = None /\ conduitId = None /\ ~ready /\ shards = <<>>
<1>1. result[o] = "called" /\ CarriedOnce(o)
  BY DEF InductiveInvariant, AccountedFor, Calls
<1>2. finishing = None
  <2>1. finishing # None => finishing.call = o
    BY <1>1, CarriedIsCalled DEF InductiveInvariant, OpensAlone
  <2>2. QED  BY <1>1, <2>1 DEF CarriedOnce, Finishing
<1>3. QED
  BY <1>1, <1>2 DEF InductiveInvariant, OpensAlone, ShardsInOrder, ConduitComplete

\* conduit_ready_ is never set without conduit_id_, nor is there a shard.
LEMMA ReadyHasConduit ==
  ASSUME InductiveInvariant
  PROVE  /\ finishing # None => conduitId # None
         /\ ready => conduitId # None
         /\ conduitId = None => shards = <<>>
<1>1. finishing # None => conduitId \in Opens
  BY DEF InductiveInvariant, OpensAlone, TypeOK, CallTypes
<1>2. conduitId \in Opens => conduitId # None
  BY EventSubAssumption DEF Calls
<1>3. QED
  BY <1>1, <1>2 DEF InductiveInvariant, ShardsInOrder, ConduitComplete

LEMMA NamedStep == InductiveInvariant /\ [Next]_vars => Named'
<1> SUFFICES ASSUME InductiveInvariant, [Next]_vars, "delete" \notin uses
             PROVE  /\ NamesAConduit'
                    /\ \A d \in Deletes : result'[d] = "new"
                    /\ \A s \in Subs : result'[s] \in {"checked", "called"} => conduitId' # None
  BY UsesStay DEF Named, use
<1> DEFINE Goal == /\ NamesAConduit'
                   /\ \A d \in Deletes : result'[d] = "new"
                   /\ \A s \in Subs : result'[s] \in {"checked", "called"} => conduitId' # None
<1> USE EventSubAssumption DEF NamesAConduit
<1>0. /\ TypeOK /\ NamesAConduit /\ \A d \in Deletes : result[d] = "new"
      /\ \A s \in Subs : result[s] \in {"checked", "called"} => conduitId # None
      /\ result \in [Calls -> Results]
  BY DEF InductiveInvariant, Named, TypeOK, CallTypes
<1>e. ASSUME NEW x, NEW how \in {"done", "failed", "pending", "dropped", "lost"}, End(x, how), x \notin Deletes
      PROVE  /\ \A d \in Deletes : result'[d] = "new"
             /\ \A s \in Subs : result'[s] \in {"checked", "called"} => conduitId # None
  BY <1>0, <1>e DEF End, Calls
<1>1. CASE Start
  BY <1>0, <1>1 DEF Start
<1>2. CASE Stop
  BY <1>0, <1>2 DEF Stop, TypeOK, CallTypes, Calls
<1>3. ASSUME NEW x \in Opens \cup Queries, Ask(x) PROVE Goal
  <2>1. EnsureToken(x).kind # "subscribe"  BY <1>0, SubscribeKind DEF Calls
  <2>2. QED  BY <1>0, <1>3, <2>1 DEF Ask, Send, End, Calls
<1>4. ASSUME NEW s \in Subs, Subscribe(s) \/ SubscribeThrows(s) PROVE Goal
  <2>1. CASE SubscribeThrows(s)
    BY <1>0, <1>e, <2>1 DEF SubscribeThrows, Calls
  <2>2. CASE Subscribe(s)
    BY <1>0, <2>2, ReadyHasConduit DEF Subscribe, End, Calls
  <2>3. QED  BY <1>4, <2>1, <2>2
<1>5. ASSUME NEW s \in Subs, SubscribeSend(s) PROVE Goal
  <2>1. conduitId # None  BY <1>0, <1>5 DEF SubscribeSend
  <2>2. EnsureToken(s).kind = "subscribe" => EnsureToken(s).conduit = conduitId
    BY <1>0, SubscribeKind DEF Calls
  <2>3. SubscribeReq(s, conduitId).conduit = conduitId  BY DEF SubscribeReq
  <2>4. NamesAConduit'
    BY <1>0, <1>5, <2>1, <2>2, <2>3 DEF SubscribeSend, Send
  <2>5. QED  BY <1>0, <1>5, <2>1, <2>4 DEF SubscribeSend, Send, End, Calls
<1>6. ASSUME NEW s \in Subs, ConsumerGone(s) PROVE Goal
  BY <1>0, <1>6 DEF ConsumerGone
<1>7. ASSUME NEW d \in Deletes, Delete(d) PROVE Goal
  BY <1>7 DEF Delete, MayDelete
<1>8. CASE Twitch
  BY <1>0, <1>8 DEF Twitch, Serve, Fail, LoseAnswer, local
<1>9. ASSUME NEW a \in answers, Handle(a) PROVE Goal
  <2>1. a.req \in Requests  BY <1>0 DEF TypeOK, CallTypes
  <2>2. a.req.call \notin Deletes
    BY <1>0, CarriedIsCalled DEF Calls
  <2>3. CASE HandleToken(a)
    <3>1. a.req.call \in Calls \ Deletes  BY <2>1, <2>3, RequestKinds DEF HandleToken
    <3>2. Continue(a.req.call).kind = "subscribe" =>
            a.req.call \in Subs /\ Continue(a.req.call).conduit = conduitId
      BY <1>0, <3>1, SubscribeKind
    <3>3. a.req.call \in Subs => conduitId # None
      BY <1>0, <3>1, CarriedIsCalled
    <3>4. QED  BY <1>0, <1>e, <2>2, <2>3, <3>2, <3>3 DEF HandleToken, Answer
  <2>4. CASE HandleFind(a)
    BY <1>0, <2>4 DEF HandleFind, BeginFinish, Publish, CreateReq, Calls
  <2>5. CASE HandleCreate(a)
    BY <1>0, <1>e, <2>2, <2>5 DEF HandleCreate, BeginFinish, Publish, CreateFailed, Answer, Calls
  <2>6. CASE HandleDelete(a)
    BY <2>1, <2>2, <2>6, RequestKinds DEF HandleDelete
  <2>7. CASE HandleOther(a)
    BY <1>0, <1>e, <2>2, <2>7 DEF HandleOther, Answer
  <2>8. QED  BY <1>9, <2>3, <2>4, <2>5, <2>6, <2>7 DEF Handle
<1>10. ASSUME Finish \/ FinishThrows \/ \E a \in answers : HandleThrows(a) PROVE Goal
  <2>1. /\ finishing # None => conduitId # None /\ finishing.call \in Opens
        /\ taken # {} => finishing # None
        /\ taken \subseteq Subs
    BY <1>0, ReadyHasConduit, CarriedIsCalled, TakenAlone DEF TypeOK, CallTypes
  <2>2. CASE TakeLists \/ OpenShard
    BY <1>0, <2>2 DEF TakeLists, OpenShard
  <2>3. ASSUME NEW t \in Subs, SendTaken(t) PROVE Goal
    <3>1. conduitId # None /\ UNCHANGED conduitId  BY <2>1, <2>3 DEF SendTaken
    <3>2. EnsureToken(t).kind = "subscribe" => EnsureToken(t).conduit = conduitId
      BY <1>0, SubscribeKind DEF Calls
    <3>3. SubscribeReq(t, conduitId).conduit = conduitId  BY DEF SubscribeReq
    <3>4. NamesAConduit'  BY <1>0, <2>3, <3>1, <3>2, <3>3 DEF SendTaken, Send
    <3>5. \A d \in Deletes : result'[d] = "new"
      BY <1>0, <2>3 DEF SendTaken, Send, End, Calls
    <3>6. QED  BY <3>1, <3>4, <3>5
  <2>4. CASE FinishEnd
    BY <1>0, <1>e, <2>1, <2>4 DEF FinishEnd, Answer, Calls
  <2>5. CASE FinishThrows
    <3>1. UNCHANGED <<conduitId, reqs>>  BY <2>5 DEF FinishThrows
    <3>2. \A z \in Calls : result'[z] = result[z] \/ (result'[z] = "lost" /\ z \notin Deletes)
      BY <2>1, <2>5 DEF FinishThrows, Calls
    <3>3. QED  BY <1>0, <3>1, <3>2 DEF Calls
  <2>6. ASSUME NEW a \in answers, HandleThrows(a) PROVE Goal
    <3>1. a.req \in Requests /\ a.req.call \in Calls  
      BY <1>0, <2>6, RequestKinds DEF TypeOK, CallTypes, HandleThrows, Calls
    <3>2. a.req.call \notin Deletes  BY <1>0, <3>1, CarriedIsCalled
    <3>3. UNCHANGED <<conduitId, reqs>>
      BY <2>6, <3>1, <3>2, RequestKinds DEF HandleThrows
    <3>4. UNCHANGED result \/ End(a.req.call, "lost")  BY <2>6 DEF HandleThrows, AgainOrLost
    <3>5. QED  BY <1>0, <1>e, <3>2, <3>3, <3>4
  <2>7. QED  BY <1>10, <2>2, <2>3, <2>4, <2>5, <2>6 DEF Finish
<1>11. CASE RunDeferred \/ \E c \in DOMAIN conns : Welcome(c) \/ Reconnect(c) \/ Closing(c)
  <2>1. UNCHANGED <<conduitId, result>>
    BY <1>11 DEF RunDeferred, Welcome, Reconnect, Closing, Close
  <2>2. \A c : PatchReq(c, conduitId).kind # "subscribe"  BY DEF PatchReq
  <2>3. NamesAConduit'
    <3>1. UNCHANGED reqs \/ \E c \in DOMAIN conns : reqs' = reqs \cup {PatchReq(c, conduitId)}
      BY <1>11 DEF RunDeferred, Welcome, Reconnect, Closing, Close
    <3>2. QED  BY <1>0, <2>2, <3>1
  <2>4. QED  BY <1>0, <2>1, <2>3
<1>12. CASE UNCHANGED vars
  BY <1>0, <1>12 DEF vars, local
<1>13. QED
  BY <1>1, <1>2, <1>3, <1>4, <1>5, <1>6, <1>7, <1>8, <1>9, <1>10, <1>11, <1>12,
     ClosingSteps
     DEF Next, Api, Io

LEMMA OpensAloneStep == InductiveInvariant /\ [Next]_vars => OpensAlone'
<1> SUFFICES ASSUME InductiveInvariant, [Next]_vars PROVE OpensAlone'
  OBVIOUS
<1> USE EventSubAssumption
<1>0. /\ TypeOK /\ OpensAlone /\ UNCHANGED uses /\ (OpensOnce' => OpensOnce)
      /\ result \in [Calls -> Results]
  BY UsesStay, ThrownStay DEF InductiveInvariant, TypeOK, CallTypes, use
<1>s. ASSUME UNCHANGED <<conduitId, opening, shards, ready, thrown>>,
             \A o \in Opens : result'[o] = "called" => result[o] = "called"
      PROVE  OpensAlone'
  BY <1>0, <1>s DEF OpensAlone, opening
<1>e. ASSUME NEW x, NEW how \in Results \ {"called"}, End(x, how)
      PROVE  \A o \in Opens : result'[o] = "called" => result[o] = "called"
  BY <1>0, <1>e DEF End, Calls, Results
<1>1. CASE Stop
  BY <1>0, <1>1 DEF Stop, OpensAlone, opening, Calls
<1>2. ASSUME NEW x \in Opens \cup Queries, Ask(x) PROVE OpensAlone'
  <2>1. CASE x \in Opens
    <3>1. OpensOnce => conduitId = None /\ finishing = None /\ \A o \in Opens : result[o] # "called"
      <4>1. OpensOnce => conduitId = None /\ \A o \in Opens : result[o] # "called"
        BY <1>2, <2>1 DEF Ask, MayOpen, OpensOnce
      <4>2. QED  BY <4>1, ReadyHasConduit
    <3>2. QED  BY <1>0, <1>2, <2>1, <3>1 DEF Ask, Send, End, OpensAlone, opening, Calls
  <2>2. CASE x \notin Opens
    BY <1>0, <1>2, <1>s, <2>2 DEF Ask, Send, End, Calls
  <2>3. QED  BY <2>1, <2>2
<1>3. CASE \/ Start
           \/ \E s \in Subs : Subscribe(s) \/ SubscribeSend(s) \/ SubscribeThrows(s) \/ ConsumerGone(s)
           \/ \E d \in Deletes : Delete(d)
  <2>1. ASSUME NEW y \in Calls \ Opens, NEW how, End(y, how)
        PROVE  \A o \in Opens : result'[o] = "called" => result[o] = "called"
    BY <1>0, <2>1 DEF End, Calls
  <2>2. Subs \cup Deletes \subseteq Calls \ Opens  BY DEF Calls
  <2>3. QED
    BY <1>3, <1>s, <2>1, <2>2
       DEF Start, Subscribe, SubscribeSend, SubscribeThrows, ConsumerGone, Delete, Send, Answer
<1>4. CASE Twitch
  BY <1>4, <1>s DEF Twitch, Serve, Fail, LoseAnswer, local
<1>5. ASSUME NEW a \in answers, Handle(a) PROVE OpensAlone'
  <2>1. a.req \in Requests  BY <1>0 DEF TypeOK, CallTypes
  <2>b. ASSUME NEW id \in Opens, BeginFinish(a.req.call, id), a.req.call \in Opens,
               UNCHANGED <<ready, shards, taken, opened, thrown>>, finishing = None
        PROVE  OpensAlone'
    <3>1. Carried(a.req.call)  BY DEF Carried
    <3>2. OpensOnce => ~ready /\ shards = <<>>  BY <2>b, <3>1, NothingOpen
    <3>3. finishing' = [call |-> a.req.call, id |-> id] /\ conduitId' = id /\ UNCHANGED result
      BY <2>b DEF BeginFinish, Publish
    <3>4. finishing' # None /\ finishing'.id = conduitId'  BY <2>b, <3>3
    <3>5. QED  BY <1>0, <2>b, <3>2, <3>3, <3>4 DEF OpensAlone, OpensOnce
  <2>2. CASE HandleToken(a)
    BY <1>5, <1>s, <1>e, <2>2 DEF HandleToken, Handle, Answer, Results, opening
  <2>3. CASE HandleFind(a)
    BY <1>5, <1>s, <2>1, <2>3, <2>b, RequestKinds DEF HandleFind, Handle, opening
  <2>4. CASE HandleCreate(a)
    BY <1>5, <1>s, <1>e, <2>1, <2>4, <2>b, RequestKinds
       DEF HandleCreate, Handle, CreateFailed, Answer, Results, opening
  <2>5. CASE HandleDelete(a)
    <3>1. /\ conduitId' = None /\ UNCHANGED <<opening, thrown>> /\ finishing = None
          /\ \A o \in Opens : result'[o] = "called" => result[o] = "called"
      BY <1>5, <1>e, <2>5 DEF HandleDelete, ForgetConduit, Handle, Answer, Results, opening
    <3>2. QED  BY <1>0, <3>1 DEF OpensAlone, opening
  <2>6. CASE HandleOther(a)
    BY <1>5, <1>s, <1>e, <2>6 DEF HandleOther, Handle, Answer, Results, opening
  <2>7. QED  BY <1>5, <2>2, <2>3, <2>4, <2>5, <2>6 DEF Handle
<1>6. CASE Finish
  <2>1. CASE TakeLists
    <3>1. 0 # None /\ Len(shards) \in Nat /\ (shards = <<>> => Len(shards) = 0)
      BY <1>0 DEF TypeOK, ShardTypes
    <3>2. QED  BY <1>0, <2>1, <3>1 DEF TakeLists, OpensAlone, OpensOnce
  <2>2. ASSUME NEW t \in Subs, SendTaken(t) PROVE OpensAlone'
    <3>1. t \in Calls \ Opens  BY DEF Calls
    <3>2. \A o \in Opens : result'[o] = result[o]
      BY <1>0, <2>2, <3>1 DEF SendTaken, Send, End, Calls
    <3>3. /\ UNCHANGED <<conduitId, finishing, opened, shards, ready, thrown>> /\ opened # None
      BY <2>2, TakenAlone DEF SendTaken
    <3>4. QED  BY <1>0, <3>2, <3>3 DEF OpensAlone
  <2>3. CASE OpenShard
    <3>1. /\ opened \in Nat /\ opened + 1 \in Nat /\ opened + 1 # None
          /\ Len(shards') = Len(shards) + 1
      <4>1. shards' = Append(shards, Len(conns) + 1) /\ shards \in Seq(DOMAIN conns)
        BY <1>0, <2>3 DEF OpenShard, TypeOK, ShardTypes
      <4>2. opened \in Nat  BY <2>3, TakenAlone DEF OpenShard
      <4>3. QED  BY <4>1, <4>2
    <3>2. /\ UNCHANGED <<conduitId, finishing, taken, ready, thrown, result>> /\ finishing # None
          /\ opened # None /\ opened' = opened + 1 /\ taken = {}
      BY <2>3 DEF OpenShard
    <3>3. QED  BY <1>0, <3>1, <3>2 DEF OpensAlone
  <2>4. CASE FinishEnd
    <3>1. finishing' = None /\ finishing.call \in Opens /\ result[finishing.call] = "called"
      BY <2>4, CarriedIsCalled DEF FinishEnd
    <3>2. \A o \in Opens : result'[o] = "called" => o # finishing.call /\ result[o] = "called"
      BY <1>0, <2>4 DEF FinishEnd, Answer, End, Calls
    <3>3. OpensOnce => \A o \in Opens : result'[o] # "called"
      BY <1>0, <3>1, <3>2 DEF OpensAlone
    <3>4. taken' = {} /\ opened' = None /\ UNCHANGED thrown  BY <2>4 DEF FinishEnd
    <3>5. QED  BY <1>0, <3>1, <3>3, <3>4 DEF OpensAlone
  <2>5. QED  BY <1>6, <2>1, <2>2, <2>3, <2>4 DEF Finish
<1>t. CASE FinishThrows \/ \E a \in answers : HandleThrows(a)
  <2>1. CASE FinishThrows
    <3>1. /\ finishing' = None /\ taken' = {} /\ opened' = None /\ "throw" \in uses
          /\ finishing.call \in Opens /\ finishing.call \in thrown'
      BY <2>1, CarriedIsCalled DEF FinishThrows
    <3>2. ~OpensOnce'  BY <3>1 DEF OpensOnce
    <3>3. QED  BY <1>0, <3>1, <3>2 DEF OpensAlone
  <2>2. ASSUME NEW a \in answers, HandleThrows(a) PROVE OpensAlone'
    <3>1. /\ "throw" \in uses /\ finishing = None /\ UNCHANGED opening
          /\ conduitId' = conduitId \/ conduitId' = None
      BY <2>2 DEF HandleThrows, ForgetConduit
    <3>2. UNCHANGED result \/ End(a.req.call, "lost")  BY <2>2 DEF HandleThrows, AgainOrLost
    <3>3. \A o \in Opens : result'[o] = "called" => result[o] = "called"
      BY <1>e, <3>2 DEF Results
    <3>4. QED  BY <1>0, <3>1, <3>3 DEF OpensAlone, opening
  <2>3. QED  BY <1>t, <2>1, <2>2
<1>7. CASE RunDeferred
  <2>1. RunDeferred => finishing = None /\ UNCHANGED <<conduitId, opening, ready, thrown, result>>
    BY DEF RunDeferred
  <2>2. QED  BY <1>0, <1>7, <2>1 DEF OpensAlone, opening
<1>8. CASE \E c \in DOMAIN conns : Welcome(c) \/ Reconnect(c) \/ Closing(c)
  BY <1>8, <1>s DEF Welcome, Reconnect, Closing, Close
<1>10. CASE UNCHANGED vars
  BY <1>10, <1>s DEF vars, local
<1>11. QED
  BY <1>1, <1>2, <1>3, <1>4, <1>5, <1>6, <1>t, <1>7, <1>8, <1>10, ClosingSteps DEF Next, Api, Io

------------------------------------------------------------------------------
(* The connections and the order of the shards.                               *)

\* The elements of the sequences.
LEMMA Elements ==
  ASSUME TypeOK
  PROVE  /\ Len(conns) \in Nat /\ DOMAIN conns = 1..Len(conns)
         /\ \A c \in DOMAIN conns : conns[c] \in Conn
         /\ Len(shards) \in Nat /\ DOMAIN shards = 1..Len(shards)
         /\ \A i \in DOMAIN shards : shards[i] \in DOMAIN conns
         /\ Range(shards) \subseteq DOMAIN conns
         /\ \A k \in DOMAIN deferred : deferred[k] \in Move /\ deferred[k].conn \in DOMAIN conns
         /\ shardCount \in Nat \ {0}
<1> USE DEF TypeOK, ShardTypes
<1>1. Len(conns) \in Nat /\ DOMAIN conns = 1..Len(conns) /\ \A c \in DOMAIN conns : conns[c] \in Conn
  OBVIOUS
<1>2. /\ Len(shards) \in Nat /\ DOMAIN shards = 1..Len(shards)
      /\ \A i \in DOMAIN shards : shards[i] \in DOMAIN conns
  OBVIOUS
<1>3. \A k \in DOMAIN deferred : deferred[k] \in Move /\ deferred[k].conn \in DOMAIN conns
  <2>1. \A k \in DOMAIN deferred : deferred[k] \in Move  OBVIOUS
  <2>2. QED  BY <2>1 DEF Move
<1>4. QED  BY <1>1, <1>2, <1>3 DEF Range

LEMMA SetConnKeeps ==
  ASSUME TypeOK, NEW c \in DOMAIN conns, NEW st, SetConn(c, st)
  PROVE  /\ DOMAIN conns' = DOMAIN conns
         /\ \A d \in DOMAIN conns : conns'[d].shard = conns[d].shard /\ (d # c => conns'[d] = conns[d])
         /\ conns'[c].state = st
<1>1. conns[c] \in Conn  BY Elements
<1>2. conns' = [conns EXCEPT ![c] = [conns[c] EXCEPT !.state = st]]  BY DEF SetConn
<1>3. QED  BY <1>1, <1>2, Elements DEF Conn

LEMMA ReconnectKeeps ==
  ASSUME TypeOK, NEW c \in DOMAIN conns, Reconnect(c)
  PROVE  /\ \A d \in DOMAIN conns : d \in DOMAIN conns' /\ conns'[d] = conns[d]
         /\ \A k \in DOMAIN deferred' :
              \/ k \in DOMAIN deferred /\ deferred'[k] = deferred[k]
              \/ /\ deferred'[k].conn \notin DOMAIN conns
                 /\ conns'[deferred'[k].conn] = [shard |-> deferred'[k].shard, state |-> "connecting"]
<1> DEFINE n == Len(conns) + 1
           m == [shard |-> conns[c].shard, conn |-> n]
<1>1. Len(conns) \in Nat /\ conns \in Seq(Conn) /\ deferred \in Seq(Move) /\ n \notin DOMAIN conns
  BY Elements DEF TypeOK, ShardTypes
<1>2. conns' = Append(conns, Replacement(c)) /\ deferred' = Append(deferred, m)
  BY DEF Reconnect
<1>3. \A d \in DOMAIN conns : d \in DOMAIN conns' /\ conns'[d] = conns[d]
  BY <1>1, <1>2
<1>4. conns'[n] = Replacement(c)  BY <1>1, <1>2
<1>5. \A k \in DOMAIN deferred' :
        (k \in DOMAIN deferred /\ deferred'[k] = deferred[k]) \/ deferred'[k] = m
  BY <1>1, <1>2
<1>6. m.conn = n /\ conns'[m.conn] = [shard |-> m.shard, state |-> "connecting"]
  BY <1>4 DEF Replacement
<1> HIDE DEF m, n
<1>7. QED  BY <1>1, <1>3, <1>5, <1>6

\* A shard is appended at the index of its ID, if that is how many there are.
LEMMA OpenShardKeeps ==
  ASSUME TypeOK, OpenShard
  PROVE  /\ \A d \in DOMAIN conns : d \in DOMAIN conns' /\ conns'[d] = conns[d]
         /\ Range(shards') \cap DOMAIN conns \subseteq Range(shards)
         /\ \A i \in DOMAIN shards' :
              \/ i \in DOMAIN shards /\ shards'[i] = shards[i]
              \/ /\ i = Len(shards) + 1
                 /\ conns'[shards'[i]] = [shard |-> opened, state |-> "connecting"]
<1> DEFINE n == Len(conns) + 1
           new == [shard |-> opened, state |-> "connecting"]
<1>1. /\ Len(conns) \in Nat /\ conns \in Seq(Conn) /\ shards \in Seq(DOMAIN conns)
      /\ DOMAIN conns = 1..Len(conns) /\ Len(shards) \in Nat /\ n \notin DOMAIN conns
  BY Elements DEF TypeOK, ShardTypes
<1>2. conns' = Append(conns, new) /\ shards' = Append(shards, n)
  BY DEF OpenShard
<1> HIDE DEF new
<1>3. (\A d \in DOMAIN conns : d \in DOMAIN conns' /\ conns'[d] = conns[d]) /\ conns'[n] = new
  BY <1>1, <1>2
<1>4. \A i \in DOMAIN shards' :
        \/ i \in DOMAIN shards /\ shards'[i] = shards[i]
        \/ i = Len(shards) + 1 /\ shards'[i] = n
  BY <1>1, <1>2
<1>5. Range(shards') \cap DOMAIN conns \subseteq Range(shards)
  BY <1>1, <1>4 DEF Range
<1>6. QED  BY <1>3, <1>4, <1>5 DEF new

LEMMA DeferredRuns ==
  ASSUME TypeOK, RunDeferred
  PROVE  /\ DOMAIN shards' = DOMAIN shards
         /\ \A i \in DOMAIN shards :
              \/ shards'[i] = shards[i]
              \/ \E k \in DOMAIN deferred : deferred[k].shard = i - 1 /\ shards'[i] = deferred[k].conn
<1>1. shards' = [i \in DOMAIN shards |-> Replaced(i)]  BY DEF RunDeferred
<1>2. ASSUME NEW i \in DOMAIN shards, NEW j \in DOMAIN deferred, Moves(j, i)
      PROVE  \E k \in DOMAIN deferred : deferred[k].shard = i - 1 /\ Replaced(i) = deferred[k].conn
  <2> DEFINE k == CHOOSE k \in DOMAIN deferred : Moves(k, i)
  <2>1. k \in DOMAIN deferred /\ Moves(k, i)  BY <1>2
  <2>2. Replaced(i) = deferred[k].conn  BY <1>2 DEF Replaced
  <2> HIDE DEF k
  <2>3. QED  BY <2>1, <2>2 DEF Moves
<1>3. \A i \in DOMAIN shards : (\A k \in DOMAIN deferred : ~Moves(k, i)) => Replaced(i) = shards[i]
  BY DEF Replaced
<1>4. QED  BY <1>1, <1>2, <1>3

\* What the steps leave alone.
LEMMA ApiFrame ==
  Api => \/ Stop /\ UNCHANGED opening
         \/ UNCHANGED <<conduitId, ready, shards, conns, deferred, finishing, answers, server>>
BY DEF Api, Start, Stop, Ask, Subscribe, SubscribeSend, SubscribeThrows, ConsumerGone, Delete,
       opening

\* The steps by what becomes of the shards.
LEMMA ShardsFrame ==
  ASSUME [Next]_vars
  PROVE  \/ UNCHANGED <<shards, conns, deferred>>
         \/ shards' = <<>> /\ UNCHANGED conns /\ (deferred' = deferred \/ deferred' = <<>>)
         \/ OpenShard \/ RunDeferred
         \/ \E c \in DOMAIN conns : Welcome(c) \/ Reconnect(c) \/ Closing(c)
<1>1. CASE Api
  BY <1>1, ApiFrame DEF Stop
<1>2. CASE Twitch
  BY <1>2 DEF Twitch, Serve, Fail, LoseAnswer, local
<1>3. ASSUME NEW a \in answers, Handle(a)
      PROVE  (shards' = shards \/ shards' = <<>>) /\ UNCHANGED <<conns, deferred>>
  BY <1>3
     DEF Handle, HandleToken, HandleFind, HandleCreate, HandleDelete, ForgetConduit, HandleOther
<1>4. CASE FinishThrows \/ \E a \in answers : HandleThrows(a)
  BY <1>4 DEF FinishThrows, HandleThrows, ForgetConduit
<1>5. CASE Finish
  BY <1>5 DEF Finish, TakeLists, SendTaken, FinishEnd
<1>6. QED  BY <1>1, <1>2, <1>3, <1>4, <1>5, ClosingSteps DEF Next, Io, vars, local

\* The steps by what becomes of the conduit.
LEMMA ConduitFrame ==
  ASSUME [Next]_vars, InductiveInvariant
  PROVE  \/ UNCHANGED <<conduitId, finishing, ready>> /\ (shards = <<>> => shards' = <<>>)
         \/ /\ conduitId' = None /\ ~ready' /\ shards' = <<>>
            /\ finishing = None /\ finishing' = None
            /\ Stop \/ \E a \in answers : (Handle(a) /\ HandleDelete(a)) \/ HandleThrows(a)
         \/ /\ finishing = None /\ finishing' # None /\ conduitId' = finishing'.id
            /\ UNCHANGED <<ready, shards>>
            /\ \E o \in Opens : finishing'.call = o /\ Carried(o)
            /\ \E a \in answers : a.req.kind \in {"find", "create"} /\ finishing'.id = a.answer
         \/ UNCHANGED conduitId /\ conduitId # None /\ (finishing' = None => ready')
<1>1. CASE Api
  BY <1>1, ApiFrame DEF Stop, opening
<1>2. CASE Twitch
  BY <1>2 DEF Twitch, Serve, Fail, LoseAnswer, local, opening
<1>3. ASSUME NEW a \in answers, Handle(a)
      PROVE  \/ UNCHANGED <<conduitId, finishing, ready, shards>>
             \/ /\ conduitId' = None /\ ~ready' /\ shards' = <<>>
                /\ finishing = None /\ finishing' = None /\ HandleDelete(a)
             \/ /\ finishing = None /\ finishing' # None /\ conduitId' = finishing'.id
                /\ UNCHANGED <<ready, shards>>
                /\ \E o \in Opens : finishing'.call = o /\ Carried(o)
                /\ a.req.kind \in {"find", "create"} /\ finishing'.id = a.answer
  <2>1. finishing = None /\ a.req \in Requests  BY <1>3 DEF Handle, InductiveInvariant, TypeOK, CallTypes
  <2>2. ASSUME a.req.call \in Opens, a.answer \in Opens, BeginFinish(a.req.call, a.answer)
        PROVE  /\ finishing' # None /\ conduitId' = finishing'.id /\ finishing'.id = a.answer
               /\ \E o \in Opens : finishing'.call = o /\ Carried(o)
    <3>1. /\ finishing' = [call |-> a.req.call, id |-> a.answer] /\ conduitId' = a.answer
          /\ [call |-> a.req.call, id |-> a.answer] # None
      BY <2>2, EventSubAssumption DEF BeginFinish, Publish
    <3>2. Carried(a.req.call)  BY DEF Carried
    <3>3. QED  BY <2>2, <3>1, <3>2
  <2>3. CASE HandleFind(a)
    BY <2>1, <2>2, <2>3, RequestKinds DEF HandleFind
  <2>4. CASE HandleCreate(a)
    BY <2>1, <2>2, <2>4, RequestKinds DEF HandleCreate
  <2>5. QED
    BY <1>3, <2>1, <2>3, <2>4
       DEF Handle, HandleToken, HandleDelete, ForgetConduit, HandleOther
<1>4. CASE RunDeferred
  <2>1. shards = <<>> => shards' = <<>>
    <3>1. shards = <<>> => DOMAIN shards = {}  OBVIOUS
    <3>2. shards' = [i \in DOMAIN shards |-> Replaced(i)]  BY <1>4 DEF RunDeferred
    <3>3. QED  BY <3>1, <3>2
  <2>2. QED  BY <1>4, <2>1 DEF RunDeferred, opening
<1>5. CASE \E c \in DOMAIN conns : Welcome(c) \/ Reconnect(c) \/ Closing(c)
  BY <1>5 DEF Welcome, Reconnect, Closing, Close, opening
<1>6. CASE Finish \/ FinishThrows
  <2>1. UNCHANGED conduitId
    BY <1>6 DEF Finish, TakeLists, SendTaken, OpenShard, FinishEnd, FinishThrows
  <2>2. taken # {} \/ opened # None => finishing # None /\ ready  BY TakenAlone
  <2>3. finishing # None /\ (finishing' = None => ready')
    <3>1. CASE FinishEnd \/ FinishThrows
      <4>1. shardCount # None  BY EventSubAssumption DEF InductiveInvariant, TypeOK, ShardTypes
      <4>2. QED  BY <2>2, <3>1, <4>1 DEF FinishEnd, FinishThrows
    <3>2. QED  BY <1>6, <2>2, <3>1 DEF Finish, TakeLists, SendTaken, OpenShard
  <2>4. QED  BY <2>1, <2>3, ReadyHasConduit
<1>7. ASSUME NEW a \in answers, HandleThrows(a)
      PROVE  \/ UNCHANGED <<conduitId, finishing, ready, shards>>
             \/ /\ conduitId' = None /\ ~ready' /\ shards' = <<>>
                /\ finishing = None /\ finishing' = None
  BY <1>7 DEF HandleThrows, ForgetConduit, opening
<1>8. QED  BY <1>1, <1>2, <1>3, <1>4, <1>5, <1>6, <1>7, ClosingSteps DEF Next, Io, vars, local, opening

LEMMA ShardsInOrderStep == InductiveInvariant /\ [Next]_vars => ShardsInOrder'
<1> SUFFICES ASSUME InductiveInvariant, [Next]_vars PROVE ShardsInOrder'
  OBVIOUS
<1>0. /\ TypeOK /\ Replacing /\ ConduitComplete /\ UNCHANGED uses
      /\ OpensOnce => ShardIndexIsId
      /\ OpensOnce /\ finishing # None /\ opened # None => Len(shards) = opened
      /\ OpensOnce' => OpensOnce
  BY UsesStay, ThrownStay DEF InductiveInvariant, ShardsInOrder, OpensAlone, use
<1>1. ConduitComplete'
  BY <1>0, ConduitFrame DEF ConduitComplete
<1>2. ASSUME OpensOnce PROVE ShardIndexIsId'
  <2>0. \A i \in DOMAIN shards : shards[i] \in DOMAIN conns /\ conns[shards[i]].shard = i - 1
    BY <1>0, <1>2, Elements DEF ShardIndexIsId
  <2>1. CASE UNCHANGED <<shards, conns, deferred>> \/ shards' = <<>>
    BY <2>0, <2>1 DEF ShardIndexIsId
  <2>2. CASE OpenShard
    <3>1. Len(shards) = opened /\ Len(shards) \in Nat
      BY <1>0, <1>2, <2>2, Elements DEF OpenShard
    <3>2. \A i \in DOMAIN shards' : conns'[shards'[i]].shard = i - 1
      BY <1>0, <2>0, <2>2, <3>1, OpenShardKeeps
    <3>3. QED  BY <3>2 DEF ShardIndexIsId
  <2>3. CASE RunDeferred
    <3>1. conns' = conns  BY <2>3 DEF RunDeferred
    <3>2. QED  BY <1>0, <2>0, <2>3, <3>1, DeferredRuns DEF ShardIndexIsId, Replacing
  <2>4. ASSUME NEW c \in DOMAIN conns, Welcome(c) \/ Closing(c) PROVE ShardIndexIsId'
    <3>1. shards' = shards /\ (SetConn(c, "open") \/ SetConn(c, "closed"))
      BY <2>4 DEF Welcome, Closing, Close
    <3>2. \A d \in DOMAIN conns : conns'[d].shard = conns[d].shard
      BY <1>0, <3>1, SetConnKeeps
    <3>3. QED  BY <2>0, <3>1, <3>2 DEF ShardIndexIsId
  <2>5. ASSUME NEW c \in DOMAIN conns, Reconnect(c) PROVE ShardIndexIsId'
    <3>1. shards' = shards  BY <2>5 DEF Reconnect
    <3>2. QED  BY <1>0, <2>0, <2>5, <3>1, ReconnectKeeps DEF ShardIndexIsId
  <2>6. QED  BY <2>1, <2>2, <2>3, <2>4, <2>5, ShardsFrame
<1>3. QED  BY <1>0, <1>1, <1>2 DEF ShardsInOrder

LEMMA ReplacingStep == InductiveInvariant /\ [Next]_vars => Replacing'
<1> SUFFICES ASSUME InductiveInvariant, [Next]_vars PROVE Replacing'
  OBVIOUS
<1>0. /\ TypeOK
      /\ \A k \in DOMAIN deferred :
           /\ deferred[k].conn \in DOMAIN conns /\ deferred[k].conn \notin Range(shards)
           /\ conns[deferred[k].conn].state = "connecting"
           /\ conns[deferred[k].conn].shard = deferred[k].shard
      /\ Range(shards) \subseteq DOMAIN conns
  BY Elements DEF InductiveInvariant, Replacing
<1>1. CASE UNCHANGED <<shards, conns, deferred>>
  BY <1>0, <1>1 DEF Replacing
<1>2. CASE shards' = <<>> /\ UNCHANGED conns /\ (deferred' = deferred \/ deferred' = <<>>)
  <2>1. Range(shards') = {}  BY <1>2 DEF Range
  <2>2. QED  BY <1>0, <1>2, <2>1 DEF Replacing
<1>3. CASE OpenShard
  <2>1. deferred' = deferred  BY <1>3 DEF OpenShard
  <2>2. QED  BY <1>0, <1>3, <2>1, OpenShardKeeps DEF Replacing
<1>4. CASE RunDeferred
  BY <1>4 DEF RunDeferred, Replacing
<1>5. ASSUME NEW c \in DOMAIN conns, Welcome(c) \/ Closing(c) PROVE Replacing'
  <2>1. /\ UNCHANGED <<shards, deferred>> /\ c \in Range(shards)
        /\ SetConn(c, "open") \/ SetConn(c, "closed")
    BY <1>5 DEF Welcome, Closing, Close
  <2>2. \A d \in DOMAIN conns : d # c => conns'[d] = conns[d]
    BY <1>0, <2>1, SetConnKeeps
  <2>3. QED  BY <1>0, <2>1, <2>2 DEF Replacing
<1>6. ASSUME NEW c \in DOMAIN conns, Reconnect(c) PROVE Replacing'
  <2>1. shards' = shards  BY <1>6 DEF Reconnect
  <2>2. ASSUME NEW k \in DOMAIN deferred'
        PROVE  /\ deferred'[k].conn \notin Range(shards)
               /\ conns'[deferred'[k].conn].state = "connecting"
               /\ conns'[deferred'[k].conn].shard = deferred'[k].shard
    <3>1. \A d \in DOMAIN conns : d \in DOMAIN conns' /\ conns'[d] = conns[d]
      BY <1>0, <1>6, ReconnectKeeps
    <3>2. CASE k \in DOMAIN deferred /\ deferred'[k] = deferred[k]
      BY <1>0, <3>1, <3>2
    <3>3. CASE /\ deferred'[k].conn \notin DOMAIN conns
               /\ conns'[deferred'[k].conn] = [shard |-> deferred'[k].shard, state |-> "connecting"]
      BY <1>0, <3>3
    <3>4. QED  BY <1>0, <1>6, <3>2, <3>3, ReconnectKeeps
  <2>3. QED  BY <2>1, <2>2 DEF Replacing
<1>7. QED  BY <1>1, <1>2, <1>3, <1>4, <1>5, <1>6, ShardsFrame

------------------------------------------------------------------------------
(* The assignments and the deletions that are under way.                      *)

\* Where an assignment or a deletion comes from.
LEMMA NewRequests ==
  ASSUME TypeOK, [Next]_vars, NEW r \in reqs', r \notin reqs, r.kind \in {"patch", "delete"}
  PROVE  \/ \E c \in DOMAIN conns : Welcome(c) /\ r = PatchReq(c, conduitId)
         \/ \E d \in Deletes : Delete(d) /\ conduitId # None /\ r = DeleteReq(d, conduitId)
<1> USE EventSubAssumption
<1>1. ASSUME NEW x \in Calls \ Deletes PROVE r # EnsureToken(x) /\ r # Continue(x)
  BY <1>1, SubscribeKind
<1>2. \A s, id : r # SubscribeReq(s, id)  BY DEF SubscribeReq
<1>3. CASE Api
  <2>1. CASE \E x \in Opens \cup Queries : Ask(x)
    BY <1>1, <2>1 DEF Ask, Send, Calls
  <2>2. CASE \E s \in Subs : Subscribe(s) \/ SubscribeSend(s) \/ SubscribeThrows(s) \/ ConsumerGone(s)
    BY <1>1, <1>2, <2>2 DEF Subscribe, SubscribeSend, SubscribeThrows, ConsumerGone, Send, Calls
  <2>3. CASE \E d \in Deletes : Delete(d)
    BY <2>3 DEF Delete, Send
  <2>4. CASE Start \/ Stop
    BY <2>4 DEF Start, Stop
  <2>5. QED  BY <1>3, <2>1, <2>2, <2>3, <2>4 DEF Api
<1>4. CASE Twitch
  BY <1>4 DEF Twitch, Serve, Fail, LoseAnswer
<1>5. ASSUME NEW a \in answers, Handle(a) PROVE FALSE
  <2>1. a.req \in Requests  BY DEF TypeOK, CallTypes
  <2>2. CASE HandleToken(a)
    <3>1. a.req.call \in Calls \ Deletes  BY <2>1, <2>2, RequestKinds DEF HandleToken
    <3>2. QED  BY <1>1, <2>2, <3>1 DEF HandleToken
  <2>3. CASE HandleFind(a)
    BY <2>3 DEF HandleFind, BeginFinish, CreateReq
  <2>4. QED
    BY <1>5, <2>2, <2>3 DEF Handle, HandleCreate, BeginFinish, HandleDelete, HandleOther
<1>6. CASE Finish \/ FinishThrows \/ \E a \in answers : HandleThrows(a)
  <2>1. PICK t \in Subs : SendTaken(t)
    BY <1>6 DEF Finish, TakeLists, OpenShard, FinishEnd, FinishThrows, HandleThrows
  <2>2. r = SubscribeReq(t, conduitId) \/ r = EnsureToken(t)  BY <2>1 DEF SendTaken, Send
  <2>3. QED  BY <1>1, <1>2, <2>2 DEF Calls
<1>7. CASE RunDeferred \/ \E c \in DOMAIN conns : Welcome(c) \/ Reconnect(c) \/ Closing(c)
  BY <1>7 DEF RunDeferred, Welcome, Reconnect, Closing, Close
<1>8. QED  BY <1>3, <1>4, <1>5, <1>6, <1>7, ClosingSteps DEF Next, Io, vars

\* Where an answer comes from.
LEMMA NewAnswers ==
  ASSUME [Next]_vars, NEW a \in answers', a \notin answers
  PROVE  \/ \E r \in reqs : a.req = r /\ ((Serve(r) /\ a.answer \in Replies(r)) \/ Fail(r))
         \/ \E b \in answers : LoseAnswer(b) /\ a.req = b.req
         \/ FinishThrows /\ a.req.kind = "find"
<1>1. CASE Api
  BY <1>1, ApiFrame DEF Stop
<1>2. CASE Io
  <2>1. CASE FinishThrows
    BY <2>1 DEF FinishThrows, FindReq
  <2>2. ASSUME NEW b \in answers, Handle(b) \/ HandleThrows(b) PROVE FALSE
    BY <2>2 DEF Handle, HandleThrows, AgainOrLost
  <2>3. CASE Finish
    BY <2>3 DEF Finish, TakeLists, SendTaken, OpenShard, FinishEnd
  <2>4. CASE RunDeferred \/ \E c \in DOMAIN conns : Welcome(c) \/ Reconnect(c) \/ Closing(c)
    BY <2>4 DEF RunDeferred, Welcome, Reconnect, Closing, Close
  <2>5. QED  BY <1>2, <2>1, <2>2, <2>3, <2>4, ClosingSteps DEF Io
<1>3. ASSUME NEW r \in reqs, Serve(r) PROVE a.req = r /\ a.answer \in Replies(r)
  <2>1. PICK reply \in Replies(r) : answers' = answers \cup {[req |-> r, answer |-> reply]}
    BY <1>3 DEF Serve
  <2>2. a = [req |-> r, answer |-> reply]  BY <2>1
  <2>3. QED  BY <2>1, <2>2
<1>4. ASSUME NEW r \in reqs, Fail(r) PROVE a.req = r
  BY <1>4 DEF Fail
<1>5. ASSUME NEW b \in answers, LoseAnswer(b) PROVE a.req = b.req
  BY <1>5 DEF LoseAnswer
<1>6. QED  BY <1>1, <1>2, <1>3, <1>4, <1>5 DEF Next, Twitch, vars

LEMMA PatchingStep == InductiveInvariant /\ [Next]_vars => Patching'
<1> SUFFICES ASSUME InductiveInvariant, [Next]_vars, NEW r \in reqs', r.kind = "patch"
             PROVE  /\ r.conn \in DOMAIN conns' /\ conns'[r.conn].state # "connecting"
                    /\ OpensOnce /\ r.conn \in Range(shards') => r.conduit = conduitId'
  BY ThrownStay DEF Patching
<1> DEFINE Fine == /\ r.conn \in DOMAIN conns' /\ conns'[r.conn].state # "connecting"
                   /\ r.conn \in Range(shards') => r.conn \in Range(shards)
<1>0. /\ TypeOK /\ Range(shards) \subseteq DOMAIN conns
      /\ \A k \in DOMAIN deferred : conns[deferred[k].conn].state = "connecting"
  BY Elements DEF InductiveInvariant, Replacing
<1>1. ASSUME r \in reqs
      PROVE  /\ r.conn \in DOMAIN conns /\ conns[r.conn].state # "connecting"
             /\ OpensOnce /\ r.conn \in Range(shards) => r.conduit = conduitId
  BY <1>1 DEF InductiveInvariant, Patching
<1>2. ASSUME r \in reqs PROVE Fine
  <2>1. CASE UNCHANGED <<shards, conns, deferred>>
    BY <1>1, <1>2, <2>1
  <2>2. CASE shards' = <<>> /\ UNCHANGED conns
    <3>1. Range(shards') = {}  BY <2>2 DEF Range
    <3>2. QED  BY <1>1, <1>2, <2>2, <3>1
  <2>3. CASE OpenShard
    BY <1>0, <1>1, <1>2, <2>3, OpenShardKeeps
  <2>4. CASE RunDeferred
    <3>1. conns' = conns  BY <2>4 DEF RunDeferred
    <3>2. ASSUME NEW i \in DOMAIN shards', shards'[i] = r.conn PROVE r.conn \in Range(shards)
      <4>1. \/ i \in DOMAIN shards /\ shards'[i] = shards[i]
            \/ \E k \in DOMAIN deferred : shards'[i] = deferred[k].conn
        BY <1>0, <2>4, DeferredRuns
      <4>2. QED  BY <1>0, <1>1, <1>2, <3>2, <4>1 DEF Range
    <3>3. QED  BY <1>1, <1>2, <3>1, <3>2 DEF Range
  <2>5. ASSUME NEW c \in DOMAIN conns, Welcome(c) \/ Closing(c) PROVE Fine
    <3>1. \E st \in {"open", "closed"} : SetConn(c, st) /\ shards' = shards
      BY <2>5 DEF Welcome, Closing, Close
    <3>2. PICK st \in {"open", "closed"} : SetConn(c, st) /\ shards' = shards
      BY <3>1
    <3>3. /\ DOMAIN conns' = DOMAIN conns /\ conns'[c].state = st
          /\ \A d \in DOMAIN conns : d # c => conns'[d] = conns[d]
      BY <1>0, <3>2, SetConnKeeps
    <3>4. QED  BY <1>1, <1>2, <3>2, <3>3
  <2>6. ASSUME NEW c \in DOMAIN conns, Reconnect(c) PROVE Fine
    <3>1. shards' = shards  BY <2>6 DEF Reconnect
    <3>2. QED  BY <1>0, <1>1, <1>2, <2>6, <3>1, ReconnectKeeps
  <2>7. QED  BY <2>1, <2>2, <2>3, <2>4, <2>5, <2>6, ShardsFrame
<1>3. ASSUME r \in reqs, OpensOnce, r.conn \in Range(shards') PROVE r.conduit = conduitId'
  <2>1. r.conn \in Range(shards) /\ r.conduit = conduitId  BY <1>1, <1>2, <1>3
  <2>2. CASE UNCHANGED conduitId
    BY <2>1, <2>2
  <2>3. CASE shards' = <<>>
    BY <1>3, <2>3 DEF Range
  <2>4. CASE \E o \in Opens : Carried(o)
    BY <1>3, <2>1, <2>4, NothingOpen DEF Range
  <2>5. QED  BY <1>0, <2>2, <2>3, <2>4, ConduitFrame
<1>4. ASSUME r \notin reqs PROVE Fine /\ r.conduit = conduitId'
  <2>1. PICK c \in DOMAIN conns : Welcome(c) /\ r = PatchReq(c, conduitId)
    <3>1. \A d : DeleteReq(d, conduitId).kind # "patch"  BY DEF DeleteReq
    <3>2. QED  BY <1>0, <1>4, <3>1, NewRequests
  <2>2. SetConn(c, "open") /\ UNCHANGED <<shards, conduitId>>  BY <2>1 DEF Welcome
  <2>3. r.conn = c /\ r.conduit = conduitId  BY <2>1 DEF PatchReq
  <2>4. QED  BY <1>0, <2>2, <2>3, SetConnKeeps
<1>5. QED  BY <1>2, <1>3, <1>4

\* A deletion names a conduit, so none is under way while a call opens one.
LEMMA DeletionsFrame ==
  ASSUME TypeOK, [Next]_vars, NEW r \in reqs' \cup {a.req : a \in answers'}, r.kind = "delete"
  PROVE  \/ r \in reqs \cup {a.req : a \in answers}
         \/ \E d \in Deletes : Delete(d) /\ conduitId # None /\ r = DeleteReq(d, conduitId)
<1>1. CASE r \in reqs'
  <2>1. \A c : PatchReq(c, conduitId).kind # "delete"  BY DEF PatchReq
  <2>2. QED  BY <1>1, <2>1, NewRequests
<1>2. CASE r \in {a.req : a \in answers'}
  BY <1>2, NewAnswers
<1>3. QED  BY <1>1, <1>2

LEMMA DeletesAloneStep == InductiveInvariant /\ [Next]_vars => DeletesAlone'
<1> SUFFICES ASSUME InductiveInvariant, [Next]_vars, OneByOne, "throw" \notin uses
             PROVE  /\ \A d, e \in Deletes : result'[d] = "called" /\ result'[e] = "called" => d = e
                    /\ \A r \in reqs' \cup {a.req : a \in answers'} : r.kind = "delete" => r.conduit = conduitId'
  BY UsesStay DEF DeletesAlone, OneByOne, use
<1> USE EventSubAssumption
<1>0. /\ TypeOK /\ "twice" \notin uses /\ "overlap" \notin uses /\ OpensOnce
      /\ \A d, e \in Deletes : result[d] = "called" /\ result[e] = "called" => d = e
      /\ \A r \in reqs \cup {a.req : a \in answers} : r.kind = "delete" => r.conduit = conduitId
      /\ result \in [Calls -> Results]
  <2>1. thrown = {}  BY DEF InductiveInvariant, OpensAlone
  <2>2. QED  BY <2>1 DEF InductiveInvariant, DeletesAlone, OneByOne, OpensOnce, TypeOK, CallTypes
<1>1. \A d, e \in Deletes : result'[d] = "called" /\ result'[e] = "called" => d = e
  <2>1. ASSUME NEW d \in Deletes, Delete(d)
        PROVE  \A e \in Deletes : result'[e] = "called" => e = d
    <3>1. \A e \in Deletes : result[e] # "called"  BY <1>0, <2>1 DEF Delete, MayDelete
    <3>2. QED  BY <1>0, <2>1, <3>1 DEF Delete, Send, Answer, End, Calls
  <2>2. ASSUME \A d \in Deletes : result'[d] = "called" => result[d] = "called"
        PROVE  \A d, e \in Deletes : result'[d] = "called" /\ result'[e] = "called" => d = e
    BY <1>0, <2>2
  <2>3. CASE Start \/ Stop \/ \E x \in Opens \cup Queries : Ask(x)
    BY <1>0, <2>2, <2>3 DEF Start, Stop, Ask, Send, End, Calls
  <2>4. CASE \E s \in Subs : Subscribe(s) \/ SubscribeSend(s) \/ SubscribeThrows(s) \/ ConsumerGone(s)
    BY <1>0, <2>2, <2>4 DEF Subscribe, SubscribeSend, SubscribeThrows, ConsumerGone, Send, End, Calls
  <2>5. CASE Twitch
    BY <2>2, <2>5 DEF Twitch, Serve, Fail, LoseAnswer, local
  <2>6. ASSUME NEW a \in answers, Handle(a)
        PROVE  \A d \in Deletes : result'[d] = "called" => result[d] = "called"
    BY <1>0, <2>6
       DEF Handle, HandleToken, HandleFind, HandleCreate, CreateFailed, BeginFinish, HandleDelete,
           HandleOther, Answer, End, Calls
  <2>7. CASE Finish
    <3>1. ASSUME NEW t \in Subs, SendTaken(t)
          PROVE  \A d \in Deletes : result'[d] = "called" => result[d] = "called"
      BY <1>0, <3>1 DEF SendTaken, Send, End, Calls
    <3>2. CASE FinishEnd
      BY <1>0, <2>2, <3>2 DEF FinishEnd, Answer, End, Calls
    <3>3. QED  BY <2>2, <2>7, <3>1, <3>2 DEF Finish, TakeLists, OpenShard
  <2>8. CASE RunDeferred \/ \E c \in DOMAIN conns : Welcome(c) \/ Reconnect(c) \/ Closing(c)
    BY <2>2, <2>8 DEF RunDeferred, Welcome, Reconnect, Closing, Close
  <2>9. CASE UNCHANGED vars
    BY <2>2, <2>9 DEF vars, local
  <2>10. QED
    BY <2>1, <2>2, <2>3, <2>4, <2>5, <2>6, <2>7, <2>8, <2>9, ThrowSteps, ClosingSteps
       DEF Next, Api, Io
<1>2. ASSUME NEW r \in reqs' \cup {a.req : a \in answers'}, r.kind = "delete"
      PROVE  r.conduit = conduitId'
  <2>1. CASE r \notin reqs \cup {a.req : a \in answers}
    <3>1. PICK d \in Deletes : Delete(d) /\ r = DeleteReq(d, conduitId)
      BY <1>0, <1>2, <2>1, DeletionsFrame
    <3>2. r.conduit = conduitId /\ UNCHANGED conduitId  BY <3>1 DEF Delete, DeleteReq
    <3>3. QED  BY <3>2
  <2>2. CASE r \in reqs \cup {a.req : a \in answers}
    <3>1. r.conduit = conduitId /\ r \in Requests
      BY <1>0, <1>2, <2>2 DEF TypeOK, CallTypes
    <3>2. r.call \in Deletes /\ conduitId \in Opens /\ conduitId # None
      BY <1>2, <3>1, RequestKinds DEF Calls
    <3>3. CASE \E o \in Opens : Carried(o)
      BY <1>0, <3>2, <3>3, NothingOpen
    <3>4. CASE Stop
      BY <1>2, <3>4 DEF Stop
    <3>5. ASSUME NEW a \in answers, Handle(a), HandleDelete(a) PROVE FALSE
      <4>1. a.req.call \in Deletes /\ result[a.req.call] = "called" /\ result[r.call] = "called"
        <5>1. a.req \in Requests  BY <1>0 DEF TypeOK, CallTypes
        <5>2. a.req.call \in Deletes  BY <3>5, <5>1, RequestKinds DEF HandleDelete
        <5>3. QED  BY <2>2, <3>2, <5>2, CarriedIsCalled DEF Calls
      <4>2. a.req.call = r.call  BY <1>0, <3>2, <4>1
      <4>3. CarriedOnce(r.call)  BY <3>2 DEF InductiveInvariant, AccountedFor, Calls
      <4>4. reqs' = reqs /\ answers' = answers \ {a}  BY <3>5 DEF Handle, HandleDelete
      <4>5. QED  BY <1>2, <4>2, <4>3, <4>4 DEF CarriedOnce
    <3>6. CASE UNCHANGED conduitId
      BY <3>1, <3>6
    <3>7. QED  BY <1>0, <3>3, <3>4, <3>5, <3>6, ConduitFrame, ThrowSteps
  <2>3. QED  BY <2>1, <2>2
<1>3. QED  BY <1>1, <1>2

------------------------------------------------------------------------------
(* What Twitch knows.                                                         *)

\* What Twitch does to the assignments.
LEMMA ServeAssigns ==
  ASSUME InductiveInvariant, OpensOnce, NEW r \in reqs, Serve(r),
         NEW i \in DOMAIN shards, conns[shards[i]].state = "open", conduitId # None
  PROVE  /\ assigned[conduitId][i - 1] = shards[i] => assigned'[conduitId][i - 1] = shards[i]
         /\ r = PatchReq(shards[i], conduitId) /\ Exists(conduitId) =>
              assigned'[conduitId][i - 1] = shards[i]
<1>0. /\ TypeOK /\ conduitId \in Opens /\ i \in Nat
      /\ \A j \in DOMAIN shards : /\ shards[j] \in DOMAIN conns /\ j \in Nat /\ j - 1 \in ShardIds
                                  /\ conns[shards[j]].shard = j - 1
      /\ \A k \in DOMAIN deferred : conns[deferred[k].conn].state = "connecting"
  <2>1. \A j \in DOMAIN shards : conns[shards[j]].shard = j - 1
    BY DEF InductiveInvariant, ShardsInOrder, ShardIndexIsId
  <2>2. \A j \in DOMAIN shards : conns[shards[j]] \in Conn
    BY Elements DEF InductiveInvariant
  <2>3. \A j \in DOMAIN shards : j - 1 \in ShardIds
    BY <2>1, <2>2 DEF Conn
  <2>4. QED
    BY <2>1, <2>3, Elements DEF InductiveInvariant, TypeOK, CallTypes, Replacing
<1>1. assigned \in [Opens -> [ShardIds -> 0..MaxConns]]
  BY <1>0 DEF TypeOK, ShardTypes
<1>2. CASE r.kind = "patch" /\ Exists(r.conduit) /\ r.conn \in Held /\ conns[r.conn].state = "open"
  <2>1. assigned' = [assigned EXCEPT ![r.conduit][conns[r.conn].shard] = r.conn]
    BY <1>2 DEF Serve, Effect
  <2>2. PICK j \in DOMAIN shards : r.conn = shards[j]
    <3>1. \A k \in DOMAIN deferred : r.conn # deferred[k].conn  BY <1>0, <1>2
    <3>2. r.conn \in Range(shards)  BY <1>2, <3>1 DEF Held, Range
    <3>3. QED  BY <3>2 DEF Range
  <2>3. r.conduit \in Opens  BY <1>0, <1>2 DEF Exists, TypeOK, ShardTypes
  <2>4. assigned' = [assigned EXCEPT ![r.conduit][j - 1] = shards[j]]
    BY <1>0, <2>1, <2>2
  <2>5. CASE j = i
    <3>1. assigned'[conduitId][i - 1] = IF r.conduit = conduitId THEN shards[i] ELSE assigned[conduitId][i - 1]
      BY <1>0, <1>1, <2>3, <2>4, <2>5
    <3>2. r = PatchReq(shards[i], conduitId) => r.conduit = conduitId  BY DEF PatchReq
    <3>3. QED  BY <3>1, <3>2
  <2>6. CASE j # i
    <3>1. j - 1 # i - 1  BY <1>0, <2>6
    <3>2. assigned'[conduitId][i - 1] = assigned[conduitId][i - 1]
      BY <1>0, <1>1, <2>3, <2>4, <3>1
    <3>3. r # PatchReq(shards[i], conduitId)
      <4>1. shards[i] # shards[j]  BY <1>0, <3>1
      <4>2. QED  BY <2>2, <4>1 DEF PatchReq
    <3>4. QED  BY <3>2, <3>3
  <2>7. QED  BY <2>5, <2>6
<1>3. CASE ~(r.kind = "patch" /\ Exists(r.conduit) /\ r.conn \in Held /\ conns[r.conn].state = "open")
  <2>1. assigned' = assigned
    BY <1>3 DEF Serve, Effect, server
  <2>2. ~(r = PatchReq(shards[i], conduitId) /\ Exists(conduitId))
    <3>1. PatchReq(shards[i], conduitId).kind = "patch"
          /\ PatchReq(shards[i], conduitId).conn = shards[i]
          /\ PatchReq(shards[i], conduitId).conduit = conduitId
      BY DEF PatchReq
    <3>2. shards[i] \in Held  BY DEF Held, Range
    <3>3. QED  BY <1>3, <3>1, <3>2
  <2>3. QED  BY <2>1, <2>2
<1>4. QED  BY <1>2, <1>3

\* Where requests go, and who tells Twitch.
LEMMA ServerFrame ==
  ASSUME [Next]_vars
  PROVE  /\ \A r \in reqs \ reqs' : Serve(r) \/ Fail(r) \/ Stop
         /\ UNCHANGED server \/ \E r \in reqs : Serve(r)
<1>1. CASE Api
  BY <1>1, ApiFrame
     DEF Api, Start, Stop, Ask, Subscribe, SubscribeSend, SubscribeThrows, ConsumerGone, Delete, Send
<1>2. ASSUME NEW r \in reqs, Serve(r) \/ Fail(r) PROVE reqs \ reqs' \subseteq {r}
  BY <1>2 DEF Serve, Fail
<1>3. CASE Twitch
  BY <1>2, <1>3 DEF Twitch, Fail, LoseAnswer, server
<1>4. ASSUME NEW a \in answers, Handle(a) PROVE UNCHANGED server /\ reqs \subseteq reqs'
  BY <1>4
     DEF Handle, HandleToken, HandleFind, HandleCreate, BeginFinish, HandleDelete, HandleOther
<1>5. CASE RunDeferred \/ \E c \in DOMAIN conns : Welcome(c) \/ Reconnect(c) \/ Closing(c)
  BY <1>5 DEF RunDeferred, Welcome, Reconnect, Closing, Close
<1>t. CASE Finish \/ FinishThrows \/ \E a \in answers : HandleThrows(a)
  BY <1>t
     DEF Finish, TakeLists, SendTaken, Send, OpenShard, FinishEnd, FinishThrows, HandleThrows
<1>6. QED  BY <1>1, <1>3, <1>4, <1>5, <1>t, ClosingSteps DEF Next, Io, vars

\* The answer to a deletion is there until the conduit is forgotten.
LEMMA DeletedStays ==
  ASSUME [Next]_vars, Deleted, "fail" \notin uses
  PROVE  Deleted' \/ conduitId' = None
<1> USE DEF Deleted
<1>1. PICK a \in answers : a.req.kind = "delete"  OBVIOUS
<1>2. CASE Api
  BY <1>2, ApiFrame DEF Stop
<1>3. CASE Twitch
  BY <1>3 DEF Twitch, Serve, Fail, LoseAnswer
<1>4. ASSUME NEW b \in answers, Handle(b) PROVE Deleted' \/ conduitId' = None
  <2>1. CASE b = a
    BY <1>1, <1>4, <2>1
       DEF Handle, HandleToken, HandleFind, HandleCreate, HandleDelete, ForgetConduit, HandleOther
  <2>2. CASE b # a
    BY <1>1, <1>4, <2>2 DEF Handle
  <2>3. QED  BY <2>1, <2>2
<1>5. CASE RunDeferred \/ \E c \in DOMAIN conns : Welcome(c) \/ Reconnect(c) \/ Closing(c)
  BY <1>5 DEF RunDeferred, Welcome, Reconnect, Closing, Close
<1>t. CASE Finish \/ FinishThrows
  BY <1>t DEF Finish, TakeLists, SendTaken, OpenShard, FinishEnd, FinishThrows
<1>h. ASSUME NEW b \in answers, HandleThrows(b) PROVE Deleted' \/ conduitId' = None
  <2>1. CASE b = a
    BY <1>1, <1>h, <2>1 DEF HandleThrows, ForgetConduit
  <2>2. CASE b # a
    BY <1>1, <1>h, <2>2 DEF HandleThrows, AgainOrLost
  <2>3. QED  BY <2>1, <2>2
<1>6. QED  BY <1>2, <1>3, <1>4, <1>5, <1>t, <1>h, ClosingSteps DEF Next, Io, vars

\* A conduit is deleted only by the deletion that names it, whose answer is on its way then.
LEMMA ServeKeeps ==
  ASSUME InductiveInvariant, Orderly, NEW r \in reqs, Serve(r)
  PROVE  \/ conduits \subseteq conduits'
         \/ Deleted' /\ conduitId \in Opens
<1>1. CASE r.kind = "delete"
  <2>1. PICK reply : answers' = answers \cup {[req |-> r, answer |-> reply]}  BY DEF Serve
  <2>2. Deleted'
    <3> DEFINE b == [req |-> r, answer |-> reply]
    <3>1. b \in answers' /\ b.req = r  BY <2>1
    <3> HIDE DEF b
    <3>2. QED  BY <1>1, <3>1 DEF Deleted
  <2>3. r.conduit = conduitId /\ r \in Requests
    BY <1>1 DEF InductiveInvariant, DeletesAlone, Orderly, OneByOne, TypeOK, CallTypes
  <2>4. QED  BY <1>1, <2>2, <2>3, RequestKinds
<1>2. CASE r.kind # "delete"
  BY <1>2 DEF Serve, Effect, server
<1>3. QED  BY <1>1, <1>2

LEMMA KnownStep == InductiveInvariant /\ [Next]_vars => KnownToTwitch'
<1> SUFFICES ASSUME InductiveInvariant, [Next]_vars, Orderly
             PROVE  /\ \A a \in answers' : a.req.kind \in {"find", "create"} =>
                                             a.answer \in conduits' \cup {None}
                    /\ conduitId' # None => conduitId' \in conduits' \/ Deleted'
                    /\ \A i \in DOMAIN shards' :
                         conns'[shards'[i]].state = "open" =>
                           \/ assigned'[conduitId'][i - 1] = shards'[i]
                           \/ PatchReq(shards'[i], conduitId') \in reqs'
                           \/ Deleted'
  BY UsesStay DEF KnownToTwitch, Orderly, OneByOne, Exists, PatchReq, use
<1>0. /\ TypeOK /\ OpensOnce /\ "fail" \notin uses /\ "throw" \notin uses
      /\ \A a \in answers : a.req.kind \in {"find", "create"} => a.answer \in conduits \cup {None}
      /\ conduitId # None => Exists(conduitId) \/ Deleted
      /\ \A i \in DOMAIN shards :
           conns[shards[i]].state = "open" =>
             \/ assigned[conduitId][i - 1] = shards[i]
             \/ PatchReq(shards[i], conduitId) \in reqs
             \/ Deleted
  <2>1. thrown = {}  BY DEF InductiveInvariant, OpensAlone, Orderly
  <2>2. QED  BY <2>1 DEF InductiveInvariant, KnownToTwitch, Orderly, OneByOne, OpensOnce
<1>1. conduits \subseteq conduits' \/ (Deleted' /\ conduitId # None /\ UNCHANGED local)
  <2>1. ASSUME NEW r \in reqs, Serve(r)
        PROVE  conduits \subseteq conduits' \/ (Deleted' /\ conduitId # None /\ UNCHANGED local)
    BY <2>1, ServeKeeps, EventSubAssumption DEF Serve, Calls
  <2>2. QED  BY <2>1, ServerFrame DEF server
<1>2. ASSUME NEW a \in answers', a.req.kind \in {"find", "create"}
      PROVE  a.answer \in conduits' \cup {None}
  <2>1. CASE a \in answers
    <3>1. a.req.call \in Opens /\ Carried(a.req.call)
      <4>1. a.req \in Requests  BY <1>0, <2>1 DEF TypeOK, CallTypes
      <4>2. QED  BY <1>2, <2>1, <4>1, RequestKinds DEF Carried
    <3>2. conduitId = None  BY <1>0, <3>1, NothingOpen
    <3>3. QED  BY <1>0, <1>1, <1>2, <2>1, <3>2
  <2>2. CASE a \notin answers
    <3>1. PICK r \in reqs : a.req = r /\ Serve(r) /\ a.answer \in Replies(r)
      BY <1>0, <2>2, NewAnswers, ThrowSteps DEF Fail, LoseAnswer
    <3>2. CASE r.kind = "find"
      <4>1. UNCHANGED conduits  BY <3>1, <3>2 DEF Serve, Effect, server
      <4>2. QED  BY <3>1, <3>2, <4>1 DEF Replies
    <3>3. CASE r.kind = "create"
      <4>1. conduits' = conduits \cup {r.call}  BY <3>1, <3>3 DEF Serve, Effect
      <4>2. QED  BY <3>1, <3>3, <4>1 DEF Replies
    <3>4. QED  BY <1>2, <3>1, <3>2, <3>3
  <2>3. QED  BY <2>1, <2>2
<1>3. ASSUME conduitId' # None PROVE conduitId' \in conduits' \/ Deleted'
  <2>1. CASE UNCHANGED conduitId
    BY <1>0, <1>1, <1>3, <2>1, DeletedStays DEF Exists
  <2>2. CASE \E a \in answers : a.req.kind \in {"find", "create"} /\ conduitId' = a.answer
    BY <1>0, <1>1, <1>3, <2>2
  <2>3. QED  BY <1>0, <1>3, <2>1, <2>2, ConduitFrame
<1>4. ASSUME NEW i \in DOMAIN shards', conns'[shards'[i]].state = "open"
      PROVE  \/ assigned'[conduitId'][i - 1] = shards'[i]
             \/ PatchReq(shards'[i], conduitId') \in reqs'
             \/ Deleted'
  <2> DEFINE Old == i \in DOMAIN shards /\ shards'[i] = shards[i] /\ conns[shards[i]].state = "open"
             New == /\ PatchReq(shards'[i], conduitId) \in reqs' /\ UNCHANGED conduitId
  <2>0. /\ \A k \in DOMAIN deferred : conns[deferred[k].conn].state = "connecting"
        /\ \A j \in DOMAIN shards : shards[j] \in DOMAIN conns
    BY <1>0, Elements DEF InductiveInvariant, Replacing
  <2>1. Old \/ New
    <3>1. CASE UNCHANGED <<shards, conns, deferred>> \/ shards' = <<>>
      BY <1>4, <3>1
    <3>2. CASE OpenShard
      BY <1>0, <1>4, <2>0, <3>2, OpenShardKeeps
    <3>3. CASE RunDeferred
      <4>1. conns' = conns  BY <3>3 DEF RunDeferred
      <4>2. QED  BY <1>0, <1>4, <2>0, <3>3, <4>1, DeferredRuns
    <3>4. ASSUME NEW c \in DOMAIN conns, Welcome(c) PROVE Old \/ New
      <4>1. /\ SetConn(c, "open") /\ UNCHANGED <<shards, conduitId>>
            /\ PatchReq(c, conduitId) \in reqs'
        BY <3>4 DEF Welcome
      <4>2. \A d \in DOMAIN conns : d # c => conns'[d] = conns[d]  BY <1>0, <4>1, SetConnKeeps
      <4>3. QED  BY <1>4, <2>0, <4>1, <4>2
    <3>5. ASSUME NEW c \in DOMAIN conns, Closing(c) PROVE Old \/ New
      <4>1. SetConn(c, "closed") /\ UNCHANGED shards  BY <3>5 DEF Closing, Close
      <4>2. /\ conns'[c].state = "closed"
            /\ \A d \in DOMAIN conns : d # c => conns'[d] = conns[d]
        BY <1>0, <4>1, SetConnKeeps
      <4>3. QED  BY <1>4, <2>0, <4>1, <4>2
    <3>6. ASSUME NEW c \in DOMAIN conns, Reconnect(c) PROVE Old \/ New
      <4>1. UNCHANGED shards  BY <3>6 DEF Reconnect
      <4>2. QED  BY <1>0, <1>4, <2>0, <3>6, <4>1, ReconnectKeeps
    <3>7. QED  BY <3>1, <3>2, <3>3, <3>4, <3>5, <3>6, ShardsFrame
  <2>2. CASE New
    BY <2>2
  <2>3. CASE Old
    <3>1. UNCHANGED conduitId /\ conduitId # None
      <4>1. shards # <<>> /\ shards' # <<>>  BY <1>4, <2>3
      <4>2. UNCHANGED conduitId
        BY <1>0, <4>1, ConduitFrame, NothingOpen
      <4>3. QED  BY <1>0, <4>1, <4>2, ReadyHasConduit
    <3>2. CASE Deleted
      BY <1>0, <3>1, <3>2, DeletedStays
    <3>3. CASE PatchReq(shards[i], conduitId) \in reqs /\ ~Deleted
      <4>1. CASE PatchReq(shards[i], conduitId) \in reqs'
        BY <2>3, <3>1, <4>1
      <4>2. CASE PatchReq(shards[i], conduitId) \notin reqs'
        <5>1. Serve(PatchReq(shards[i], conduitId))
          BY <1>0, <3>1, <3>3, <4>2, ServerFrame DEF Fail, Stop
        <5>2. Exists(conduitId)  BY <1>0, <3>1, <3>3
        <5>3. QED  BY <1>0, <2>3, <3>1, <3>3, <5>1, <5>2, ServeAssigns
      <4>3. QED  BY <4>1, <4>2
    <3>4. CASE assigned[conduitId][i - 1] = shards[i]
      <4>1. CASE UNCHANGED server
        BY <2>3, <3>1, <3>4, <4>1 DEF server
      <4>2. ASSUME NEW r \in reqs, Serve(r) PROVE assigned'[conduitId][i - 1] = shards[i]
        BY <1>0, <2>3, <3>1, <3>4, <4>2, ServeAssigns
      <4>3. QED  BY <2>3, <3>1, <4>1, <4>2, ServerFrame
    <3>5. QED  BY <1>0, <2>3, <3>2, <3>3, <3>4
  <2>4. QED  BY <2>1, <2>2, <2>3
<1>5. QED  BY <1>2, <1>3, <1>4

------------------------------------------------------------------------------
(* The theorems.                                                              *)

LEMMA InitInvariant == Init => InductiveInvariant
<1> SUFFICES ASSUME Init PROVE InductiveInvariant
  OBVIOUS
<1> USE EventSubAssumption DEF Init
<1>1. CallTypes
  <2>1. result \in [Calls -> Results]
    BY DEF Results
  <2>2. starts \in 0..MaxStarts  OBVIOUS
  <2>3. QED  BY <2>1, <2>2 DEF CallTypes
<1>2. ShardTypes
  <2>1. shardCount \in Nat \ {0} /\ uses \subseteq UseKinds  OBVIOUS
  <2>2. <<>> \in Seq(Conn) /\ <<>> \in Seq(DOMAIN conns) /\ <<>> \in Seq(Move)  BY EmptySeq
  <2>3. 0 \in 0..MaxConns /\ 0 <= MaxConns /\ Len(<<>>) = 0  OBVIOUS
  <2>4. assigned \in [Opens -> [ShardIds -> 0..MaxConns]]  BY <2>3
  <2>5. QED  BY <2>1, <2>2, <2>3, <2>4 DEF ShardTypes
<1>3. AccountedFor /\ HeardOnce /\ PendingOnlyUnready
  BY DEF HeardOnce, AccountedFor, Carried, CarriedOnce, Finishing, PendingOnlyUnready
<1>4. Named
  BY DEF Named, NamesAConduit, Calls
<1>5. OpensAlone
  BY DEF OpensAlone, Calls
<1>6. DOMAIN shards = {} /\ DOMAIN deferred = {}
  OBVIOUS
<1>7. ShardsInOrder /\ Replacing
  BY <1>6 DEF ShardsInOrder, ConduitComplete, ShardIndexIsId, Replacing
<1>8. Patching /\ DeletesAlone
  BY DEF Patching, DeletesAlone, Calls
<1>9. KnownToTwitch
  BY <1>6 DEF KnownToTwitch
<1>10. QED
  BY <1>1, <1>2, <1>3, <1>4, <1>5, <1>7, <1>8, <1>9 DEF InductiveInvariant, TypeOK

\* InductiveInvariantHolds: the calls, the requests that carry them, the shards, their
\* connections, and what Twitch knows of them are always related as InductiveInvariant says.
THEOREM InductiveInvariantHolds == Spec => []InductiveInvariant
<1>1. InductiveInvariant /\ [Next]_vars => InductiveInvariant'
  BY TypeStep, AccountedStep, HeardOnceStep, PendingStep, NamedStep, OpensAloneStep, ShardsInOrderStep,
     ReplacingStep, PatchingStep, DeletesAloneStep, KnownStep DEF InductiveInvariant
<1>2. QED  BY <1>1, InitInvariant, PTL DEF Spec

\* CallsKeptHolds (subscribe(), finish_opening_conduit()): for any calls made in any order, no
\* subscription waits for a conduit that is ready, none is sent without the conduit's ID unless
\* delete_conduit() races it, and every call that is under way is in one place.  Callbacks are
\* forgotten and called twice only by exceptions: where a `completed` threw, or, for a waiting
\* subscription, where finish_opening_conduit() did.
THEOREM CallsKeptHolds == Spec => []CallsKept
<1>1. InductiveInvariant => CallsKept
  BY DEF InductiveInvariant, Named, CallsKept
<1>2. QED  BY <1>1, InductiveInvariantHolds, PTL

\* ShardsInOrderHolds (get_shard(), on_reconnect, delete_conduit()): for any number of shards and
\* reconnects there is no half-open conduit between handlers, and, for an application that opens
\* one conduit at a time, each shard stays at the index of its ID until a call that opens it
\* throws, which appends the shards again.
THEOREM ShardsInOrderHolds == Spec => []ShardsInOrder
<1>1. QED  BY InductiveInvariantHolds, PTL DEF InductiveInvariant

\* ShardsAssignedHolds (setup_shard()): once nothing is under way, Twitch has every shard of the
\* conduit assigned to the connection that is in shards_, for any number of shards and reconnects.
THEOREM ShardsAssignedHolds == Spec => []ShardsAssigned
<1>1. InductiveInvariant => ShardsAssigned
  <2> SUFFICES ASSUME InductiveInvariant, Orderly, Settled, ready, NEW i \in DOMAIN shards
               PROVE  assigned[conduitId][i - 1] = shards[i]
    BY DEF ShardsAssigned
  <2>1. ~Deleted /\ PatchReq(shards[i], conduitId) \notin reqs
    BY DEF Deleted, Settled
  <2>2. QED  BY <2>1 DEF InductiveInvariant, KnownToTwitch, Settled
<1>2. QED  BY <1>1, InductiveInvariantHolds, PTL
==============================================================================
