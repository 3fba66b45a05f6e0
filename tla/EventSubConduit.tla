-------------------------- MODULE EventSubConduit ----------------------------
(* The EventSub side of tpp::conduit (src/conduit.cpp): open_conduit(), the   *)
(* subscriptions that wait for it, the shards and their reconnects,           *)
(* delete_conduit(), and what stop() does to all of them.                     *)
(*                                                                            *)
(* Every Helix call is a request of its own: Twitch serves it and answers,    *)
(* or it fails, before or after it took effect.  The handlers run on the IO   *)
(* thread, one at a time; the API is called by threads of the application.    *)
(* A `completed` may throw half-way: close() calls it again, at once when it  *)
(* was called for what was read, and later or never when a timer called it.   *)
(* That an erasure it has deferred is then run twice is ConduitLifecycle's:   *)
(* here the conduit goes on.                                                  *)
EXTENDS Naturals, FiniteSets, Sequences, SequencesExt

CONSTANTS Opens,      \* the calls of open_conduit()
          Subs,       \* the calls of subscribe() and subscribe_for_consumer()
          Users,      \* those of them that are made on behalf of a consumer
          Deletes,    \* the calls of delete_conduit()
          Queries,    \* the calls of unsubscribe(), get_users(), get_streams()
          ShardCounts,\* what may be the shard_count of every open_conduit()
          None,
          Uses,       \* the ways to use a conduit, each a set of UseKinds
          MaxConns,   \* bound: websocket connections ever made
          MaxStarts   \* bound: how often start() is called

\* What the application and Twitch may do:
\*   subscribe  subscribe() and subscribe_for_consumer() are called
\*   twice      open_conduit() is called although one was called before
\*   delete     delete_conduit() is called
\*   overlap    delete_conduit() is called while another call of it is under way
\*   fail       requests fail, before or after Twitch serves them
\*   reconnect  Twitch asks shards to reconnect
\*   close      Twitch closes the connection of a shard
\*   remove     consumers with a waiting subscription go away
\*   throw      a client cannot be constructed, or a callback of the application throws
UseKinds == {"subscribe", "twice", "delete", "overlap", "fail", "reconnect", "close", "remove",
             "throw"}

Calls == Opens \cup Subs \cup Deletes \cup Queries

ASSUME EventSubAssumption ==
  /\ Users \subseteq Subs
  /\ Opens \cap (Subs \cup Deletes \cup Queries) = {}
  /\ Subs \cap (Deletes \cup Queries) = {} /\ Deletes \cap Queries = {}
  /\ None \notin Calls \cup {"ok", "failed"} /\ {"ok", "failed"} \cap Opens = {}
  /\ None \notin [call : Opens, id : Opens] \cup Nat
  /\ Uses \subseteq SUBSET UseKinds
  /\ ShardCounts \subseteq Nat \ {0}
  /\ MaxConns \in Nat /\ MaxStarts \in Nat

VARIABLES uses,       \* what may happen; it never changes
          shardCount, \* shard_count; it never changes
          up,         \* running_
          starts,     \* how often start() was called
          token,      \* whether app_access_token_ is set
          conduitId,  \* conduit_id_; Twitch names a conduit by the call that made it
          ready,      \* conduit_ready_
          pending,    \* pending_conduit_subscriptions_, pending_app_subscriptions_
          shards,     \* shards_: the connection of each element
          conns,      \* every connection: its shard_id and its state
          deferred,   \* the closures of on_reconnect in deferred_
          finishing,  \* the arguments of finish_opening_conduit() while it runs
          taken,      \* the subscriptions it took from the pending lists and has not sent
          opened,     \* how many shards it has opened, once it has taken them
          result,     \* what became of each call
          gone,       \* the calls whose consumer no longer exists
          reqs,       \* the requests Twitch has not served
          answers,    \* the answers on their way to the IO thread
          conduits,   \* external: the conduits of this client_id
          assigned    \* external: the connection of each shard of each conduit
\* History:
VARIABLES heard,      \* the calls whose callback was called
          thrown      \* the calls whose `completed` threw

use == <<uses, shardCount>>
opening == <<finishing, taken, opened>>
local == <<use, up, starts, token, conduitId, ready, pending, shards, conns,
           deferred, opening, result, gone, heard, thrown>>
server == <<conduits, assigned>>
vars == <<local, reqs, answers, server>>

\* The requests, and the connections that exist: those in shards_, and those
\* a deferred closure will move there.
TokenReq(x) == [kind |-> "token", call |-> x]
FindReq(o) == [kind |-> "find", call |-> o]
CreateReq(o) == [kind |-> "create", call |-> o]
QueryReq(q) == [kind |-> "query", call |-> q]
SubscribeReq(s, id) == [kind |-> "subscribe", call |-> s, conduit |-> id]
DeleteReq(d, id) == [kind |-> "delete", call |-> d, conduit |-> id]
PatchReq(c, id) == [kind |-> "patch", call |-> None, conn |-> c, conduit |-> id]

Held == Range(shards) \cup {d.conn : d \in Range(deferred)}
ShardIds == 0..(shardCount - 1)

Init == /\ uses \in Uses /\ shardCount \in ShardCounts
        /\ up = FALSE /\ starts = 0 /\ token = FALSE
        /\ conduitId = None /\ ready = FALSE
        /\ pending = {} /\ shards = <<>> /\ conns = <<>> /\ deferred = <<>>
        /\ finishing = None /\ taken = {} /\ opened = None
        /\ result = [x \in Calls |-> "new"] /\ gone = {} /\ heard = {} /\ thrown = {}
        /\ reqs = {} /\ answers = {}
        /\ conduits = {} /\ assigned = [o \in Opens |-> [i \in ShardIds |-> 0]]

------------------------------------------------------------------------------
(* ensure_app_access_token(): what a call sends, given the token.             *)

Continue(x) == IF x \in Opens THEN FindReq(x)
               ELSE IF x \in Subs THEN SubscribeReq(x, conduitId) ELSE QueryReq(x)

EnsureToken(x) == IF token THEN Continue(x) ELSE TokenReq(x)

End(x, how) == result' = [result EXCEPT ![x] = how]

\* The callback of a call is called, which is its end.
Answer(x, how) == End(x, how) /\ heard' = heard \cup {x}

------------------------------------------------------------------------------
(* The API, on the threads of the application.                                *)

Start == /\ ~up /\ starts < MaxStarts
         /\ up' = TRUE /\ starts' = starts + 1
         /\ UNCHANGED <<use, token, conduitId, ready, pending, shards, conns, deferred>>
         /\ UNCHANGED <<opening, result, gone, heard, thrown, reqs, answers, server>>

\* Without "twice" the application opens the conduit when there is none.
MayOpen == \/ "twice" \in uses
           \/ conduitId = None /\ \A o \in Opens : result[o] # "called"

\* Without "overlap" it deletes the conduit once at a time.
MayDelete == /\ "delete" \in uses
             /\ "overlap" \in uses \/ \A d \in Deletes : result[d] # "called"

Send(x, r) == /\ reqs' = reqs \cup {r}
              /\ End(x, "called")

Ask(x) == /\ up /\ result[x] = "new"
          /\ x \in Opens => MayOpen
          /\ Send(x, EnsureToken(x))
          /\ UNCHANGED <<use, up, starts, token, conduitId, ready, pending, shards, conns>>
          /\ UNCHANGED <<deferred, opening, gone, heard, thrown, answers, server>>

\* Under conduit_mutex_: read conduit_ready_, and wait if it is not set.
Subscribe(s) == /\ up /\ result[s] = "new" /\ "subscribe" \in uses
                /\ IF ready
                   THEN End(s, "checked") /\ UNCHANGED pending
                   ELSE End(s, "pending") /\ pending' = pending \cup {s}
                /\ UNCHANGED <<use, up, starts, token, conduitId, ready, shards, conns>>
                /\ UNCHANGED <<deferred, opening, gone, heard, thrown, reqs, answers, server>>

\* Outside of it: do_subscribe_app(), do_subscribe_for_consumer().
SubscribeSend(s) == /\ result[s] = "checked"
                    /\ Send(s, IF s \in Users THEN SubscribeReq(s, conduitId)
                                               ELSE EnsureToken(s))
                    /\ UNCHANGED <<use, up, starts, token, conduitId, ready, pending, shards>>
                    /\ UNCHANGED <<conns, deferred, opening, gone, heard, thrown, answers, server>>

\* They throw, to the caller, when the request cannot be made.  (The other calls leave nothing
\* behind then.)
SubscribeThrows(s) ==
  /\ "throw" \in uses
  /\ result[s] = "checked"
  /\ End(s, "failed")
  /\ UNCHANGED <<use, up, starts, token, conduitId, ready, pending, shards, conns, deferred>>
  /\ UNCHANGED <<opening, gone, heard, thrown, reqs, answers, server>>

Delete(d) == /\ up /\ result[d] = "new" /\ MayDelete
             /\ IF conduitId = None
                THEN Answer(d, "done") /\ UNCHANGED reqs
                ELSE Send(d, DeleteReq(d, conduitId)) /\ UNCHANGED heard
             /\ UNCHANGED <<use, up, starts, token, conduitId, ready, pending, shards>>
             /\ UNCHANGED <<conns, deferred, opening, gone, thrown, answers, server>>

\* The consumer of a waiting subscription goes away (the entry is a weak_ptr).
ConsumerGone(s) == /\ "remove" \in uses
                   /\ s \in Users \cap (pending \cup taken)
                   /\ gone' = gone \cup {s}
                   /\ UNCHANGED <<use, up, starts, token, conduitId, ready, pending, shards, conns>>
                   /\ UNCHANGED <<deferred, opening, result, heard, thrown, reqs, answers, server>>

\* stop(), when the IO thread is joined, seen as one step: run_deferred() may
\* fill shards_, which is then cleared with the requests in flight.  The
\* application does not subscribe at the same time.
Stop == /\ up /\ finishing = None
        /\ \A s \in Subs : result[s] # "checked"
        /\ up' = FALSE /\ token' = FALSE
        /\ conduitId' = None /\ ready' = FALSE
        /\ shards' = <<>> /\ deferred' = <<>>
        /\ pending' = pending \ Users
        /\ reqs' = {} /\ answers' = {}
        /\ result' = [x \in Calls |->
                        IF result[x] = "called" \/ x \in pending \cap Users
                        THEN "dropped" ELSE result[x]]
        /\ UNCHANGED <<use, starts, conns, opening, gone, heard, thrown, server>>

------------------------------------------------------------------------------
(* Twitch.                                                                    *)

\* What Twitch does with a request, and what it may answer: the conduits of the client are
\* listed in any order, of which open_conduit() takes the first.
Exists(id) == id \in conduits

Effect(r) ==
  CASE r.kind = "create" -> conduits' = conduits \cup {r.call} /\ UNCHANGED assigned
    [] r.kind = "delete" -> conduits' = conduits \ {r.conduit} /\ UNCHANGED assigned
    [] r.kind = "patch" /\ Exists(r.conduit) /\ r.conn \in Held /\ conns[r.conn].state = "open" ->
         /\ assigned' = [assigned EXCEPT ![r.conduit][conns[r.conn].shard] = r.conn]
         /\ UNCHANGED conduits
    [] OTHER -> UNCHANGED server

Replies(r) ==
  CASE r.kind = "find" -> IF conduits = {} THEN {None} ELSE conduits
    [] r.kind = "create" -> {r.call}
    [] r.kind \in {"subscribe", "delete", "patch"} -> {IF Exists(r.conduit) THEN "ok" ELSE "failed"}
    [] OTHER -> {"ok"}

Serve(r) == /\ reqs' = reqs \ {r}
            /\ \E reply \in Replies(r) : answers' = answers \cup {[req |-> r, answer |-> reply]}
            /\ Effect(r)
            /\ UNCHANGED local

\* The request does not get through, or its answer does not: it times out.  (What `completed`
\* found when it threw, it finds again.)
Fail(r) == /\ "fail" \in uses
           /\ reqs' = reqs \ {r}
           /\ answers' = answers \cup {[req |-> r, answer |-> "failed"]}
           /\ UNCHANGED <<local, server>>

LoseAnswer(a) == /\ "fail" \in uses /\ a.answer # "failed" /\ a.req.call \notin thrown
                 /\ answers' = (answers \ {a}) \cup {[req |-> a.req, answer |-> "failed"]}
                 /\ UNCHANGED <<local, reqs, server>>

------------------------------------------------------------------------------
(* The handlers of the answers, on the IO thread.                             *)

\* ensure_app_access_token(): the rest of the call, or its failure.
HandleToken(a) == /\ a.req.kind = "token"
                  /\ IF a.answer = "ok"
                     THEN /\ token' = TRUE
                          /\ reqs' = reqs \cup {Continue(a.req.call)}
                          /\ UNCHANGED <<result, heard>>
                     ELSE /\ Answer(a.req.call, "failed")
                          /\ UNCHANGED <<token, reqs>>
                  /\ UNCHANGED <<conduitId, ready, shards, finishing>>

\* finish_opening_conduit() begins: conduit_id_ is set, without a lock.
Publish(id) == conduitId' = id

BeginFinish(o, id) == /\ finishing' = [call |-> o, id |-> id]
                      /\ Publish(id)
                      /\ UNCHANGED <<reqs, result, heard>>

HandleFind(a) == /\ a.req.kind = "find"
                 /\ IF a.answer \in Opens
                    THEN BeginFinish(a.req.call, a.answer)
                    ELSE /\ reqs' = reqs \cup {CreateReq(a.req.call)}
                         /\ UNCHANGED <<conduitId, finishing, result, heard>>
                 /\ UNCHANGED <<token, ready, shards>>

\* Fault: the callback is not called when the creation failed.
CreateFailedSilently(o) == UNCHANGED <<result, heard>>

CreateFailed(o) == Answer(o, "failed")

HandleCreate(a) == /\ a.req.kind = "create"
                   /\ IF a.answer \in Opens
                      THEN BeginFinish(a.req.call, a.answer)
                      ELSE /\ CreateFailed(a.req.call)
                           /\ UNCHANGED <<conduitId, finishing, reqs>>
                   /\ UNCHANGED <<token, ready, shards>>

ForgetConduit == /\ conduitId' = None /\ ready' = FALSE
                 /\ shards' = <<>>

\* The conduit is forgotten whatever the answer is.
HandleDelete(a) == /\ a.req.kind = "delete"
                   /\ ForgetConduit
                   /\ Answer(a.req.call, IF a.answer = "ok" THEN "done" ELSE "failed")
                   /\ UNCHANGED <<token, finishing, reqs>>

HandleOther(a) == /\ a.req.kind \in {"subscribe", "query", "patch"}
                  /\ IF a.req.call = None THEN UNCHANGED <<result, heard>>
                     ELSE Answer(a.req.call, IF a.answer = "ok" THEN "done" ELSE "failed")
                  /\ UNCHANGED <<token, conduitId, ready, shards, finishing, reqs>>

Handle(a) == /\ finishing = None
             /\ answers' = answers \ {a}
             /\ \/ HandleToken(a) \/ HandleFind(a) \/ HandleCreate(a)
                \/ HandleDelete(a) \/ HandleOther(a)
             /\ UNCHANGED <<use, up, starts, pending, conns, deferred, gone, taken, opened, thrown>>
             /\ UNCHANGED server

\* `completed` is called again for the call, or never: its end is the exception.
AgainOrLost(x, a) == \/ answers' = answers \cup {a} /\ UNCHANGED result
                     \/ answers' = answers \ {a} /\ End(x, "lost")

\* A handler throws: the next request cannot be made, or the callback throws, which for
\* delete_conduit() is after the conduit was forgotten.  (That of a consumer's subscription and
\* of a PATCH call nothing.)  The bound is one throw a call: if close() is what called it again,
\* a second one ends the process.
GotToken(a) == a.req.kind = "token" /\ a.answer = "ok"
CallsNobody(a) == a.req.kind = "find" \/ GotToken(a)

HandleThrows(a) ==
  /\ "throw" \in uses /\ finishing = None
  /\ a.req.call \notin thrown \cup Users \cup {None} /\ a.answer \notin Opens
  /\ thrown' = thrown \cup {a.req.call}
  /\ token' = (token \/ GotToken(a))
  /\ heard' = IF CallsNobody(a) THEN heard ELSE heard \cup {a.req.call}
  /\ IF a.req.kind = "delete" THEN ForgetConduit ELSE UNCHANGED <<conduitId, ready, shards>>
  /\ AgainOrLost(a.req.call, a)
  /\ UNCHANGED <<use, up, starts, pending, conns, deferred, opening, gone, reqs, server>>

------------------------------------------------------------------------------
(* The rest of finish_opening_conduit(), in which other threads go on.        *)

\* Fault: the subscriptions stay where they are.
TakeNothing == UNCHANGED pending

TakePending == pending' = {}

\* The flag is set and the waiting subscriptions are swapped to locals, under the lock.
TakeLists ==
  /\ finishing # None /\ opened = None
  /\ ready' = TRUE
  /\ taken' = pending /\ opened' = 0
  /\ TakePending
  /\ UNCHANGED <<use, up, starts, token, conduitId, shards, conns, deferred, finishing, result>>
  /\ UNCHANGED <<gone, heard, thrown, reqs, answers, server>>

\* They are sent, those of consumers first, if these are still there.
SendTaken(s) ==
  /\ s \in taken
  /\ s \in Users \/ taken \cap Users = {}
  /\ taken' = taken \ {s}
  /\ IF s \in gone THEN End(s, "dropped") /\ UNCHANGED reqs
     ELSE Send(s, IF s \in Users THEN SubscribeReq(s, conduitId) ELSE EnsureToken(s))
  /\ UNCHANGED <<use, up, starts, token, conduitId, ready, pending, shards, conns, deferred>>
  /\ UNCHANGED <<finishing, opened, gone, heard, thrown, answers, server>>

\* open_shards(): one more.
OpenShard ==
  /\ finishing # None /\ opened # None /\ taken = {}
  /\ opened < shardCount /\ Len(conns) < MaxConns
  /\ conns' = Append(conns, [shard |-> opened, state |-> "connecting"])
  /\ shards' = Append(shards, Len(conns) + 1)
  /\ opened' = opened + 1
  /\ UNCHANGED <<use, up, starts, token, conduitId, ready, pending, deferred, finishing, taken>>
  /\ UNCHANGED <<result, gone, heard, thrown, reqs, answers, server>>

FinishEnd ==
  /\ finishing # None /\ opened = shardCount /\ taken = {}
  /\ Answer(finishing.call, "done")
  /\ finishing' = None /\ opened' = None
  /\ UNCHANGED <<use, up, starts, token, conduitId, ready, pending, shards, conns, deferred>>
  /\ UNCHANGED <<taken, gone, thrown, reqs, answers, server>>

Finish == TakeLists \/ (\E s \in Subs : SendTaken(s)) \/ OpenShard \/ FinishEnd

\* A client cannot be constructed, or the callback throws: what was taken and not sent is
\* forgotten, the shards that were opened stay, and the whole is done again or not.
FinishThrows ==
  /\ "throw" \in uses /\ finishing # None /\ opened # None
  /\ finishing.call \notin thrown
  /\ thrown' = thrown \cup {finishing.call}
  /\ heard' = IF taken = {} /\ opened = shardCount THEN heard \cup {finishing.call} ELSE heard
  /\ \E again \in BOOLEAN :
       /\ answers' = IF again THEN answers \cup {[req |-> FindReq(finishing.call),
                                                  answer |-> finishing.id]} ELSE answers
       /\ result' = [x \in Calls |-> IF x \in taken \/ (x = finishing.call /\ ~again)
                                      THEN "lost" ELSE result[x]]
  /\ finishing' = None /\ taken' = {} /\ opened' = None
  /\ UNCHANGED <<use, up, starts, token, conduitId, ready, pending, shards, conns, deferred>>
  /\ UNCHANGED <<gone, reqs, server>>

------------------------------------------------------------------------------
(* The shards, on the IO thread.                                              *)

SetConn(c, s) == conns' = [conns EXCEPT ![c].state = s]

\* on_welcome: the session is assigned to the shard.  The handshake takes
\* several ticks, so a connection that replaces another is in shards_ by then.
Welcome(c) == /\ finishing = None
              /\ c \in Range(shards) /\ conns[c].state = "connecting"
              /\ SetConn(c, "open")
              /\ reqs' = reqs \cup {PatchReq(c, conduitId)}
              /\ UNCHANGED <<use, up, starts, token, conduitId, ready, pending, shards>>
              /\ UNCHANGED <<deferred, opening, result, gone, heard, thrown, answers, server>>

\* Fault: the connection that replaces another keeps the shard_id it was
\* constructed with.
ReplacementUnwired(c) == [shard |-> 0, state |-> "connecting"]

Replacement(c) == [shard |-> conns[c].shard, state |-> "connecting"]

\* on_reconnect: a second connection is made, and moved into shards_ later.
Reconnect(c) == /\ "reconnect" \in uses
                /\ finishing = None
                /\ c \in Range(shards) /\ conns[c].state = "open"
                /\ Len(conns) < MaxConns
                /\ conns' = Append(conns, Replacement(c))
                /\ deferred' = Append(deferred, [shard |-> conns[c].shard, conn |-> Len(conns) + 1])
                /\ UNCHANGED <<use, up, starts, token, conduitId, ready, pending, shards>>
                /\ UNCHANGED <<opening, result, gone, heard, thrown, reqs, answers, server>>

\* Fault: the index is not checked against the ID it stands for.
MovesBeside(k, i) ==
  deferred[k].shard = i /\ \A m \in (k + 1)..Len(deferred) : deferred[m].shard # i

\* The deferred closure that has the last word about an element of shards_.
Moves(k, i) ==
  deferred[k].shard = i - 1 /\ \A m \in (k + 1)..Len(deferred) : deferred[m].shard # i - 1

Replaced(i) == IF \E k \in DOMAIN deferred : Moves(k, i)
               THEN deferred[CHOOSE k \in DOMAIN deferred : Moves(k, i)].conn ELSE shards[i]

RunDeferred == /\ deferred # <<>> /\ finishing = None
               /\ shards' = [i \in DOMAIN shards |-> Replaced(i)]
               /\ deferred' = <<>>
               /\ UNCHANGED <<use, up, starts, token, conduitId, ready, pending, conns>>
               /\ UNCHANGED <<opening, result, gone, heard, thrown, reqs, answers, server>>

\* The connection is closed: its object stays where it is.
Close(c) == /\ SetConn(c, "closed")
            /\ UNCHANGED <<use, up, starts, token, conduitId, ready, pending, shards>>
            /\ UNCHANGED <<deferred, opening, result, gone, heard, thrown, reqs, answers, server>>

\* By the peer.
PeerClose(c) == /\ "close" \in uses
                /\ c \in Range(shards) /\ conns[c].state # "closed"
                /\ Close(c)

\* By on_error: on_welcome or on_reconnect threw, because a client cannot be constructed.
ShardThrows(c) == /\ "throw" \in uses
                  /\ finishing = None
                  /\ c \in Range(shards) /\ conns[c].state # "closed"
                  /\ conns[c].state = "open" => "reconnect" \in uses
                  /\ Close(c)

------------------------------------------------------------------------------
Api == \/ Start \/ Stop
       \/ \E x \in Opens \cup Queries : Ask(x)
       \/ \E s \in Subs : Subscribe(s) \/ SubscribeSend(s) \/ SubscribeThrows(s) \/ ConsumerGone(s)
       \/ \E d \in Deletes : Delete(d)

Twitch == \/ \E r \in reqs : Serve(r) \/ Fail(r)
          \/ \E a \in answers : LoseAnswer(a)

Io == \/ \E a \in answers : Handle(a) \/ HandleThrows(a)
      \/ Finish \/ FinishThrows \/ RunDeferred
      \/ \E c \in DOMAIN conns : Welcome(c) \/ Reconnect(c) \/ PeerClose(c) \/ ShardThrows(c)

Next == Api \/ Twitch \/ Io

Spec == Init /\ [][Next]_vars

\* Requests are served or time out, the IO thread and the threads in
\* subscribe() are scheduled.
Fairness == /\ WF_vars(\E r \in reqs : Serve(r) \/ Fail(r))
            /\ WF_vars(\E a \in answers : Handle(a))
            /\ WF_vars(Finish)
            /\ \A s \in Subs : WF_vars(SubscribeSend(s))

FairSpec == Spec /\ Fairness

------------------------------------------------------------------------------
Requests == [kind : {"token"}, call : Calls \ Deletes]
              \cup [kind : {"find", "create"}, call : Opens] \cup [kind : {"query"}, call : Queries]
              \cup [kind : {"subscribe"}, call : Subs, conduit : Opens \cup {None}]
              \cup [kind : {"delete"}, call : Deletes, conduit : Opens]
              \cup [kind : {"patch"}, call : {None}, conn : 1..MaxConns, conduit : Opens \cup {None}]

Conn == [shard : ShardIds, state : {"connecting", "open", "closed"}]
Move == [shard : ShardIds, conn : DOMAIN conns]

Results == {"new", "checked", "pending", "called", "done", "failed", "dropped", "lost"}

CallTypes ==
  /\ up \in BOOLEAN /\ token \in BOOLEAN /\ ready \in BOOLEAN
  /\ starts \in 0..MaxStarts
  /\ conduitId \in Opens \cup {None}
  /\ pending \subseteq Subs /\ taken \subseteq Subs /\ gone \subseteq Users
  /\ finishing \in {None} \cup [call : Opens, id : Opens]
  /\ opened \in {None} \cup Nat
  /\ result \in [Calls -> Results] /\ heard \subseteq Calls /\ thrown \subseteq Calls
  /\ reqs \subseteq Requests
  /\ answers \subseteq [req : Requests, answer : {"ok", "failed", None} \cup Opens]

ShardTypes ==
  /\ uses \subseteq UseKinds /\ shardCount \in Nat \ {0}
  /\ conns \in Seq(Conn) /\ Len(conns) <= MaxConns
  /\ shards \in Seq(DOMAIN conns) /\ deferred \in Seq(Move)
  /\ conduits \subseteq Opens /\ assigned \in [Opens -> [ShardIds -> 0..MaxConns]]

TypeOK == CallTypes /\ ShardTypes

\* PendingOnlyUnready (subscribe(), finish_opening_conduit()): a subscription
\* never waits for a conduit that is ready already, where nothing would send it.
PendingOnlyUnready == ready => pending = {}

\* AccountedFor: a call that has not come to its end waits in the pending
\* lists, or is in exactly one request or handler: its callback is not
\* forgotten, unless it was lost to an exception.
Carried(x) == (\E r \in reqs : r.call = x) \/ (\E a \in answers : a.req.call = x)
Finishing(x) == finishing # None /\ finishing.call = x
CarriedOnce(x) ==
  /\ Finishing(x) => ~Carried(x)
  /\ \A r, q \in reqs : r.call = x /\ q.call = x => r = q
  /\ \A a, b \in answers : a.req.call = x /\ b.req.call = x => a = b
  /\ \A r \in reqs, a \in answers : r.call = x => a.req.call # x
AccountedFor ==
  \A x \in Calls : /\ x \in pending \cup taken <=> result[x] = "pending"
                   /\ Carried(x) \/ Finishing(x) <=> result[x] = "called"
                   /\ CarriedOnce(x)

\* HeardOnce: a call whose callback was called is under way no more, so that it
\* is not called twice, unless `completed` threw.
HeardOnce == \A x \in heard \ thrown : result[x] \in {"done", "failed"}

\* NamesAConduit (conduit.h: "If the conduit is not ready yet, the subscription
\* is created once it is"): no subscription is sent without a conduit_id.
NamesAConduit == \A r \in reqs : r.kind = "subscribe" => r.conduit # None

\* No callback is forgotten or called twice, no subscription waits for a conduit that is ready,
\* and, unless delete_conduit() races it, none is sent without the conduit's ID.  An exception may
\* lose the call it meets and, out of finish_opening_conduit(), what was taken and not sent; the
\* callback of a call whose `completed` threw may be called twice.
CallsKept == /\ TypeOK /\ AccountedFor /\ HeardOnce /\ PendingOnlyUnready
             /\ "delete" \notin uses => NamesAConduit

\* ConduitComplete: between handlers, conduit_ready_ says whether conduit_id_
\* is set, and there are no shards without a conduit.
ConduitComplete == finishing = None =>
                     /\ ready <=> conduitId # None
                     /\ conduitId = None => shards = <<>>

\* ShardIndexIsId (conduit.h, get_shard(): "Looks up a shard connection by its
\* ID"): the shard at an index of shards_ is the one with that shard_id.
ShardIndexIsId == \A i \in DOMAIN shards : conns[shards[i]].shard = i - 1

\* Through reconnects, deletions and whatever throws no half-open conduit is left, and, for an
\* application that opens one at a time, each shard stays at the index of its ID as long as no
\* call that opens the conduit threw: that appends the shards again, from ID 0.
OpensOnce == "twice" \notin uses /\ thrown \cap Opens = {}
ShardsInOrder == ConduitComplete /\ (OpensOnce => ShardIndexIsId)

\* When nothing is under way, Twitch has every shard of the conduit assigned to the connection
\* that is in shards_, reconnects included, if no request failed, nothing threw and no two calls
\* that open or that delete the conduit ran into each other.
OneByOne == uses \cap {"twice", "overlap"} = {}
Orderly == OneByOne /\ uses \cap {"fail", "throw"} = {}
Settled == /\ reqs = {} /\ answers = {} /\ deferred = <<>> /\ finishing = None
           /\ \A i \in DOMAIN shards : conns[shards[i]].state = "open"
ShardsAssigned == Orderly /\ Settled /\ ready =>
                    \A i \in DOMAIN shards : assigned[conduitId][i - 1] = shards[i]

------------------------------------------------------------------------------
(* The inductive invariant these properties follow from (EventSubProofs).     *)

\* Without delete_conduit(), the conduit a subscription was sent for stays.
Named == "delete" \notin uses =>
           /\ NamesAConduit
           /\ \A d \in Deletes : result[d] = "new"
           /\ \A s \in Subs : result[s] \in {"checked", "called"} => conduitId # None

\* finish_opening_conduit() works on the conduit it has published; an application that opens
\* one at a time has no other then, and none while a call that opens it is under way.
OpensAlone ==
  /\ finishing # None => conduitId = finishing.id
  /\ finishing = None => opened = None
  /\ opened = None => taken = {}
  /\ opened # None => ready
  /\ "throw" \notin uses => thrown = {}
  /\ OpensOnce =>
       /\ \A o, p \in Opens : result[o] = "called" /\ result[p] = "called" => o = p
       /\ \A o \in Opens : result[o] = "called" /\ finishing = None => conduitId = None
       /\ finishing # None => IF opened = None THEN shards = <<>> /\ ~ready ELSE Len(shards) = opened

\* A connection that replaces another is not connected before it is in shards_, and is made for
\* the same shard.
Replacing ==
  \A k \in DOMAIN deferred :
    /\ deferred[k].conn \notin Range(shards)
    /\ conns[deferred[k].conn].state = "connecting"
    /\ conns[deferred[k].conn].shard = deferred[k].shard

\* An assignment is asked for a connection that was welcomed, and names the conduit.
Patching ==
  \A r \in reqs : r.kind = "patch" =>
    /\ r.conn \in DOMAIN conns /\ conns[r.conn].state # "connecting"
    /\ OpensOnce /\ r.conn \in Range(shards) => r.conduit = conduitId

\* A deletion that is under way is the only one, and that of the conduit there is.
DeletesAlone ==
  OneByOne /\ "throw" \notin uses =>
    /\ \A d, e \in Deletes : result[d] = "called" /\ result[e] = "called" => d = e
    /\ \A r \in reqs \cup {a.req : a \in answers} : r.kind = "delete" => r.conduit = conduitId

\* Twitch has the conduit until it has served its deletion, and assigns it every open shard
\* that it was asked to.
Deleted == \E a \in answers : a.req.kind = "delete"
KnownToTwitch ==
  Orderly =>
    /\ \A a \in answers : a.req.kind \in {"find", "create"} => a.answer \in conduits \cup {None}
    /\ conduitId # None => Exists(conduitId) \/ Deleted
    /\ \A i \in DOMAIN shards :
         conns[shards[i]].state = "open" =>
           \/ assigned[conduitId][i - 1] = shards[i]
           \/ PatchReq(shards[i], conduitId) \in reqs
           \/ Deleted

InductiveInvariant ==
  /\ TypeOK /\ AccountedFor /\ HeardOnce /\ PendingOnlyUnready /\ Named
  /\ OpensAlone /\ ShardsInOrder /\ Replacing /\ Patching /\ DeletesAlone /\ KnownToTwitch
==============================================================================
